CONSTANTS
    main = main
    project = project
    lib = lib
    root = root
    libdir = libdir
    clean = clean
    names = names
    g = g
    other = other
    unused = unused
    broken = broken
    None = None
    NoSlot = NoSlot
    Slot = {s1, s2}
    File = {main, lib, project}
    Project = {project}
    Folder = {root, libdir}
    FilesIn <- MCFilesInBoth
    ProjectOf <- MCProjectOfBoth
    Text <- MCText
    Global = {g}
    Lint = {unused, broken}
    Undefined <- MCUndefined
    Unused <- MCUnused
    ExtraGlobals <- MCExtraGlobals
    DisabledLints <- MCDisabledLints
    ProjectErrors <- MCProjectErrors
    PullSupported = TRUE
    DynamicWatch = TRUE
    InitialFolders = {root}
    InitialDisk <- MCDiskLib
    SettingsChoices <- MCLibrarySettings
    ClientOps = {"disk", "settings", "folders", "lookup", "fail"}
    MaxOps = 3
SPECIFICATION Spec
SYMMETRY MCSymmetry
CHECK_DEADLOCK FALSE
INVARIANTS
    IndexFollowsDisk
    IndexCoversWorkspace
