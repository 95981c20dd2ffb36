CONSTANTS
    main = main
    project = project
    lib = lib
    root = root
    libdir = libdir
    clean = clean
    names = names
    g = g
    other = other
    unused = unused
    broken = broken
    None = None
    NoSlot = NoSlot
    Slot = {s1, s2}
    File = {main, project}
    Project = {project}
    Folder = {root}
    FilesIn <- MCFilesInRoot
    ProjectOf <- MCProjectOfRoot
    Text <- MCText
    Global = {g}
    Lint = {unused, broken}
    Undefined <- MCUndefined
    Unused <- MCUnused
    ExtraGlobals <- MCExtraGlobals
    DisabledLints <- MCDisabledLints
    ProjectErrors <- MCProjectErrors
    PullSupported = TRUE
    DynamicWatch = TRUE
    InitialFolders = {root}
    InitialDisk <- MCDiskMain
    SettingsChoices <- MCOneSetting
    ClientOps = {"open", "close", "disk"}
    MaxOps = 3
SPECIFICATION Spec
SYMMETRY MCSymmetry
CHECK_DEADLOCK FALSE
INVARIANTS
    ProjectEditsArePickedUp
