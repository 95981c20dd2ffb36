CONSTANTS
    main = main
    project = project
    lib = lib
    root = root
    libdir = libdir
    clean = clean
    names = names
    g = g
    other = other
    unused = unused
    broken = broken
    None = None
    NoSlot = NoSlot
    Slot = {s1, s2}
    File = {main, project}
    Project = {project}
    Folder = {root}
    FilesIn <- MCFilesInRoot
    ProjectOf <- MCProjectOfRoot
    Text <- MCText
    Global = {g, other}
    Lint = {unused, broken}
    Undefined <- MCUndefined
    Unused <- MCUnused
    ExtraGlobals <- MCExtraGlobals
    DisabledLints <- MCDisabledLints
    ProjectErrors <- MCProjectErrors
    PullSupported = TRUE
    DynamicWatch = TRUE
    InitialFolders = {root}
    InitialDisk <- MCDiskMain
    SettingsChoices <- MCTwoSettings
    ClientOps = {"open", "change", "settings", "add_global"}
    MaxOps = 3
SPECIFICATION FairSpec
CHECK_DEADLOCK FALSE
INVARIANTS
    DiagnosticsAreCurrent
    GlobalsCacheIsCurrent
    UserGlobalsAreInForce
    ProjectSettingsSettle
PROPERTIES
    EverythingIsHandled
