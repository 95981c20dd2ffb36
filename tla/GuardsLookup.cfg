CONSTANTS
    main = main
    project = project
    std = std
    Uri = {main, project, std}
    Project = {project}
    Std = std
    Shard = {0, 1}
    Hashes <- MCHashes
    Worker = {1, 2}
    Idle = Idle
    Requests <- Name
    SendMaySuspend = TRUE
    MaxRequests = 1

SPECIFICATION Spec

CHECK_DEADLOCK FALSE

INVARIANT NeverWaits
