SPECIFICATION SignalsSpec
CONSTANTS
    quality = quality
    join = join
    Versions <- TwoVersions
    RunIds = {mine}
    Modules = {join}
    FullActions = FALSE
    KeepLast = 1
    MaxExecutions = 3
INVARIANTS
    GateHearsTrial
CHECK_DEADLOCK FALSE
