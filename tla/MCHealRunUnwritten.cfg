SPECIFICATION HealRunSpec
CONSTANTS
    RunConfigs <- Configurations
    NoCap = NoCap
    NoPatch = NoPatch
    MaxRuns = 2
    MaxPatches = 2
INVARIANTS
    AppliedMeansWritten
CHECK_DEADLOCK FALSE
