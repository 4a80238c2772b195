SPECIFICATION HealRunSpec
CONSTANTS
    RunConfigs <- Configurations
    NoCap = NoCap
    NoPatch = NoPatch
    MaxRuns = 2
    MaxPatches = 2
INVARIANTS
    RealDataNeedsTrust
    BlueprintAccountedFor
    ReportsHonest
PROPERTIES
    RunEnds
CHECK_DEADLOCK FALSE
