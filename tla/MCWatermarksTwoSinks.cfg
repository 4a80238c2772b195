SPECIFICATION WmSpec
CONSTANTS
    Sinks <- TwoSinks
    LastRow = 2
    MaxRuns = 3
    MaxIncidents = 0
INVARIANT NothingSkipped
CHECK_DEADLOCK FALSE
