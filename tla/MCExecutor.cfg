SPECIFICATION ExecSpec
CONSTANTS
    NoModule = NoModule
    MaxExecutions = 2
    Plans <- SmallPlans
INVARIANTS
    SinksGetWholeLineage
    StatusAccountedFor
    ResumeKeepsCompletedSinks
PROPERTIES
    GateSeesUpstreamProbe
    ExecEnds
CHECK_DEADLOCK FALSE
