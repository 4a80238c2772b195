SPECIFICATION PipelineSpec
CONSTANTS
    Layerings <- SmallLayerings
    ShellVars <- Shell
    Callable <- Answering
    MaxDepth = 1
    MaxCalls = 3
    Roots <- MCRoots
    Library <- Files
    MaxNesting = 2
    Tuples = {r1, r2}
    r1 = r1
    r2 = r2
    Routers <- SmallRouters
    NoLimit = NoLimit
    LastTime = 3
    Manifests <- SmallManifests
    NoView = NoView
    MaxTries = 2
    MaxExecutions = 2
    Sinks <- OneSink
    LastRow = 3
    MaxRuns = 5
    MaxIncidents = 4
INVARIANTS
    ContextResolved
    CycleVerdict
    RowsRouted
    ViewsStayApart
    WatermarkInStep
PROPERTIES
    ManifestSound
CHECK_DEADLOCK FALSE
