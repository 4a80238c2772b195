SPECIFICATION SurveyorSpec
CONSTANTS
    f1 = f1
    f2 = f2
    m = m
    Files = {f1, f2}
    Models = {m}
    Benches <- AllBenches
    Absent = Absent
    Free = Free
    r1 = r1
    r2 = r2
    mine = mine
    yours = yours
    Runs = {r1, r2}
    GivenIds = {mine, yours}
    Failures <- RuleFailures
    Guardrails <- Labelled
    Nothing = Nothing
    Torn = Torn
    MaxPatches = 2
    MaxAttempts = 1
    Cap = 1
    Window = 0
    LastTime = 1
    quality = quality
    join = join
    Versions <- TwoVersions
    RunIds = {mine, yours}
    Modules = {join}
    FullActions = FALSE
    KeepLast = 1
    MaxExecutions = 3
SYMMETRY Interchangeable
INVARIANTS
    ExitZeroMeansFixed
    ErrorsAreHealable
    SpendCapped
    GateHearsVerdict
    PlanRegressionHeard
PROPERTIES
    RegressionSeen
CHECK_DEADLOCK FALSE
