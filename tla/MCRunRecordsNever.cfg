SPECIFICATION RecordsSpec
CONSTANTS
    r1 = r1
    r2 = r2
    mine = mine
    yours = yours
    Runs = {r1, r2}
    GivenIds = {mine, yours}
    Failures <- AllFailures
    Guardrails <- Infrastructure
    Nothing = Nothing
    Torn = Torn
    MaxPatches = 2
    MaxAttempts = 1
    Cap = 1
    Window = 0
    LastTime = 1
INVARIANTS
    NeverHealRespected
CHECK_DEADLOCK FALSE
