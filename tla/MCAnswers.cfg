SPECIFICATION AnswersSpec
CONSTANTS
    Replies <- SmallReplies
    Signatures = {s1, s2}
    NoSignature = NoSignature
    BudgetConfigs <- MCBudgetConfigs
    NoTokenCap = NoTokenCap
    CallTimeout = 2
    CallTokens <- MCCallTokens
    MaxTiers = 3
    TierLimits = {1, 2}
    None = None
    MaxRuns = 3
    Retries = 1
INVARIANTS
    ReplyUnderstood
    EveryAttemptRecordedOnce
    ResultSound
    EscalatesOnce
    TierBudgetsHold
    AnswerHasCause
PROPERTIES
    NoCallPastBudget
    Terminates
    KeepsSessionContract
    DecisionIsHeard
CHECK_DEADLOCK FALSE
