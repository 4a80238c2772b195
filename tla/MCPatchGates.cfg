SPECIFICATION GatesSpec
CONSTANTS
    r1 = r1
    r2 = r2
    reviewer = reviewer
    Runs = {r1, r2}
    Reviewers = {reviewer}
    Original <- Small
    Assignments <- SmallAssignments
    PatchId <- SmallIds
    Allowed = {"in", "out", "good"}
    ForbiddenOps = {"set_spark_config"}
    NoPath = "no path"
    CtxPath = "ctx"
    NoContext = "no context"
    Removable = {"clean"}
    NoFile = NoFile
    MaxSaves = 1
INVARIANTS
    EditsSurvive
    SpecsKept
    WrittenAsJudged
    
    LineageGateHears
CHECK_DEADLOCK FALSE
