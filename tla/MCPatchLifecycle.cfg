SPECIFICATION LifecycleSpec
CONSTANTS
    etl = etl
    report = report
    p1 = p1
    p2 = p2
    Blueprints = {etl, report}
    Patches = {p1, p2}
    Target <- Owner
    ApplyDirs = {"pending"}
    MaxTime = 2
    MaxCommits = 4
SYMMETRY Interchangeable
INVARIANTS
    FiledInOneFolder
    UncommittedIsReported
    RollbackRemovesPatch
CHECK_DEADLOCK FALSE
