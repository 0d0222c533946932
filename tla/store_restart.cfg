SPECIFICATION FairSpec
CONSTANTS
    t1 = t1
    t2 = t2
    NoTask = NoTask
    Task = {t1, t2}
    MaxRuns = 3
    RenameMayFail = TRUE
CHECK_DEADLOCK FALSE
INVARIANTS RecoverySparesLater
PROPERTIES OutcomeKept EveryTaskGetsOutcome
