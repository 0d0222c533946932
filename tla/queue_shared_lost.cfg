SPECIFICATION FairSpec
CONSTANTS
    c1 = c1
    c2 = c2
    c3 = c3
    c4 = c4
    c5 = c5
    t1 = t1
    t2 = t2
    t3 = t3
    t4 = t4
    t5 = t5
    NoCall = NoCall
    Call = {c1, c2, c3, c4, c5}
    Task = {t1, t2}
    TaskOf <- SharedTaskOf
    MaxConcurrentTasks = 1
    MaxQueuedTasks = 3
    TaskStateBound = TRUE
CHECK_DEADLOCK FALSE
PROPERTIES EveryCallSettles
