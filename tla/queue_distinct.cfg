SPECIFICATION FairSpec
CONSTANTS
    c1 = c1
    c2 = c2
    c3 = c3
    c4 = c4
    c5 = c5
    t1 = t1
    t2 = t2
    t3 = t3
    t4 = t4
    t5 = t5
    NoCall = NoCall
    Call = {c1, c2, c3, c4, c5}
    Task = {t1, t2, t3, t4, t5}
    TaskOf <- DistinctTaskOf
    MaxConcurrentTasks = 2
    MaxQueuedTasks = 2
    TaskStateBound = TRUE
CHECK_DEADLOCK FALSE
INVARIANTS ConcurrencyCap QueueBound WorkConservation BookkeepingExact
PROPERTIES ArrivalOrder EveryCallSettles
