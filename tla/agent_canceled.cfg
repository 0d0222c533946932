SPECIFICATION Spec
CONSTANTS
    c1 = c1
    c2 = c2
    c3 = c3
    c4 = c4
    t1 = t1
    t2 = t2
    t3 = t3
    t4 = t4
    x1 = x1
    x2 = x2
    NoCall = NoCall
    Call = {c1, c2, c3, c4}
    Task = {t1, t2, t3, t4}
    Context = {x1, x2}
    TaskOf <- DistinctTaskOf
    ContextOf <- TwoContexts
    Cancels = {t1}
    CacheLimit = 4
    TaskStateBound = TRUE
CHECK_DEADLOCK FALSE
PROPERTIES TerminalIsFinal
