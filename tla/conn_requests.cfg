SPECIFICATION ConnFairSpec
CONSTANTS
    r1 = r1
    r2 = r2
    r3 = r3
    Req = {r1, r2, r3}
CHECK_DEADLOCK FALSE
INVARIANTS PendingExact OwnAnswer OneSocket
PROPERTIES EveryRequestSettles
