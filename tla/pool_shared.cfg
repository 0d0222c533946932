SPECIFICATION FairSpec
CONSTANTS
    c1 = c1
    c2 = c2
    c3 = c3
    c4 = c4
    NoConn = NoConn
    Call = {c1, c2, c3}
    MaxReconnectAttempts = 1
CHECK_DEADLOCK FALSE
INVARIANTS CountExact IdleIsTimed
PROPERTIES SocketsClose
