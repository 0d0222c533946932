SPECIFICATION FairSpec
CONSTANTS
    m1 = m1
    m2 = m2
    k1 = k1
    k2 = k2
    r1 = r1
    f1 = f1
    f2 = f2
    Message = {m1, m2}
    Key = {k1, k2}
    KeysOf <- OwnOrShared
    RouteKey = {r1}
    Flush = {f1, f2}
    NoMessage = NoMessage
    MaxRetries = 2
    Envelope <- TwoEnvelopes
    MaxHops = 1
    MaxPayloadBytes = 1
    HasDefault = FALSE
INVARIANT OneFlush
PROPERTIES DeliversOnce EveryMessageSettles
