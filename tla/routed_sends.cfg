SPECIFICATION RoutedFairSpec
CONSTANTS
    s1 = s1
    s2 = s2
    p = p
    q = q
    a = a
    b = b
    t1 = t1
    t2 = t2
    NoPeer = NoPeer
    Sender = {s1, s2}
    FailureThreshold = 3
    SoftThreshold = 2
    Gradual = TRUE
    Period = 3
    Allowed = 1
    HealthChecks = TRUE
    Weights <- DefaultWeights
    Monitored = p
    Discoverable = {q}
    Skill = {a, b}
    Message <- Messages
    RawRules <- TwoOrders
INVARIANTS CircuitMatchesFailures RouteIsBest
PROPERTIES OpenBlocks RecoversWhenUp RoutesFresh
