SPECIFICATION SendSpec
CONSTANTS
    s1 = s1
    s2 = s2
    Sender = {s1, s2}
    FailureThreshold = 1
    SoftThreshold = 0
    Gradual = FALSE
    Period = 1
    Allowed = 1
    HealthChecks = FALSE
    Transports = 2
    MaxRetries = 1
INVARIANTS ProbeHasOwner FallbackReaches
