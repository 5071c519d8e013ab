SPECIFICATION Spec
CONSTANTS
    Queries = {q1, q2}
    BreakerEnabled = TRUE
    FailureThreshold = 2
    RecoveryTimeout = 2
    HalfOpenMax = 2
    ReadOnlyOnFailure = TRUE
    StaleMaxAge = 2
    RateEnabled = TRUE
    Burst = 2
    Refill = 1
INVARIANTS HalfOpenAllowsTraffic
