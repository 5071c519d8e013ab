SPECIFICATION FairServerSpec
CONSTANTS
    Queries = {q1, q2}
    BreakerEnabled = TRUE
    FailureThreshold = 2
    RecoveryTimeout = 2
    HalfOpenMax = 2
    ReadOnlyOnFailure = TRUE
    StaleMaxAge = 1
    RateEnabled = TRUE
    Burst = 2
    Refill = 2
    MaxStreams = 2
    MaxDrift = 1
INVARIANTS TypeOK BreakerCounters ShutdownIsFinal StreamsAccounted
PROPERTIES ClosesOnFreshAnswer RecoversWhileUp OutageIsNoticed ShutdownEnds
