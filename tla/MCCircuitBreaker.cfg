CONSTANTS
    FailureThreshold = 3
    RecoveryTimeout = 2
    HalfOpenMaxCalls = 2
    Callers = {t1, t2, t3}
SPECIFICATION FairBreakerSpec
INVARIANTS StreakTrips ProbesAfterQuiet
PROPERTIES ClosesOnEvidence Recovers
