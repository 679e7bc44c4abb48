CONSTANTS
    FailureThreshold = 2
    RecoveryTimeout = 1
    HalfOpenMaxCalls = 1
    LogEnd = 3
    BatchSize = 2
    HasDLQ = FALSE
    Odd = {}
    NoLetter = {}
    MaxFaults = 0
SPECIFICATION Spec
INVARIANT NothingLost
