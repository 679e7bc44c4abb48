CONSTANTS
    FailureThreshold = 2
    RecoveryTimeout = 1
    HalfOpenMaxCalls = 1
    LogEnd = 6
    BatchSize = 2
    HasDLQ = TRUE
    Odd = {6}
    NoLetter = {5}
    MaxFaults = 2
SPECIFICATION FairSpec
INVARIANTS NothingLost NeverPastOdd
PROPERTIES ImplementsAtLeastOnce Drains
