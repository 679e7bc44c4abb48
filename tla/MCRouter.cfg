CONSTANTS
    FailureThreshold = 1
    RecoveryTimeout = 1
    HalfOpenMaxCalls = 1
    Routers = {r1, r2}
    NoOne = NoOne
    LogEnd = 4
    BatchSize = 2
    HasDLQ = TRUE
    Unreadable = {4}
    NoLetter = {3}
    MaxFaults = 1
SPECIFICATION FairSpec
INVARIANTS NothingLost NoGaps CommittedIsAccounted
PROPERTIES ImplementsAtLeastOnce Drains
