SPECIFICATION FairSpec
CONSTANTS
    LogEnd = 5
    Unstamped = {2}
    Long = {3, 4}
    Unreadable = {5}
    NoLetter = {4}
    PollMax = 3
    BatchMax = 2
    Attempts = 2
    MaxFaults = 2
CHECK_DEADLOCK FALSE
INVARIANTS NothingVanishes RefsResolve
PROPERTIES ImplementsAtLeastOnce Drains
