SPECIFICATION Spec
CONSTANTS
    LogEnd = 2
    Unstamped = {}
    Long = {}
    Unreadable = {}
    NoLetter = {}
    PollMax = 2
    BatchMax = 2
    Attempts = 1
    MaxFaults = 0
CHECK_DEADLOCK FALSE
INVARIANT ArchivedBeforeScored
