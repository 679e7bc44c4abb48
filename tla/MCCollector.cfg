SPECIFICATION FairSpec
CONSTANTS
    Publishers = {p1, p2}
    Drainer = drainer
    Nobody = nobody
    HasSpool = TRUE
    MaxBytes = 3
    Bytes <- MCBytes
    AsciiOnly = FALSE
    Huge = {2}
    Attempts = 2
    MaxEvents = 3
    MaxFaults = 2
INVARIANTS TypeOK NothingLost FewDuplicates SpoolBounded
PROPERTY Drains
