SPECIFICATION FairSpec
CONSTANTS
    w1 = w1
    w2 = w2
    Workers = {w1, w2}
    Pool <- MCPool
    Limit = 1
    Window = 1
    MaxReloads = 1
    MaxFaults = 1
INVARIANTS TypeOK RateBounded ReloadIsWhole GapIsOneThread
PROPERTY Answers
