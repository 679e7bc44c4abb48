CONSTANTS
    Groups = {archiver, router}
    Originals = 1
    ReplayLimit = 1
    BatchSize = 2
    MaxEmptyPolls = 1
    Limits = {NoLimit, 1}
    NoLimit = NoLimit
    MaxFaults = 1
SPECIFICATION FairSpec
INVARIANTS NothingSkipped CopiesBounded
PROPERTIES Quiesces
