CONSTANTS
    Groups = {router}
    Originals = 2
    ReplayLimit = 3
    BatchSize = 2
    MaxEmptyPolls = 1
    Limits = {1}
    NoLimit = NoLimit
    MaxFaults = 0
SPECIFICATION Spec
INVARIANTS AllReplayed
