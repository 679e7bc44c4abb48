SPECIFICATION FairSpec
CONSTANTS
    w1 = w1
    w2 = w2
    Workers = {w1}
    Pool <- MCPool
    Limit = 2
    Window = 1
    MaxReloads = 0
    MaxFaults = 0
PROPERTY FeaturesComplete
