CONSTANTS
    t1 = t1
    t2 = t2
    Threads <- MCThreads
    Events <- MCEvents
    Batches <- MCBatches
    Similar <- NearDuplicates
    NoveltyScores <- MCNovelty
    DedupWindow = 0
    ThresholdLow = 2000
    ThresholdMedium = 5000
    ThresholdHigh = 8000
    MaxTime = 1
    MaxEvents = 3
    MaxFaults = 0
SPECIFICATION FairSpec
INVARIANT ThreadSafe
