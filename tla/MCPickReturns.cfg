CONSTANTS
    t1 = t1
    t2 = t2
    Threads <- TwoThreads
    kHttpRetryMax = 1
SPECIFICATION FairSpec
PROPERTY PickReturns
CHECK_DEADLOCK FALSE
