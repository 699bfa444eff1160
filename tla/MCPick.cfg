CONSTANTS
    t1 = t1
    t2 = t2
    Threads <- TwoThreads
    kHttpRetryMax = 2
SPECIFICATION FairSpec
INVARIANTS
    TypeOK
PROPERTIES
    CrossedForever
    ReturnsUnlessCrossed
CHECK_DEADLOCK FALSE
