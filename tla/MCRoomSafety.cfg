CONSTANTS
    MatchTotals = {1, 2}
    RetryMax = 2
    ThreadMayFail = TRUE
    MaxSeq = 3
    Outcomes <- TwoOutcomes
SPECIFICATION Spec
INVARIANTS
    TypeOK
    DealingHasWorker
    PrefetchForNextGame
    MatchInShape
    RetryHasTimer
    OnlyAwaitedThreadsAreCurrent
PROPERTIES
    NoEvictionAfterReturn
    RedealKeepsMatch
CHECK_DEADLOCK FALSE
