CONSTANTS
    MatchTotals = {1, 2}
    RetryMax = 2
    ThreadMayFail = FALSE
    MaxSeq = 2
    Outcomes <- TwoOutcomes
SPECIFICATION FairSpec
INVARIANTS
    MatchAccounting
PROPERTIES
    ImplementsMatch
    DealCompletes
    DroppedSeatResolves
CHECK_DEADLOCK FALSE
