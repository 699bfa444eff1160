SPECIFICATION Spec
CONSTANTS
    MatchTotals = {1}
    RetryMax = 1
    ThreadMayFail = FALSE
    MaxSeq = 1
    Outcomes <- TwoOutcomes
INVARIANTS
    TrioOnlineAndReadyStarts
CHECK_DEADLOCK FALSE
