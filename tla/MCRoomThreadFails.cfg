SPECIFICATION Spec
CONSTANTS
    MatchTotals = {2}
    RetryMax = 1
    ThreadMayFail = TRUE
    MaxSeq = 3
    Outcomes <- TwoOutcomes
INVARIANTS
    BoardAfterAgreedGames
CHECK_DEADLOCK FALSE
