SPECIFICATION Spec
CONSTANTS
    RankSets <- HighAndLow
    MaxCards = 16
INVARIANTS
    MatchersFollowRules
    OneReading
PROPERTIES
    SwipeLeavesPlay
CHECK_DEADLOCK FALSE
