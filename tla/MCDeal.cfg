CONSTANTS
    HandSize = 2
    WordMax = 7
    Inputs <- DealsAndReplies
SPECIFICATION Spec
INVARIANTS
    ReplyObeyed
    HandsAllDealt
    ScoresDecideHands
    ShuffleIsEven
CHECK_DEADLOCK FALSE
