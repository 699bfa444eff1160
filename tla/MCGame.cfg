CONSTANTS
    Packs <- SmallPacks
    BaseScore = 3
    ThreadMayFail = TRUE
    MaxDeals = 2
SPECIFICATION Spec
INVARIANTS
    NoCardLost
    AuctionFair
    TurnOrder
    OutMeansOver
    SpringMeansUntouched
    ScoresSettle
PROPERTIES
    MovesRunOut
    ImplementsSmallGame
