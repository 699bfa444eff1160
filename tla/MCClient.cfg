CONSTANTS
    me = me
    c1 = c1
    c2 = c2
    None = None
    Me = me
    Accounts <- OneAccount
    Conns <- TwoConns
    RoomIds <- OneRoom
    LoginTwice = TRUE
    MaxFaults <- SomeFaults
    MaxInFlight <- SomeMessages
SPECIFICATION FairClientSpec
INVARIANTS
    RetryUnderWay
    ViewMatchesServer
PROPERTIES
    RestoreEnds
    LossResolves
CHECK_DEADLOCK FALSE
