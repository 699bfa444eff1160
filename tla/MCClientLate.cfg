CONSTANTS
    me = me
    c1 = c1
    c2 = c2
    None = None
    Me = me
    Accounts <- OneAccount
    Conns <- TwoConns
    RoomIds <- OneRoom
    LoginTwice = FALSE
    MaxFaults <- SomeFaults
    MaxInFlight <- SomeMessages
SPECIFICATION ClientSpec
INVARIANTS
    ReturnLeadsToSeat
CHECK_DEADLOCK FALSE
