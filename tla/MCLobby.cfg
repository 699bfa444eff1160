CONSTANTS
    a1 = a1
    a2 = a2
    c1 = c1
    c2 = c2
    c3 = c3
    None = None
    Accounts <- TwoAccounts
    Conns <- ThreeConns
    RoomIds <- TwoRooms
    LoginTwice = FALSE
SPECIFICATION FairSpec
INVARIANTS
    OnePlayerPerAccount
    SessionsMatchSeats
    HeartbeatWatchesSeats
    RoomsAreTheTakenOnes
PROPERTIES
    ImplementsPresence
    LostPlayerNoticed
CHECK_DEADLOCK FALSE
