----------------------------- MODULE LobbyProofs -----------------------------
(***************************************************************************)
(* Proofs about Lobby, for any accounts, connections and room numbers: its *)
(* invariants from one inductive invariant, action by action, and then     *)
(* that every action does what Presence allows, or nothing its accounts'   *)
(* owners could see.                                                       *)
(***************************************************************************)
EXTENDS Lobby, TLAPS

USE NoneAssumption

\* What a seat knows of its connection: it is taken, and a session over that
\* connection is its player's.
SeatKnowsItsSession ==
    \A p \in Place : seat_conn[p] # None =>
        /\ seat_account[p] # None
        /\ LoggedIn(seat_conn[p]) => session_account[seat_conn[p]] = seat_account[p]

\* Sessions and seats point at each other: the inductive invariant.  A seat is
\* given away only if the session in it says so, and a session speaks for a
\* seat only if the seat says so.
IInv ==
    /\ TypeOK
    /\ OnePlayerPerAccount
    /\ SessionKnowsItsSeat
    /\ SeatKnowsItsSession
    /\ SeatedSessionsHaveSeats
    /\ NothingOnClosed
    /\ RoomsAreTheTakenOnes

LEMMA PlaceFields ==
    /\ \A p \in Place : p = <<p[1], p[2]>> /\ p[1] \in RoomIds /\ p[1] # None
    /\ \A r \in RoomIds : <<r, 0>> \in Place
BY DEF Place, Seat

LEMMA InitIInv == Init => IInv
BY PlaceFields
   DEF Init, IInv, TypeOK, OnePlayerPerAccount, SessionKnowsItsSeat, SeatKnowsItsSession,
       SeatedSessionsHaveSeats, NothingOnClosed, RoomsAreTheTakenOnes, LoggedIn, PlacesOf, PlacesAt

-----------------------------------------------------------------------------
(* Connections *)

\* A fresh connection has neither session nor seat (NothingOnClosed).
LEMMA OpenKeeps ==
    ASSUME IInv, NEW c \in Conns, Open(c)
    PROVE  IInv'
<1> USE PlaceFields DEF IInv, LoggedIn, PlacesOf, PlacesAt,
                        Open, sessionVars, seatVars
<1>1. TypeOK'
    BY DEF TypeOK
<1>2. OnePlayerPerAccount'
    BY DEF OnePlayerPerAccount
<1>3. SessionKnowsItsSeat'
    BY DEF SessionKnowsItsSeat
<1>4. SeatKnowsItsSession'
    BY DEF SeatKnowsItsSession
<1>5. SeatedSessionsHaveSeats'
    BY DEF SeatedSessionsHaveSeats, NothingOnClosed
<1>6. NothingOnClosed'
    BY DEF NothingOnClosed
<1>7. RoomsAreTheTakenOnes'
    BY DEF RoomsAreTheTakenOnes
<1>8. QED BY <1>1, <1>2, <1>3, <1>4, <1>5, <1>6, <1>7

LEMMA LoseKeeps ==
    ASSUME IInv, NEW c \in Conns, Lose(c)
    PROVE  IInv'
<1> USE PlaceFields DEF IInv, LoggedIn, PlacesOf, PlacesAt,
                        Lose, sessionVars, seatVars
<1>1. TypeOK'
    BY DEF TypeOK
<1>2. OnePlayerPerAccount'
    BY DEF OnePlayerPerAccount
<1>3. SessionKnowsItsSeat'
    BY DEF SessionKnowsItsSeat
<1>4. SeatKnowsItsSession'
    BY DEF SeatKnowsItsSession
<1>5. SeatedSessionsHaveSeats'
    BY DEF SeatedSessionsHaveSeats
<1>6. NothingOnClosed'
    BY DEF NothingOnClosed
<1>7. RoomsAreTheTakenOnes'
    BY DEF RoomsAreTheTakenOnes
<1>8. QED BY <1>1, <1>2, <1>3, <1>4, <1>5, <1>6, <1>7

LEMMA OnCloseKeeps ==
    ASSUME IInv, NEW c \in Conns, OnClose(c)
    PROVE  IInv'
<1> USE PlaceFields DEF IInv, LoggedIn, PlacesOf, PlacesAt,
                        OnClose, EraseSession, PutSession, BeginRetry
<1>1. TypeOK'
    BY DEF TypeOK
<1>2. OnePlayerPerAccount'
    BY DEF TypeOK, OnePlayerPerAccount
<1>3. SessionKnowsItsSeat'
    BY DEF TypeOK, SessionKnowsItsSeat
<1>4. SeatKnowsItsSession'
    BY DEF TypeOK, SeatKnowsItsSession
<1>5. SeatedSessionsHaveSeats'
    BY DEF TypeOK, SeatedSessionsHaveSeats
<1>6. NothingOnClosed'
    BY DEF TypeOK, NothingOnClosed
<1>7. RoomsAreTheTakenOnes'
    BY DEF TypeOK, RoomsAreTheTakenOnes
<1>8. QED BY <1>1, <1>2, <1>3, <1>4, <1>5, <1>6, <1>7

LEMMA HeartbeatKeeps ==
    ASSUME IInv, NEW silent \in SUBSET Conns, Heartbeat(silent)
    PROVE  IInv'
<1> USE PlaceFields DEF IInv, LoggedIn, PlacesOf, PlacesAt,
                        Heartbeat, MayBeSilent, BeginRetry, sessionVars
<1>1. TypeOK'
    BY DEF TypeOK
<1>2. OnePlayerPerAccount'
    BY DEF TypeOK, OnePlayerPerAccount
<1>3. SessionKnowsItsSeat'
    BY DEF TypeOK, SessionKnowsItsSeat
<1>4. SeatKnowsItsSession'
    BY DEF TypeOK, SeatKnowsItsSession
<1>5. SeatedSessionsHaveSeats'
    BY DEF TypeOK, SeatedSessionsHaveSeats
<1>6. NothingOnClosed'
    BY DEF TypeOK, NothingOnClosed
<1>7. RoomsAreTheTakenOnes'
    BY DEF TypeOK, RoomsAreTheTakenOnes
<1>8. QED BY <1>1, <1>2, <1>3, <1>4, <1>5, <1>6, <1>7

-----------------------------------------------------------------------------
(* Messages *)

\* The account is logged in nowhere else, and has no seat to disagree with.
LEMMA LoginHallKeeps ==
    ASSUME IInv, NEW c \in Conns, NEW a \in Accounts, LoginSent(c, a), LoginHall(c, a)
    PROVE  IInv'
<1> USE PlaceFields DEF IInv, LoggedIn, PlacesOf, PlacesAt,
                        LoginSent, LoginHall, OnlineElsewhere, PutSession, seatVars
<1>1. TypeOK'
    BY DEF TypeOK
<1>2. OnePlayerPerAccount'
    BY DEF TypeOK, OnePlayerPerAccount
<1>3. SessionKnowsItsSeat'
    BY DEF TypeOK, SessionKnowsItsSeat
<1>4. SeatKnowsItsSession'
    BY DEF TypeOK, SeatKnowsItsSession
<1>5. SeatedSessionsHaveSeats'
    BY DEF TypeOK, SeatedSessionsHaveSeats
<1>6. NothingOnClosed'
    BY DEF TypeOK, NothingOnClosed
<1>7. RoomsAreTheTakenOnes'
    BY DEF TypeOK, RoomsAreTheTakenOnes
<1>8. QED BY <1>1, <1>2, <1>3, <1>4, <1>5, <1>6, <1>7

\* The seat it gets back is the only one of the account.
LEMMA LoginReconnectKeeps ==
    ASSUME IInv, NEW c \in Conns, NEW a \in Accounts, LoginSent(c, a), LoginReconnect(c, a)
    PROVE  IInv'
<1> USE PlaceFields DEF IInv, LoggedIn, PlacesOf, PlacesAt,
                        LoginSent, LoginReconnect, OnlineElsewhere, PutSession
<1>1. TypeOK'
    BY DEF TypeOK
<1>2. OnePlayerPerAccount'
    BY DEF TypeOK, OnePlayerPerAccount
<1>3. SessionKnowsItsSeat'
    BY DEF TypeOK, OnePlayerPerAccount, SessionKnowsItsSeat
<1>4. SeatKnowsItsSession'
    BY DEF TypeOK, SeatKnowsItsSession
<1>5. SeatedSessionsHaveSeats'
    BY DEF TypeOK, SeatedSessionsHaveSeats
<1>6. NothingOnClosed'
    BY DEF TypeOK, NothingOnClosed
<1>7. RoomsAreTheTakenOnes'
    BY DEF TypeOK, RoomsAreTheTakenOnes
<1>8. QED BY <1>1, <1>2, <1>3, <1>4, <1>5, <1>6, <1>7

LEMMA LoginSeatOnlineKeeps ==
    ASSUME IInv, NEW c \in Conns, NEW a \in Accounts, LoginSent(c, a), LoginSeatOnline(c, a)
    PROVE  IInv'
<1> USE PlaceFields DEF IInv, LoggedIn, PlacesOf, PlacesAt,
                        LoginSent, LoginSeatOnline, EraseSession, PutSession, seatVars
<1>1. TypeOK'
    BY DEF TypeOK
<1>2. OnePlayerPerAccount'
    BY DEF TypeOK, OnePlayerPerAccount
<1>3. SessionKnowsItsSeat'
    BY DEF TypeOK, SessionKnowsItsSeat
<1>4. SeatKnowsItsSession'
    BY DEF TypeOK, SeatKnowsItsSession
<1>5. SeatedSessionsHaveSeats'
    BY DEF TypeOK, SeatedSessionsHaveSeats
<1>6. NothingOnClosed'
    BY DEF TypeOK, NothingOnClosed
<1>7. RoomsAreTheTakenOnes'
    BY DEF TypeOK, RoomsAreTheTakenOnes
<1>8. QED BY <1>1, <1>2, <1>3, <1>4, <1>5, <1>6, <1>7

\* A session outside a room has no seat elsewhere, and a room that does not
\* exist has nobody in it.
LEMMA CreateRoomKeeps ==
    ASSUME IInv, NEW c \in Conns, NEW r \in RoomIds, CreateRoom(c, r)
    PROVE  IInv'
<1> USE PlaceFields DEF IInv, LoggedIn, PlacesOf, PlacesAt,
                        CreateRoom, Acts, SitDown
<1>1. TypeOK'
    BY DEF TypeOK
<1>2. OnePlayerPerAccount'
    BY DEF TypeOK, OnePlayerPerAccount, SessionKnowsItsSeat
<1>3. SessionKnowsItsSeat'
    BY DEF TypeOK, OnePlayerPerAccount, SessionKnowsItsSeat, RoomsAreTheTakenOnes
<1>4. SeatKnowsItsSession'
    BY DEF TypeOK, SeatKnowsItsSession
<1>5. SeatedSessionsHaveSeats'
    BY DEF TypeOK, SeatedSessionsHaveSeats, RoomsAreTheTakenOnes
<1>6. NothingOnClosed'
    BY DEF TypeOK, NothingOnClosed
<1>7. RoomsAreTheTakenOnes'
    BY DEF TypeOK, RoomsAreTheTakenOnes
<1>8. QED BY <1>1, <1>2, <1>3, <1>4, <1>5, <1>6, <1>7

LEMMA EnterRoomKeeps ==
    ASSUME IInv, NEW c \in Conns, NEW p \in Place, EnterRoom(c, p)
    PROVE  IInv'
<1> USE PlaceFields DEF IInv, LoggedIn, PlacesOf, PlacesAt,
                        EnterRoom, Acts, IsFreeSeat, SitDown
<1>1. TypeOK'
    BY DEF TypeOK
<1>2. OnePlayerPerAccount'
    BY DEF TypeOK, OnePlayerPerAccount, SessionKnowsItsSeat
<1>3. SessionKnowsItsSeat'
    BY DEF TypeOK, OnePlayerPerAccount, SessionKnowsItsSeat
<1>4. SeatKnowsItsSession'
    BY DEF TypeOK, SeatKnowsItsSession
<1>5. SeatedSessionsHaveSeats'
    BY DEF TypeOK, SeatedSessionsHaveSeats
<1>6. NothingOnClosed'
    BY DEF TypeOK, NothingOnClosed
<1>7. RoomsAreTheTakenOnes'
    BY DEF TypeOK, RoomsAreTheTakenOnes
<1>8. QED BY <1>1, <1>2, <1>3, <1>4, <1>5, <1>6, <1>7

\* The seat over the connection is the one of its session's player.
LEMMA LeaveRoomKeeps ==
    ASSUME IInv, NEW c \in Conns, LeaveRoom(c)
    PROVE  IInv'
<1> USE PlaceFields DEF IInv, LoggedIn, PlacesOf, PlacesAt,
                        LeaveRoom, Acts, Vacate, LastInRoom
<1>1. TypeOK'
    BY DEF TypeOK
<1>2. OnePlayerPerAccount'
    BY DEF TypeOK, OnePlayerPerAccount
<1>3. SessionKnowsItsSeat'
    BY DEF TypeOK, OnePlayerPerAccount, SessionKnowsItsSeat, SeatKnowsItsSession
<1>4. SeatKnowsItsSession'
    BY DEF TypeOK, SeatKnowsItsSession
<1>5. SeatedSessionsHaveSeats'
    BY DEF TypeOK, SeatedSessionsHaveSeats
<1>6. NothingOnClosed'
    BY DEF TypeOK, NothingOnClosed
<1>7. RoomsAreTheTakenOnes'
    BY DEF TypeOK, RoomsAreTheTakenOnes
<1>8. QED BY <1>1, <1>2, <1>3, <1>4, <1>5, <1>6, <1>7

LEMMA LogoutKeeps ==
    ASSUME IInv, NEW c \in Conns, Logout(c)
    PROVE  IInv'
<1> USE PlaceFields DEF IInv, LoggedIn, PlacesOf, PlacesAt,
                        Logout, Acts, EraseSession, PutSession, Vacate, LastInRoom, seatVars
<1>1. TypeOK'
    <2>1. CASE PlacesAt(c) = {} BY <2>1 DEF TypeOK
    <2>2. CASE PlacesAt(c) # {}
        <3>1. PICK p \in PlacesAt(c) : Vacate(p) BY <2>2
        <3>2. QED BY <3>1 DEF TypeOK
    <2>3. QED BY <2>1, <2>2
<1>2. OnePlayerPerAccount'
    BY DEF TypeOK, OnePlayerPerAccount
<1>3. SessionKnowsItsSeat'
    BY DEF TypeOK, SessionKnowsItsSeat
<1>4. SeatKnowsItsSession'
    BY DEF TypeOK, SeatKnowsItsSession
<1>5. SeatedSessionsHaveSeats'
    BY DEF TypeOK, SeatedSessionsHaveSeats
<1>6. NothingOnClosed'
    BY DEF TypeOK, NothingOnClosed
<1>7. RoomsAreTheTakenOnes'
    BY DEF TypeOK, RoomsAreTheTakenOnes
<1>8. QED BY <1>1, <1>2, <1>3, <1>4, <1>5, <1>6, <1>7

-----------------------------------------------------------------------------
(* Reconnect windows *)

LEMMA GiveUpKeeps ==
    ASSUME IInv, NEW p \in Place, GiveUp(p)
    PROVE  IInv'
<1> USE PlaceFields DEF IInv, LoggedIn, PlacesOf, PlacesAt,
                        GiveUp, GivenUp, Vacate, LastInRoom, sessionVars
<1>1. TypeOK'
    BY DEF TypeOK
<1>2. OnePlayerPerAccount'
    BY DEF TypeOK, OnePlayerPerAccount
<1>3. SessionKnowsItsSeat'
    BY DEF TypeOK, SessionKnowsItsSeat
<1>4. SeatKnowsItsSession'
    BY DEF TypeOK, SeatKnowsItsSession
<1>5. SeatedSessionsHaveSeats'
    BY DEF TypeOK, SeatedSessionsHaveSeats
<1>6. NothingOnClosed'
    BY DEF TypeOK, NothingOnClosed
<1>7. RoomsAreTheTakenOnes'
    BY DEF TypeOK, RoomsAreTheTakenOnes
<1>8. QED BY <1>1, <1>2, <1>3, <1>4, <1>5, <1>6, <1>7

-----------------------------------------------------------------------------
(* The invariant and what follows from it *)

LEMMA NextIInv == IInv /\ [Next]_vars => IInv'
<1> SUFFICES ASSUME IInv, [Next]_vars PROVE IInv' OBVIOUS
<1>1. ASSUME NEW c \in Conns, ConnStep(c) PROVE IInv'
    BY <1>1, OpenKeeps, LoseKeeps, OnCloseKeeps, LoginHallKeeps, LoginReconnectKeeps,
       LoginSeatOnlineKeeps, CreateRoomKeeps, EnterRoomKeeps, LeaveRoomKeeps, LogoutKeeps
       DEF ConnStep, Login
<1>2. CASE \E silent \in SUBSET Conns : Heartbeat(silent) BY <1>2, HeartbeatKeeps
<1>3. CASE \E p \in Place : GiveUp(p) BY <1>3, GiveUpKeeps
<1>4. CASE UNCHANGED vars
    BY <1>4 DEF vars, sessionVars, seatVars, IInv, TypeOK, OnePlayerPerAccount,
                SessionKnowsItsSeat, SeatKnowsItsSession, SeatedSessionsHaveSeats,
                NothingOnClosed, RoomsAreTheTakenOnes, LoggedIn, PlacesOf, PlacesAt
<1>5. QED BY <1>1, <1>2, <1>3, <1>4 DEF Next

LEMMA Invariance == Spec => []IInv
BY InitIInv, NextIInv, PTL DEF Spec

\* sessions_, rooms_ and the seats are well typed.
THEOREM TypeCorrect == Spec => []TypeOK
<1>1. IInv => TypeOK BY DEF IInv
<1>2. QED BY <1>1, Invariance, PTL

\* However logins, drops, returns and closes are ordered, an account is logged
\* in once at most and has one seat at most (Table::login, Table::sit_down).
THEOREM AccountsPlayOnce == Spec => []OnePlayerPerAccount
<1>1. IInv => OnePlayerPerAccount BY DEF IInv
<1>2. QED BY <1>1, Invariance, PTL

\* A session never names a room other than its player's, its player's seat is
\* never over another connection, and no handler takes a seat from under a
\* session that is in a room.
THEOREM SessionsAreRight == Spec => []SessionsMatchSeats
<1>1. IInv => SessionsMatchSeats BY DEF IInv, SessionsMatchSeats
<1>2. QED BY <1>1, Invariance, PTL

\* on_close leaves neither a session nor a seat behind.
THEOREM ClosedMeansGone == Spec => []NothingOnClosed
<1>1. IInv => NothingOnClosed BY DEF IInv
<1>2. QED BY <1>1, Invariance, PTL

\* rooms_ has just the rooms in which somebody sits (maybe_dissolve).
THEOREM RoomsAreTaken == Spec => []RoomsAreTheTakenOnes
<1>1. IInv => RoomsAreTheTakenOnes BY DEF IInv
<1>2. QED BY <1>1, Invariance, PTL

\* Who is seated in the old state and in the new one, is so in the same seat:
\* only a session without a room sits down.
LEMMA SeatStays ==
    ASSUME IInv, Next, NEW p \in Place, NEW q \in Place,
           seat_account[p] # None, seat_account'[q] = seat_account[p]
    PROVE  p = q
<1> USE DEF IInv, LoggedIn, PlacesOf, PlacesAt, OnePlayerPerAccount
<1>1. ASSUME seat_account'[q] = seat_account[q] PROVE p = q
    BY <1>1
<1>2. ASSUME NEW c \in Conns, NEW r \in Place, Acts(c), session_room[c] = None, SitDown(c, r)
      PROVE  p = q
    BY <1>1, <1>2, PlaceFields DEF Acts, SitDown, SessionKnowsItsSeat, TypeOK
<1>3. ASSUME NEW r \in Place, Vacate(r) PROVE p = q
    BY <1>1, <1>3 DEF Vacate, TypeOK
<1>4. ASSUME NEW c \in Conns, ConnStep(c) PROVE p = q
    <2>1. CASE \E r \in RoomIds : CreateRoom(c, r)
        BY <1>2, <2>1, PlaceFields DEF CreateRoom
    <2>2. CASE \E r \in Place : EnterRoom(c, r)
        BY <1>2, <2>2 DEF EnterRoom
    <2>3. CASE LeaveRoom(c) \/ Logout(c)
        BY <1>1, <1>3, <2>3 DEF LeaveRoom, Logout, seatVars
    <2>4. CASE Open(c) \/ Lose(c) \/ OnClose(c) \/ \E a \in Accounts : Login(c, a)
        BY <1>1, <2>4 DEF Open, Lose, OnClose, BeginRetry, Login, LoginHall, LoginReconnect,
                          LoginSeatOnline, seatVars
    <2>5. QED BY <1>4, <2>1, <2>2, <2>3, <2>4 DEF ConnStep
<1>5. CASE \E silent \in SUBSET Conns : Heartbeat(silent)
    BY <1>1, <1>5 DEF Heartbeat, BeginRetry
<1>6. CASE \E r \in Place : GiveUp(r)
    BY <1>3, <1>6 DEF GiveUp
<1>7. QED BY <1>4, <1>5, <1>6 DEF Next

\* Whatever happens to its connection, an account that keeps a seat keeps the
\* same one; a return leads nowhere else (Table::login, README).
THEOREM ReturnsLeadHome == Spec => SameSeatAfterReturn
<1>1. IInv /\ [Next]_vars =>
        [\A p, q \in Place :
            seat_account[p] # None /\ seat_account'[q] = seat_account[p] => p = q]_vars
    BY SeatStays
<1>2. QED BY <1>1, Invariance, PTL DEF Spec, SameSeatAfterReturn

-----------------------------------------------------------------------------
(* The heartbeat, when no login form is submitted twice *)

LEMMA NextHeartbeatWatches ==
    ~LoginTwice /\ IInv /\ HeartbeatWatchesSeats /\ [Next]_vars => HeartbeatWatchesSeats'
<1> SUFFICES ASSUME ~LoginTwice, IInv, HeartbeatWatchesSeats, [Next]_vars
             PROVE  HeartbeatWatchesSeats'
    OBVIOUS
<1> USE PlaceFields DEF IInv, HeartbeatWatchesSeats, TypeOK, LoggedIn, PlacesOf, PlacesAt
<1>1. ASSUME NEW c \in Conns, ConnStep(c) PROVE HeartbeatWatchesSeats'
    <2>1. CASE Open(c) \/ Lose(c)
        BY <2>1 DEF Open, Lose, sessionVars, seatVars
    <2>2. CASE OnClose(c)
        BY <2>2 DEF OnClose, EraseSession, PutSession, BeginRetry
    <2>3. CASE \E a \in Accounts : LoginSent(c, a) /\ Login(c, a)
        BY <2>3 DEF LoginSent, Login, LoginHall, LoginReconnect, LoginSeatOnline,
                    EraseSession, PutSession, seatVars
    <2>4. CASE (\E r \in RoomIds : CreateRoom(c, r)) \/ (\E p \in Place : EnterRoom(c, p))
        <3>1. ASSUME NEW p \in Place, Acts(c), SitDown(c, p) PROVE HeartbeatWatchesSeats'
            BY <3>1 DEF Acts, SitDown
        <3>2. QED BY <2>4, <3>1 DEF CreateRoom, EnterRoom
    <2>5. CASE LeaveRoom(c)
        BY <2>5 DEF LeaveRoom, Acts, Vacate
    <2>6. CASE Logout(c)
        BY <2>6 DEF Logout, Acts, Vacate, EraseSession, PutSession, seatVars,
                    OnePlayerPerAccount
    <2>7. QED BY <1>1, <2>1, <2>2, <2>3, <2>4, <2>5, <2>6 DEF ConnStep
<1>2. CASE \E silent \in SUBSET Conns : Heartbeat(silent)
    BY <1>2 DEF Heartbeat, BeginRetry, sessionVars
<1>3. CASE \E p \in Place : GiveUp(p)
    BY <1>3 DEF GiveUp, Vacate, sessionVars
<1>4. CASE UNCHANGED vars
    BY <1>4 DEF vars, sessionVars, seatVars
<1>5. QED BY <1>1, <1>2, <1>3, <1>4 DEF Next

\* The heartbeat goes through sessions only, and that is enough: every seat
\* that is online has one, unless a login form may be submitted twice.
THEOREM HeartbeatMissesNoSeat == ~LoginTwice /\ Spec => []HeartbeatWatchesSeats
<1>1. Init => HeartbeatWatchesSeats
    BY PlaceFields DEF Init, HeartbeatWatchesSeats
<1>2. SUFFICES ASSUME ~LoginTwice PROVE Spec => []HeartbeatWatchesSeats
    OBVIOUS
<1>3. IInv /\ HeartbeatWatchesSeats /\ [Next]_vars => HeartbeatWatchesSeats'
    BY <1>2, NextHeartbeatWatches
<1>4. QED BY <1>1, <1>3, Invariance, PTL DEF Spec

-----------------------------------------------------------------------------
(* The lobby keeps what Presence promises *)

Hall == {a \in Accounts : InHall(a)}
Seats == {s \in Accounts \X Place : seat_account[s[2]] = s[1]}
Here == {a \in Accounts : SeatIsHere(a)}

LEMMA SeatsMembers ==
    ASSUME NEW a, NEW p \in Place
    PROVE  /\ <<a, p>> \in Seats <=> a \in Accounts /\ seat_account[p] = a
           /\ <<a, p>> \in Seats' <=> a \in Accounts /\ seat_account'[p] = a
BY DEF Seats

\* Sitting down is Sit, for a session in the hall.
LEMMA SitDownIsSit ==
    ASSUME IInv, NEW c \in Conns, NEW p \in Place, Acts(c), session_room[c] = None,
           seat_account[p] = None, SitDown(c, p)
    PROVE  PresenceOfLobby!Sit(session_account[c], p)
<1> DEFINE a == session_account[c]
<1> USE PlaceFields DEF IInv, TypeOK, Acts, LoggedIn, SitDown, PlacesOf, OnePlayerPerAccount,
                        SessionKnowsItsSeat
<1>1. a \in Accounts /\ a \in Hall
    BY DEF Hall, InHall
<1>2. \A q \in Place : seat_account[q] # a
    OBVIOUS
<1>3. Hall' = Hall \ {a}
    BY DEF Hall, InHall
<1>4. Seats' = Seats \cup {<<a, p>>}
    BY <1>1, <1>2 DEF Seats
<1>5. Here' = Here \cup {a}
    BY <1>1, <1>2 DEF Here, SeatIsHere
<1>6. \A b \in Accounts : <<b, p>> \notin Seats
    BY SeatsMembers
<1>7. QED BY <1>1, <1>3, <1>4, <1>5, <1>6 DEF PresenceOfLobby!Sit, Hall, Seats, Here

\* Vacating takes the seat from its account, and from no other.
LEMMA VacateTakesSeat ==
    ASSUME IInv, NEW p \in Place, seat_account[p] # None, Vacate(p)
    PROVE  /\ seat_account[p] \in Accounts
           /\ Seats' = {s \in Seats : s[1] # seat_account[p]}
           /\ Here' = Here \ {seat_account[p]}
<1> USE DEF IInv, TypeOK, Vacate, PlacesOf, OnePlayerPerAccount
<1>1. seat_account[p] \in Accounts
    OBVIOUS
<1>2. \A q \in Place : q # p => seat_account[q] # seat_account[p]
    OBVIOUS
<1>3. Seats' = {s \in Seats : s[1] # seat_account[p]}
    BY <1>2 DEF Seats
<1>4. Here' = Here \ {seat_account[p]}
    BY <1>2 DEF Here, SeatIsHere
<1>5. QED BY <1>1, <1>3, <1>4

\* Losing the connections of seats is Drop.
LEMMA BeginRetryIsDrop ==
    ASSUME IInv, NEW gone \in SUBSET Conns, BeginRetry(gone), Hall' = Hall
    PROVE  \E away \in SUBSET Here : PresenceOfLobby!Drop(away)
<1> USE DEF IInv, TypeOK, BeginRetry, PlacesOf
<1>1. Here' \subseteq Here
    BY DEF Here, SeatIsHere
<1>2. Here' = Here \ (Here \ Here') /\ Here \ Here' \in SUBSET Here
    BY <1>1
<1>3. Seats' = Seats
    BY DEF Seats
<1>4. PresenceOfLobby!Drop(Here \ Here')
    BY <1>2, <1>3 DEF PresenceOfLobby!Drop, Hall, Seats, Here
<1>5. QED BY <1>2, <1>4

LEMMA InitPresence == Init => PresenceOfLobby!Init
<1> SUFFICES ASSUME Init PROVE PresenceOfLobby!Init OBVIOUS
<1>1. Hall = {} BY DEF Init, Hall, InHall
<1>2. Seats = {} BY DEF Init, Seats
<1>3. Here = {} BY DEF Init, Here, SeatIsHere, PlacesOf
<1>4. QED BY <1>1, <1>2, <1>3 DEF PresenceOfLobby!Init, Hall, Seats, Here

\* Nothing an account's owner sees has changed.
LEMMA Stutter ==
    ASSUME Hall' = Hall, Seats' = Seats, Here' = Here
    PROVE  UNCHANGED PresenceOfLobby!vars
BY DEF PresenceOfLobby!vars, Hall, Seats, Here

\* The views of the seats depend on the seats only, that of the hall on the
\* sessions only.
LEMMA SeatViews == UNCHANGED seatVars => Seats' = Seats /\ Here' = Here
BY DEF seatVars, Seats, Here, SeatIsHere, PlacesOf

LEMMA HallView == UNCHANGED sessionVars => Hall' = Hall
BY DEF sessionVars, Hall, InHall

LEMMA OnCloseMapped ==
    ASSUME IInv, NEW c \in Conns, OnClose(c)
    PROVE  PresenceOfLobby!Next \/ UNCHANGED PresenceOfLobby!vars
<1> DEFINE a == session_account[c]
<1> USE DEF IInv, TypeOK, LoggedIn, PlacesOf, OnClose, EraseSession, PutSession
<1>1. CASE LoggedIn(c) /\ session_room[c] = None
    <2>1. a \in Hall /\ Hall' = Hall \ {a}
        BY <1>1 DEF Hall, InHall, OnePlayerPerAccount
    <2>2. PlacesOf(a) = {} /\ \A p \in Place : seat_conn[p] # c
        BY <1>1, PlaceFields DEF SessionKnowsItsSeat, SeatKnowsItsSession
    <2>3. seat_conn' = seat_conn /\ UNCHANGED <<rooms, seat_account>>
        BY <2>2 DEF BeginRetry
    <2>4. PresenceOfLobby!SignOut(a)
        BY <2>1, <2>3, SeatViews DEF PresenceOfLobby!SignOut, Hall, Seats, Here, seatVars
    <2>5. QED BY <2>1, <2>4 DEF PresenceOfLobby!Next, Hall
<1>2. CASE ~(LoggedIn(c) /\ session_room[c] = None)
    <2>1. Hall' = Hall
        BY <1>2 DEF Hall, InHall
    <2>2. \E away \in SUBSET Here : PresenceOfLobby!Drop(away)
        BY <2>1, BeginRetryIsDrop
    <2>3. QED BY <2>2 DEF PresenceOfLobby!Next, Here
<1>3. QED BY <1>1, <1>2

LEMMA HeartbeatMapped ==
    ASSUME IInv, NEW silent \in SUBSET Conns, Heartbeat(silent)
    PROVE  PresenceOfLobby!Next
<1>1. \E away \in SUBSET Here : PresenceOfLobby!Drop(away)
    BY HallView, BeginRetryIsDrop DEF Heartbeat
<1>2. QED BY <1>1 DEF PresenceOfLobby!Next, Here

LEMMA LoginMapped ==
    ASSUME IInv, NEW c \in Conns, NEW a \in Accounts, LoginSent(c, a), Login(c, a)
    PROVE  PresenceOfLobby!Next \/ UNCHANGED PresenceOfLobby!vars
<1> USE DEF IInv, TypeOK, LoggedIn, PlacesOf, LoginSent, OnlineElsewhere, PutSession
<1>1. CASE LoginHall(c, a)
    <2>1. Hall' = Hall \cup {a} /\ Seats' = Seats /\ Here' = Here
        BY <1>1, SeatViews DEF LoginHall, Hall, InHall
    <2>2. CASE a \in Hall
        BY <2>1, <2>2, Stutter
    <2>3. CASE a \notin Hall
        <3>1. ~PresenceOfLobby!Seated(a)
            BY <1>1 DEF PresenceOfLobby!Seated, LoginHall
        <3>2. PresenceOfLobby!SignIn(a)
            BY <2>1, <2>3, <3>1 DEF PresenceOfLobby!SignIn, Hall, Seats, Here
        <3>3. QED BY <3>2 DEF PresenceOfLobby!Next
    <2>4. QED BY <2>2, <2>3
<1>2. CASE LoginReconnect(c, a)
    <2>1. PICK p \in PlacesOf(a) :
            /\ seat_conn[p] = None
            /\ PutSession(c, a, p[1])
            /\ seat_conn' = [seat_conn EXCEPT ![p] = c]
        BY <1>2 DEF LoginReconnect
    <2>2. \A d \in Conns : session_account[d] # a
        <3>1. \A d \in Conns \ {c} : session_account[d] # a
            BY <1>2 DEF LoginReconnect
        <3>2. SUFFICES ASSUME session_account[c] = a PROVE FALSE
            BY <3>1
        <3>3. p \in Place /\ session_room[c] = p[1] /\ p[1] # None
            BY <2>1, <3>2, PlaceFields DEF SessionKnowsItsSeat
        <3>4. PICK q \in PlacesOf(a) : seat_conn[q] = c
            BY <3>2, <3>3 DEF SeatedSessionsHaveSeats
        <3>5. q = p
            BY <2>1, <3>4 DEF OnePlayerPerAccount
        <3>6. QED BY <2>1, <3>4, <3>5
    <2>3. Hall' = Hall
        BY <2>1, <2>2, PlaceFields DEF Hall, InHall
    <2>4. Seats' = Seats
        BY <1>2 DEF LoginReconnect, Seats
    <2>5. a \notin Here /\ Here' = Here \cup {a}
        BY <1>2, <2>1 DEF LoginReconnect, Here, SeatIsHere, OnePlayerPerAccount
    <2>6. PresenceOfLobby!Seated(a)
        BY <2>1 DEF PresenceOfLobby!Seated
    <2>7. PresenceOfLobby!Return(a)
        BY <2>3, <2>4, <2>5, <2>6 DEF PresenceOfLobby!Return, Hall, Seats, Here
    <2>8. QED BY <2>7 DEF PresenceOfLobby!Next
<1>3. CASE LoginSeatOnline(c, a)
    <2>1. Hall' = Hall
        BY <1>3, PlaceFields DEF LoginSeatOnline, EraseSession, Hall, InHall, SessionKnowsItsSeat
    <2>2. QED BY <1>3, <2>1, SeatViews, Stutter DEF LoginSeatOnline
<1>4. QED BY <1>1, <1>2, <1>3 DEF Login

LEMMA SitDownMapped ==
    ASSUME IInv, NEW c \in Conns,
           (\E r \in RoomIds : CreateRoom(c, r)) \/ (\E p \in Place : EnterRoom(c, p))
    PROVE  PresenceOfLobby!Next
<1>1. ASSUME NEW r \in RoomIds, CreateRoom(c, r)
      PROVE  \E p \in Place : PresenceOfLobby!Sit(session_account[c], p)
    BY <1>1, PlaceFields, SitDownIsSit DEF CreateRoom, IInv, RoomsAreTheTakenOnes
<1>2. ASSUME NEW p \in Place, EnterRoom(c, p) PROVE PresenceOfLobby!Sit(session_account[c], p)
    BY <1>2, SitDownIsSit DEF EnterRoom, IsFreeSeat
<1>3. session_account[c] \in Accounts
    BY DEF CreateRoom, EnterRoom, Acts, LoggedIn, IInv, TypeOK
<1>4. QED BY <1>1, <1>2, <1>3 DEF PresenceOfLobby!Next

\* The seat over a connection with a session is that of its account.
LEMMA OwnSeat ==
    ASSUME IInv, NEW c \in Conns, Acts(c), NEW p \in PlacesAt(c)
    PROVE  /\ p \in Place /\ seat_account[p] = session_account[c]
           /\ session_account[c] \in Here /\ session_account[c] \notin Hall
BY PlaceFields
   DEF IInv, TypeOK, Acts, LoggedIn, PlacesAt, PlacesOf, Here, SeatIsHere, Hall, InHall,
       SeatKnowsItsSession, SessionKnowsItsSeat, OnePlayerPerAccount

LEMMA LeaveMapped ==
    ASSUME IInv, NEW c \in Conns, LeaveRoom(c) \/ Logout(c)
    PROVE  PresenceOfLobby!Next
<1>1. Acts(c)
    BY DEF LeaveRoom, Logout
<1>2. PICK a \in Accounts : a = session_account[c]
    BY <1>1 DEF Acts, LoggedIn, IInv, TypeOK
<1>3. ASSUME NEW p \in PlacesAt(c), Vacate(p), Hall' \in {Hall, Hall \cup {a}}
      PROVE  PresenceOfLobby!Next
    <2>1. p \in Place /\ seat_account[p] = a /\ a # None /\ a \in Here
        BY <1>1, <1>2, OwnSeat
    <2>2. Seats' = {s \in Seats : s[1] # a} /\ Here' = Here \ {a}
        BY <1>3, <2>1, VacateTakesSeat
    <2>3. PresenceOfLobby!Leave(a)
        BY <1>3, <2>1, <2>2
           DEF PresenceOfLobby!Leave, PresenceOfLobby!Without, Hall, Seats, Here
    <2>4. QED BY <2>3 DEF PresenceOfLobby!Next
<1>4. CASE LeaveRoom(c)
    <2>1. Hall' = Hall \cup {a}
        BY <1>2, <1>4 DEF LeaveRoom, Hall, InHall, IInv, TypeOK
    <2>2. QED BY <1>3, <1>4, <2>1 DEF LeaveRoom
<1>5. CASE Logout(c) /\ PlacesAt(c) # {}
    <2>1. PICK p \in PlacesAt(c) : Vacate(p)
        BY <1>5 DEF Logout
    <2>2. Hall' = Hall
        BY <1>1, <1>2, <1>5, OwnSeat
           DEF Logout, EraseSession, PutSession, Hall, InHall, IInv, TypeOK
    <2>3. QED BY <1>3, <2>1, <2>2
<1>6. CASE Logout(c) /\ PlacesAt(c) = {}
    <2>1. session_room[c] = None
        BY <1>1, <1>6 DEF Acts, LoggedIn, SeatedSessionsHaveSeats, PlacesOf, PlacesAt, IInv
    <2>2. a \in Hall /\ Hall' = Hall \ {a}
        BY <1>1, <1>2, <1>6, <2>1
           DEF Logout, EraseSession, PutSession, Hall, InHall, IInv, TypeOK,
               OnePlayerPerAccount, Acts, LoggedIn
    <2>3. PresenceOfLobby!SignOut(a)
        BY <1>6, <2>2, SeatViews DEF Logout, PresenceOfLobby!SignOut, Hall, Seats, Here
    <2>4. QED BY <2>3 DEF PresenceOfLobby!Next
<1>7. QED BY <1>4, <1>5, <1>6

LEMMA GiveUpMapped ==
    ASSUME IInv, NEW p \in Place, GiveUp(p)
    PROVE  PresenceOfLobby!Next
<1>1. PICK a \in Accounts : a = seat_account[p]
    BY VacateTakesSeat DEF GiveUp, GivenUp
<1>2. Seats' = {s \in Seats : s[1] # a} /\ Here' = Here \ {a} /\ Hall' = Hall
    BY <1>1, VacateTakesSeat, HallView DEF GiveUp, GivenUp
<1>3. a \notin Here
    BY <1>1 DEF GiveUp, GivenUp, Here, SeatIsHere, PlacesOf, IInv, OnePlayerPerAccount
<1>4. PresenceOfLobby!Seated(a)
    BY <1>1 DEF PresenceOfLobby!Seated
<1>5. PresenceOfLobby!Lapse(a)
    BY <1>2, <1>3, <1>4 DEF PresenceOfLobby!Lapse, PresenceOfLobby!Without, Hall, Seats, Here
<1>6. QED BY <1>5 DEF PresenceOfLobby!Next

LEMMA NextPresence ==
    IInv /\ [Next]_vars => [PresenceOfLobby!Next]_(PresenceOfLobby!vars)
<1> SUFFICES ASSUME IInv, [Next]_vars
             PROVE  PresenceOfLobby!Next \/ UNCHANGED PresenceOfLobby!vars
    OBVIOUS
<1>1. ASSUME NEW c \in Conns, ConnStep(c)
      PROVE  PresenceOfLobby!Next \/ UNCHANGED PresenceOfLobby!vars
    <2>1. CASE Open(c) \/ Lose(c)
        BY <2>1, SeatViews, HallView, Stutter DEF Open, Lose
    <2>2. QED BY <1>1, <2>1, OnCloseMapped, LoginMapped, SitDownMapped, LeaveMapped DEF ConnStep
<1>2. CASE UNCHANGED vars
    BY <1>2, SeatViews, HallView, Stutter DEF vars
<1>3. QED BY <1>1, <1>2, HeartbeatMapped, GiveUpMapped DEF Next

\* Every handler does to an account what Presence allows, or nothing: it is
\* signed out, in the hall, or in its one seat, which it loses only by leaving
\* or by staying away.
THEOREM PresenceKept == Spec => ImplementsPresence
BY InitPresence, NextPresence, Invariance, PTL DEF Spec, ImplementsPresence, PresenceOfLobby!Spec

=============================================================================
