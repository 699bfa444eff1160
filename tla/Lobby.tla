-------------------------------- MODULE Lobby --------------------------------
(***************************************************************************)
(* The lobby of the server: connections, the sessions logged in over them, *)
(* the set of rooms, and who sits where.  table.cpp finds an account by    *)
(* its session (sessions_) and by its seat (struct Seat), a connection by  *)
(* either, and nothing but the handlers below keeps the two in step.       *)
(*                                                                         *)
(* What happens inside a room is Room.  Here its reconnect windows are one *)
(* action, GiveUp, and a message that is refused without changing anything *)
(* is no step.                                                             *)
(***************************************************************************)
EXTENDS Integers

CONSTANTS
    Accounts,   \* the accounts of the database
    Conns,      \* the connections there may be at a time.  The server gives
                \* out a fresh number for each; NothingOnClosed shows that one
                \* whose connection is closed is as good as fresh
    RoomIds,    \* room numbers
    None,       \* no account, connection 0, no room
    LoginTwice  \* whether a login form may be submitted twice in a row

Seat == 0..2
Place == RoomIds \X Seat

ASSUME NoneAssumption == None \notin Accounts \cup Conns \cup RoomIds
ASSUME LoginTwiceAssumption == LoginTwice \in BOOLEAN

VARIABLES
    link,               \* per connection: "closed"; "open"; "lost" when the
                        \* browser is gone and the server does not know it;
                        \* "closing" once the server has closed it
    session_account,    \* sessions_: None where a connection has no session
    session_room,       \* Session::room_id
    rooms,              \* the keys of rooms_
    seat_account,       \* Seat::account_id, None where not occupied
    seat_conn           \* Seat::conn_id, None where not online

sessionVars == <<session_account, session_room>>
seatVars == <<rooms, seat_account, seat_conn>>
vars == <<link, sessionVars, seatVars>>

-----------------------------------------------------------------------------
(* Helpers of the handlers *)

LoggedIn(c) == session_account[c] # None

\* locate_account and locate_conn.
PlacesOf(a) == {p \in Place : seat_account[p] = a}
PlacesAt(c) == {p \in Place : seat_account[p] # None /\ seat_conn[p] = c}

IsFreeSeat(p) ==
    /\ seat_account[p] = None
    /\ \A q \in Place : q[1] = p[1] /\ q[2] < p[2] => seat_account[q] # None

PutSession(c, a, r) ==
    /\ session_account' = [session_account EXCEPT ![c] = a]
    /\ session_room' = [session_room EXCEPT ![c] = r]

EraseSession(c) == PutSession(c, None, None)

\* sit_down and attach.
SitDown(c, p) ==
    /\ seat_account' = [seat_account EXCEPT ![p] = session_account[c]]
    /\ seat_conn' = [seat_conn EXCEPT ![p] = c]
    /\ session_room' = [session_room EXCEPT ![c] = p[1]]
    /\ UNCHANGED <<link, session_account>>

LastInRoom_Never(p) == FALSE
LastInRoom(p) == \A q \in Place \ {p} : q[1] = p[1] => seat_account[q] = None

\* vacate and maybe_dissolve.
Vacate(p) ==
    /\ seat_account' = [seat_account EXCEPT ![p] = None]
    /\ seat_conn' = [seat_conn EXCEPT ![p] = None]
    /\ rooms' = IF LastInRoom(p) THEN rooms \ {p[1]} ELSE rooms

\* begin_retry on the seats of some connections.
BeginRetry(gone) ==
    /\ seat_conn' = [p \in Place |-> IF seat_conn[p] \in gone THEN None ELSE seat_conn[p]]
    /\ UNCHANGED <<rooms, seat_account>>

-----------------------------------------------------------------------------
(* Connections *)

Init ==
    /\ link = [c \in Conns |-> "closed"]
    /\ session_account = [c \in Conns |-> None]
    /\ session_room = [c \in Conns |-> None]
    /\ rooms = {}
    /\ seat_account = [p \in Place |-> None]
    /\ seat_conn = [p \in Place |-> None]

Open(c) ==
    /\ link[c] = "closed"
    /\ link' = [link EXCEPT ![c] = "open"]
    /\ UNCHANGED <<sessionVars, seatVars>>

\* The browser vanishes without a word: asleep, out of reach.
Lose(c) ==
    /\ link[c] = "open"
    /\ link' = [link EXCEPT ![c] = "lost"]
    /\ UNCHANGED <<sessionVars, seatVars>>

\* on_close: the browser closed the connection, or the closing handshake of
\* the server has ended or timed out.
OnClose(c) ==
    /\ link[c] # "closed"
    /\ link' = [link EXCEPT ![c] = "closed"]
    /\ EraseSession(c)
    /\ BeginRetry({c})

MayBeSilent_SeatedOnly(c) == LoggedIn(c) /\ session_room[c] # None
MayBeSilent(c) == LoggedIn(c) /\ link[c] # "closed"

\* heartbeat: it looks through the sessions, starts the reconnect window of a
\* silent one's seat and closes its connection; the session stays until
\* on_close.  Any session may be silent, a lost one surely is.
Heartbeat(silent) ==
    /\ silent # {} /\ \A c \in silent : MayBeSilent(c)
    /\ link' = [c \in Conns |-> IF c \in silent THEN "closing" ELSE link[c]]
    /\ BeginRetry(silent)
    /\ UNCHANGED sessionVars

-----------------------------------------------------------------------------
(* Messages *)

OnlineElsewhere_Never(c, a) == FALSE
OnlineElsewhere(c, a) == \E d \in Conns \ {c} : session_account[d] = a

\* "login" as the shipped page sends it: from the login form or on opening,
\* when nobody is logged in over the connection; twice when the form is
\* submitted again before the answer to the first is there.  The page reads the
\* form anew each time and the server would take any account: that it is the
\* same one again is assumed of the player.
LoginSent(c, a) ==
    /\ link[c] = "open"
    /\ IF LoggedIn(c) THEN LoginTwice /\ session_account[c] = a ELSE PlacesAt(c) = {}

\* "login" of an account without a seat.
LoginHall(c, a) ==
    /\ ~OnlineElsewhere(c, a)
    /\ PlacesOf(a) = {}
    /\ PutSession(c, a, None)
    /\ UNCHANGED <<link, seatVars>>

\* "login" of an account whose seat is held: it gets the seat back.
LoginReconnect(c, a) ==
    /\ ~OnlineElsewhere(c, a)
    /\ \E p \in PlacesOf(a) :
         /\ seat_conn[p] = None
         /\ PutSession(c, a, p[1])
         /\ seat_conn' = [seat_conn EXCEPT ![p] = c]
    /\ UNCHANGED <<link, rooms, seat_account>>

\* "login" of an account whose seat is online: refused, and the session that
\* was just put in the place of the old one is erased.
LoginSeatOnline(c, a) ==
    /\ ~OnlineElsewhere(c, a)
    /\ \E p \in PlacesOf(a) : seat_conn[p] # None
    /\ EraseSession(c)
    /\ UNCHANGED <<link, seatVars>>

\* A message other than "login" does something for a session only.
Acts(c) == link[c] = "open" /\ LoggedIn(c)

CreateRoom(c, r) ==
    /\ Acts(c) /\ session_room[c] = None
    /\ r \notin rooms
    /\ rooms' = rooms \cup {r}
    /\ SitDown(c, <<r, 0>>)

EnterRoom(c, p) ==
    /\ Acts(c) /\ session_room[c] = None
    /\ p[1] \in rooms /\ IsFreeSeat(p)
    /\ SitDown(c, p)
    /\ UNCHANGED rooms

\* "leave", "leave_room".
LeaveRoom(c) ==
    /\ Acts(c)
    /\ \E p \in PlacesAt(c) : Vacate(p)
    /\ session_room' = [session_room EXCEPT ![c] = None]
    /\ UNCHANGED <<link, session_account>>

Logout_KeepsSeat(c) ==
    /\ Acts(c)
    /\ EraseSession(c)
    /\ UNCHANGED <<link, seatVars>>

Logout(c) ==
    /\ Acts(c)
    /\ EraseSession(c)
    /\ IF PlacesAt(c) = {} THEN UNCHANGED seatVars ELSE \E p \in PlacesAt(c) : Vacate(p)
    /\ UNCHANGED link

GivenUp_Anyone(p) == seat_account[p] # None
GivenUp(p) == seat_account[p] # None /\ seat_conn[p] = None

\* on_retry, when the last reconnect window of a seat has passed.
GiveUp(p) ==
    /\ GivenUp(p)
    /\ Vacate(p)
    /\ UNCHANGED <<link, sessionVars>>

-----------------------------------------------------------------------------
Login(c, a) == LoginHall(c, a) \/ LoginReconnect(c, a) \/ LoginSeatOnline(c, a)

ConnStep(c) ==
    \/ Open(c) \/ Lose(c) \/ OnClose(c)
    \/ \E a \in Accounts : LoginSent(c, a) /\ Login(c, a)
    \/ \E r \in RoomIds : CreateRoom(c, r)
    \/ \E p \in Place : EnterRoom(c, p)
    \/ LeaveRoom(c) \/ Logout(c)

Next ==
    \/ \E c \in Conns : ConnStep(c)
    \/ \E silent \in SUBSET Conns : Heartbeat(silent)
    \/ \E p \in Place : GiveUp(p)

Spec == Init /\ [][Next]_vars

\* The heartbeat finds a lost connection that has a session, a closing
\* handshake ends or times out, and the reconnect windows run out.  Nothing is
\* assumed of browsers.
Fairness ==
    /\ \A c \in Conns :
         /\ WF_vars(link[c] = "lost" /\ \E silent \in SUBSET Conns :
                        c \in silent /\ Heartbeat(silent))
         /\ WF_vars(link[c] = "closing" /\ OnClose(c))
    /\ \A p \in Place : WF_vars(GiveUp(p))

FairSpec == Spec /\ Fairness

-----------------------------------------------------------------------------
(* Properties *)

\* The fields of sessions_, rooms_ and the seats have their types.
TypeOK ==
    /\ link \in [Conns -> {"closed", "open", "lost", "closing"}]
    /\ session_account \in [Conns -> Accounts \cup {None}]
    /\ session_room \in [Conns -> RoomIds \cup {None}]
    /\ rooms \subseteq RoomIds
    /\ seat_account \in [Place -> Accounts \cup {None}]
    /\ seat_conn \in [Place -> Conns \cup {None}]

\* An account is logged in over one connection at most and holds one seat at
\* most, through every order of logins, drops, returns and late closes.
OnePlayerPerAccount ==
    /\ \A c, d \in Conns : LoggedIn(c) /\ session_account[c] = session_account[d] => c = d
    /\ \A p, q \in Place : seat_account[p] # None /\ seat_account[p] = seat_account[q] => p = q

\* What a session says of its player's room is true: in a room, its player
\* has no seat but there, and over no other connection; in the hall, none.
SessionKnowsItsSeat ==
    \A c \in Conns : LoggedIn(c) =>
        \A p \in PlacesOf(session_account[c]) :
            p[1] = session_room[c] /\ seat_conn[p] \in {c, None}

\* An open connection whose session is in a room speaks for its seat: nothing
\* took the seat from under a player who is there.
SeatedSessionsHaveSeats ==
    \A c \in Conns : link[c] \in {"open", "lost"} /\ LoggedIn(c) /\ session_room[c] # None =>
        \E p \in PlacesOf(session_account[c]) : seat_conn[p] = c

\* Sessions and seats agree on who sits where, and a player who is there is
\* never without the seat: no drop, return, late close or reconnect window
\* that ran out takes it from under a connection that came back.
SessionsMatchSeats == SessionKnowsItsSeat /\ SeatedSessionsHaveSeats

\* table.h:211: heartbeat looks for whoever has been silent too long and pings
\* connections that are online.  It goes by sessions, so every seat that is
\* online needs one: that of its own player, over its own connection.
HeartbeatWatchesSeats ==
    \A p \in Place : seat_conn[p] # None =>
        /\ seat_account[p] # None
        /\ session_account[seat_conn[p]] = seat_account[p]

\* No session and no seat is left on a connection that is closed.
NothingOnClosed ==
    \A c \in Conns : link[c] = "closed" => ~LoggedIn(c) /\ PlacesAt(c) = {}

\* A room exists while somebody sits in it, online or held.
RoomsAreTheTakenOnes == rooms = {p[1] : p \in {q \in Place : seat_account[q] # None}}

\* The README: who drops for a while has a seat held, and what a return leads
\* back to is the same seat.
SameSeatAfterReturn ==
    [][\A p, q \in Place :
          seat_account[p] # None /\ seat_account'[q] = seat_account[p] => p = q]_vars

\* A connection that died does not hold its player's account or seat for ever:
\* its session ends and its seat goes into the reconnect window.
LostPlayerNoticed ==
    \A c \in Conns :
        (link[c] = "lost" /\ LoggedIn(c)) ~> (~LoggedIn(c) /\ PlacesAt(c) = {})

SeatIsHere(a) == \E p \in PlacesOf(a) : seat_conn[p] # None
InHall(a) == \E c \in Conns : session_account[c] = a /\ session_room[c] = None

\* The lobby as the owner of an account sees it.
PresenceOfLobby == INSTANCE Presence WITH
    Places <- Place,
    hall <- {a \in Accounts : InHall(a)},
    seats <- {s \in Accounts \X Place : seat_account[s[2]] = s[1]},
    here <- {a \in Accounts : SeatIsHere(a)}

\* The lobby keeps what it promises each account.
ImplementsPresence == PresenceOfLobby!Spec

=============================================================================
