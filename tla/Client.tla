-------------------------------- MODULE Client --------------------------------
(***************************************************************************)
(* One browser tab (app.js) and the server's lobby, with the sockets       *)
(* between them: how a player logs in, loses the connection and comes back *)
(* to the seat.  The server's handlers are those of Lobby.                 *)
(*                                                                         *)
(* Messages that only redraw a view (a state or a hall sent to everybody)  *)
(* are left out, and so are ping and pong: a browser answers a ping over   *)
(* its latest socket, whichever it came by, so the sessions that fall      *)
(* silent for good are those of lost connections and of other sockets      *)
(* (Silent).  The player types the right name and password, and always     *)
(* those of one account, though nothing in the code insists on that.       *)
(* A player who is not patient submits the login form while the page still *)
(* connects, too, which starts another way to the server.                  *)
(***************************************************************************)
EXTENDS Lobby, Sequences, FiniteSets

CONSTANTS
    Me,             \* the account of the player at this browser
    MaxFaults,      \* bounds, for a patient player and another: lost connections,
                    \* failed attempts, reloads and logins while the page connects
    MaxInFlight     \* bounds, likewise: messages under way on a socket when the
                    \* player clicks

ASSUME MeAssumption == Me \in Accounts

VARIABLES
    sock,           \* per connection, readyState of the browser's WebSocket
    ws,             \* ws: the latest WebSocket, None before the first
    fetching,       \* calls of connect() that wait for config.json
    timers,         \* pending calls of setTimeout(connect, 10000)
    remembered,     \* whether reconnectTimer is one of them
    reconnectLeft,
    view,           \* the view that is not hidden
    saved,          \* whether sessionStorage holds name and password
    up, down,       \* messages under way on each connection
    refused,        \* the connections whose last login was refused (for the
                    \* properties; no code reads it)
    patient,        \* whether the player submits the login form only over an open
                    \* socket or when nothing is under way to one; never changes
    faults          \* faults so far, for MaxFaults

pageVars == <<ws, fetching, timers, remembered, reconnectLeft>>
viewVars == <<view, saved>>
netVars == <<up, down, refused>>
browserVars == <<sock, pageVars, viewVars, patient, faults>>
clientVars == <<vars, browserVars, netVars>>

Tries == 3      \* let reconnectLeft = 3

-----------------------------------------------------------------------------
(* The page *)

ClientInit ==
    /\ Init
    /\ sock = [c \in Conns |-> "none"]
    /\ ws = None
    /\ fetching = 1
    /\ timers = 0
    /\ remembered = FALSE
    /\ reconnectLeft = Tries
    /\ view = "login"
    /\ saved = FALSE
    /\ up = [c \in Conns |-> <<>>]
    /\ down = [c \in Conns |-> <<>>]
    /\ refused = {}
    /\ patient \in BOOLEAN /\ (~patient => LoginTwice)
    /\ faults = 0

WsOpen == ws # None /\ sock[ws] = "open"

\* send: dropped without a word unless ws is open, and on the way if the
\* connection is lost.
Send(m) ==
    up' = IF WsOpen /\ link[ws] = "open" THEN [up EXCEPT ![ws] = Append(@, m)] ELSE up

Fault == faults < MaxFaults[patient] /\ faults' = faults + 1

\* connect, once config.json is there: the new socket takes the place of ws,
\* and the handlers of the old one stay.
NewSocket(c) ==
    /\ fetching > 0
    /\ sock[c] = "none" /\ link[c] = "closed"
    /\ fetching' = fetching - 1
    /\ sock' = [sock EXCEPT ![c] = "connecting"]
    /\ ws' = c
    /\ UNCHANGED <<vars, timers, remembered, reconnectLeft, viewVars, netVars, patient, faults>>

\* Connections whose browser end is gone.
Dead == {c \in Conns : sock[c] = "none" /\ link[c] # "closed"}

\* The browser opens its sockets to one server one at a time, in the order they
\* were made (RFC 6455, 4.1): the latest is not decided before the others.
Turn(c) == c = ws => \A d \in Conns \ {c} : sock[d] # "connecting"

\* The page waits for the player to log in again.
OnOpen_NoLogin(c) ==
    /\ sock[c] = "connecting" /\ Turn(c)
    /\ Open(c)
    /\ sock' = [sock EXCEPT ![c] = "open"]
    /\ timers' = IF remembered THEN timers - 1 ELSE timers
    /\ remembered' = FALSE
    /\ reconnectLeft' = Tries
    /\ refused' = refused \ {c}
    /\ UNCHANGED <<ws, fetching, viewVars, up, down, patient, faults>>

\* onopen.  The login goes out over ws, which may be another socket by now.
OnOpen(c) ==
    /\ sock[c] = "connecting" /\ Turn(c)
    /\ Open(c)
    /\ sock' = [sock EXCEPT ![c] = "open"]
    /\ timers' = IF remembered THEN timers - 1 ELSE timers
    /\ remembered' = FALSE
    /\ reconnectLeft' = Tries
    /\ IF saved /\ (ws = c \/ (WsOpen /\ link[ws] = "open"))
       THEN up' = [up EXCEPT ![ws] = Append(@, "login")]
       ELSE UNCHANGED up
    /\ refused' = refused \ {c}
    /\ UNCHANGED <<ws, fetching, viewVars, down, patient, faults>>

OutOfTries == reconnectLeft <= 0

\* onclose.
OnSocketClosed ==
    IF OutOfTries
    THEN /\ view' = IF view = "restore" THEN "login" ELSE view
         /\ UNCHANGED <<reconnectLeft, timers, remembered>>
    ELSE /\ reconnectLeft' = reconnectLeft - 1
         /\ timers' = timers + 1
         /\ remembered' = TRUE
         /\ UNCHANGED view

\* A socket that does not open.
ConnectFails(c) ==
    /\ sock[c] = "connecting" /\ Turn(c)
    /\ Fault
    /\ sock' = [sock EXCEPT ![c] = "none"]
    /\ OnSocketClosed
    /\ UNCHANGED <<vars, ws, fetching, saved, netVars, patient>>

\* The connection is lost without a word to either end.
Cut(c) ==
    /\ sock[c] = "open"
    /\ Fault
    /\ Lose(c)
    /\ up' = [up EXCEPT ![c] = <<>>]
    /\ down' = [down EXCEPT ![c] = <<>>]
    /\ UNCHANGED <<sock, pageVars, viewVars, refused, patient>>

\* The browser notices that a socket is no longer connected.
SocketClosed(c) ==
    /\ sock[c] = "open" /\ link[c] # "open"
    /\ sock' = [sock EXCEPT ![c] = "none"]
    /\ down' = [down EXCEPT ![c] = <<>>]
    /\ OnSocketClosed
    /\ UNCHANGED <<vars, ws, fetching, saved, up, refused, patient, faults>>

Live == {c \in Conns : sock[c] \in {"connecting", "open"}}

\* The timer connects only if the page has no socket at all.
TimerFires_IfNoSocket ==
    /\ timers > 0
    /\ timers' = timers - 1
    /\ remembered' \in {r \in BOOLEAN : IF timers = 1 THEN ~r ELSE r => remembered}
    /\ fetching' = IF Live = {} THEN fetching + 1 ELSE fetching
    /\ UNCHANGED <<vars, sock, ws, reconnectLeft, viewVars, netVars, patient, faults>>

\* The setTimeout of onclose.
TimerFires ==
    /\ timers > 0
    /\ timers' = timers - 1
    /\ remembered' \in {r \in BOOLEAN : IF timers = 1 THEN ~r ELSE r => remembered}
    /\ fetching' = fetching + 1
    /\ UNCHANGED <<vars, sock, ws, reconnectLeft, viewVars, netVars, patient, faults>>

\* The player reloads the page.  What was sent may still reach the server,
\* which learns later that the sockets are closed.
Reload ==
    /\ Fault
    /\ sock' = [c \in Conns |-> "none"]
    /\ ws' = None
    /\ fetching' = 1
    /\ timers' = 0
    /\ remembered' = FALSE
    /\ reconnectLeft' = Tries
    /\ view' = IF saved THEN "restore" ELSE "login"
    /\ down' = [c \in Conns |-> <<>>]
    /\ UNCHANGED <<vars, saved, up, refused, patient>>

-----------------------------------------------------------------------------
(* The player *)

\* The ways to the server that are under way.
Ways == fetching + timers + Cardinality(Live)

\* Nothing is under way: what the player sees is the answer to what was asked.
Settled ==
    /\ fetching = 0 /\ timers = 0
    /\ \A c \in Live : sock[c] = "open" /\ link[c] = "open"
    /\ \A c \in Conns : up[c] = <<>> /\ down[c] = <<>>

MayClick(c) == Len(up[c]) + Len(down[c]) < MaxInFlight[patient]

\* Name and password are sent and not kept.
DoLogin_Unsaved ==
    /\ view = "login"
    /\ WsOpen /\ MayClick(ws) /\ (LoginTwice \/ Settled)
    /\ Send("login")
    /\ UNCHANGED <<vars, browserVars, down, refused>>

\* doLogin with an open socket.
LoginOverWs ==
    /\ WsOpen /\ MayClick(ws) /\ (LoginTwice \/ Settled)
    /\ UNCHANGED <<fetching, faults>>

\* doLogin without one.  It connects, whatever is under way.
LoginConnects ==
    /\ ~WsOpen
    /\ fetching' = fetching + 1
    /\ \/ Ways = 0 /\ UNCHANGED faults
       \/ Ways > 0 /\ ~patient /\ Fault

DoLogin ==
    /\ view = "login"
    /\ LoginOverWs \/ LoginConnects
    /\ saved' = TRUE
    /\ Send("login")
    /\ UNCHANGED <<vars, sock, ws, timers, remembered, reconnectLeft, view, down, refused,
                   patient>>

Click(v, m) ==
    /\ view = v
    /\ WsOpen /\ MayClick(ws)
    /\ Send(m)
    /\ UNCHANGED <<vars, browserVars, down, refused>>

Player ==
    \/ DoLogin
    \/ Click("hall", "create") \/ Click("hall", "logout")
    \/ Click("game", "leave") \/ Click("game", "logout")

-----------------------------------------------------------------------------
(* Messages *)

\* The restoring view gives way to the login form on any error.
LoginRefused_Toast == view
LoginRefused == IF view = "restore" THEN "login" ELSE view

\* onmessage: what the browser does with one from the server.
OnMessage(c) ==
    /\ sock[c] = "open" /\ link[c] = "open" /\ down[c] # <<>>
    /\ down' = [down EXCEPT ![c] = Tail(@)]
    /\ view' = CASE Head(down[c]) = "hall" -> "hall"
                 [] Head(down[c]) = "state" -> "game"
                 [] Head(down[c]) = "leave_ok" -> "login"
                 [] Head(down[c]) = "error" -> LoginRefused
    /\ saved' = IF Head(down[c]) = "leave_ok" THEN FALSE ELSE saved
    /\ UNCHANGED <<vars, sock, pageVars, up, refused, patient, faults>>

\* The server takes the next message of a connection, and answers it.
Take(c, m, answer) ==
    /\ link[c] = "open" /\ up[c] # <<>> /\ Head(up[c]) = m
    /\ up' = [up EXCEPT ![c] = Tail(@)]
    /\ down' = IF sock[c] = "open" THEN [down EXCEPT ![c] = Append(@, answer)] ELSE down
    /\ UNCHANGED browserVars

LoginGranted(c) ==
    /\ \/ Take(c, "login", "hall") /\ LoginHall(c, Me)
       \/ Take(c, "login", "state") /\ LoginReconnect(c, Me)
    /\ refused' = refused \ {c}

LoginDenied(c) ==
    /\ Take(c, "login", "error")
    /\ LoginSeatOnline(c, Me) \/ (OnlineElsewhere(c, Me) /\ UNCHANGED vars)
    /\ refused' = refused \cup {c}

MayCreate(c, r) == Acts(c) /\ session_room[c] = None /\ r \notin rooms
MayLeave(c) == Acts(c) /\ PlacesAt(c) # {}

ServerAct(c) ==
    \/ \E r \in RoomIds : Take(c, "create", "state") /\ CreateRoom(c, r)
    \/ /\ Take(c, "create", "error") /\ \A r \in RoomIds : ~MayCreate(c, r)
       /\ UNCHANGED vars
    \/ Take(c, "leave", "hall") /\ LeaveRoom(c)
    \/ Take(c, "leave", "error") /\ ~MayLeave(c) /\ UNCHANGED vars
    \/ Take(c, "logout", "leave_ok") /\ Logout(c)
    \/ Take(c, "logout", "error") /\ ~Acts(c) /\ UNCHANGED vars

Serve(c) == LoginGranted(c) \/ LoginDenied(c) \/ (ServerAct(c) /\ UNCHANGED refused)

Silent(c) == LoggedIn(c) /\ (c \in Dead \/ link[c] = "lost" \/ c # ws)

\* heartbeat.  It may also find the session of a browser that does answer: the
\* thread that reads the pongs waits for the database meanwhile.
ServerHeartbeat ==
    /\ \E c \in Conns :
         /\ link[c] # "closing" /\ Heartbeat({c})
         /\ IF Silent(c) THEN UNCHANGED faults ELSE Fault
    /\ UNCHANGED <<sock, pageVars, viewVars, patient, netVars>>

ServerNotices(c) ==
    /\ c \in Dead \/ link[c] \in {"lost", "closing"}
    /\ OnClose(c)
    /\ up' = [up EXCEPT ![c] = <<>>]
    /\ UNCHANGED <<browserVars, down, refused>>

ServerGivesUp ==
    /\ \E p \in Place : GiveUp(p)
    /\ UNCHANGED <<browserVars, netVars>>

-----------------------------------------------------------------------------
Progress(c) ==
    \/ NewSocket(c) \/ OnOpen(c) \/ SocketClosed(c) \/ OnMessage(c)
    \/ Serve(c) \/ ServerNotices(c)

ClientNext ==
    \/ \E c \in Conns : Progress(c) \/ ConnectFails(c) \/ Cut(c)
    \/ TimerFires \/ Reload \/ Player
    \/ ServerHeartbeat \/ ServerGivesUp

ClientSpec == ClientInit /\ [][ClientNext]_clientVars

\* Sockets open or fail, messages arrive while their connection is there, dead
\* connections are noticed at both ends, the heartbeat finds silent sessions
\* and the timer fires.  Nothing is assumed of the player, nor of a heartbeat
\* that finds a session which is there.
ClientFairness ==
    /\ \A c \in Conns : WF_clientVars(Progress(c))
    /\ WF_clientVars(TimerFires)
    /\ WF_clientVars(ServerHeartbeat /\ UNCHANGED faults)

FairClientSpec == ClientSpec /\ ClientFairness

-----------------------------------------------------------------------------
(* Properties *)

\* However impatient the player is, the page is never left with a latest socket
\* that is gone, tries to spare, and nothing under way: what the other sockets,
\* fetches and timers do (a socket that opens stops a timer, one that closes
\* starts one) never uses up the last way back.
RetryUnderWay ==
    \/ WsOpen \/ OutOfTries
    \/ fetching > 0 \/ timers > 0
    \/ ws # None /\ sock[ws] = "connecting"

\* What the page shows when everything has been answered is what the server
\* holds: the hall for a session in the hall, a room for the player's seat,
\* the login form for nobody.  After a refused login the page keeps the view
\* it had, which is another question (ReturnLeadsToSeat).  A player who is not
\* patient may be logged in over one socket and look at another.
ViewMatchesServer ==
    patient /\ Settled /\ WsOpen /\ ws \notin refused =>
        CASE view = "hall" -> session_account[ws] = Me /\ session_room[ws] = None
          [] view = "game" -> session_account[ws] = Me /\ PlacesAt(ws) # {}
          [] view = "login" -> ~LoggedIn(ws)
          [] OTHER -> TRUE

\* The page never waits behind the restoring view for good.
RestoreEnds == view = "restore" ~> view # "restore"

BackOnline == WsOpen /\ session_account[ws] = Me

\* A lost connection leads back to a session, to a refusal, to the login form
\* or to the last try: the page is not left with a dead socket and tries to
\* spare, nor with an open one over which it never logged in.  Two sockets may
\* replace each other without end.
LossResolves ==
    (patient /\ timers > 0) ~> (BackOnline \/ ws \in refused \/ view = "login" \/ OutOfTries)

\* The README: who drops for a while has the seat held and comes back to it.
\* So a page that shows the room after coming back has its seat.
ReturnLeadsToSeat ==
    Settled /\ WsOpen /\ view = "game" => session_account[ws] = Me

=============================================================================
