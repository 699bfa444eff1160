---------------------------- MODULE ClientProofs ----------------------------
(***************************************************************************)
(* One browser tab and the lobby, for any connections, rooms and faults:   *)
(* the server beside the page does what Lobby allows and, however many     *)
(* ways to the server an impatient player opens, the page is never left    *)
(* without a way back while it has tries.  For a player who waits for the  *)
(* page, what it shows when all is answered is what the server holds; this *)
(* needs to know what the messages under way will do, in their order, to   *)
(* the view and to the session.                                            *)
(***************************************************************************)
EXTENDS Client, LobbyProofs, FiniteSetTheorems, SequenceTheorems

USE MeAssumption

Request == {"login", "create", "leave", "logout"}
Reply == {"hall", "state", "leave_ok", "error"}

PageTypes ==
    /\ sock \in [Conns -> {"none", "connecting", "open"}]
    /\ ws \in Conns \cup {None}
    /\ fetching \in Nat /\ timers \in Nat
    /\ remembered \in BOOLEAN /\ saved \in BOOLEAN
    /\ reconnectLeft \in 0..Tries
    /\ view \in {"login", "restore", "hall", "game"}

QueueTypes ==
    /\ up \in [Conns -> Seq(Request)]
    /\ down \in [Conns -> Seq(Reply)]
    /\ refused \subseteq Conns

TypesInv == PageTypes /\ QueueTypes

\* A player who waits: the only socket that lives is the latest, and then
\* nothing else is under way; reconnectTimer is a pending call.
WaysInv ==
    /\ Live \subseteq {ws}
    /\ Live = {} => fetching + timers <= 1
    /\ Live # {} => fetching = 0 /\ timers = 0
    /\ remembered => timers > 0

\* A connection starts without messages.
SocketsInv ==
    \A c \in Conns :
        /\ link[c] = "closed" => up[c] = <<>>
        /\ sock[c] # "open" => down[c] = <<>>

\* Nobody plays but the owner of this browser; who is refused has no session.
OnlyMe ==
    /\ \A c \in Conns :
         /\ session_account[c] \in {None, Me}
         /\ ~LoggedIn(c) => session_room[c] = None
         /\ c \in refused => ~LoggedIn(c)
    /\ \A p \in Place : seat_account[p] \in {None, Me}

\* A login that is not sent twice is the first message, and finds no session.
LoginFirst ==
    ~LoginTwice =>
        \A c \in Conns : \A i \in 1..Len(up[c]) :
            up[c][i] = "login" => i = 1 /\ ~LoggedIn(c)

-----------------------------------------------------------------------------
(* The messages of the latest socket *)

Occurs(m, q) == \E i \in 1..Len(q) : q[i] = m
AllErrors(q) == \A i \in 1..Len(q) : q[i] = "error"

\* Nothing but errors comes after the message at i.
LastWord(q, i) == q[i] # "error" /\ \A j \in (i + 1)..Len(q) : q[j] = "error"

Linked == WsOpen /\ link[ws] = "open"

\* The views and replies that tell the truth.
InRoom == session_account[ws] = Me /\ PlacesAt(ws) # {}
InLobby == session_account[ws] = Me /\ session_room[ws] = None

TrueView(v) ==
    /\ v = "hall" => InLobby
    /\ v = "game" => InRoom
    /\ v = "login" => ~LoggedIn(ws)

TrueReply(m) ==
    /\ m = "hall" => InLobby
    /\ m = "state" => InRoom
    /\ m = "leave_ok" => ~LoggedIn(ws)

\* Without a saved name and password nobody is logged in, nor will be.
SavedInv ==
    /\ view # "login" => saved
    /\ Linked /\ ~saved =>
         ~LoggedIn(ws) /\ ~Occurs("login", up[ws]) /\ AllErrors(down[ws])

\* Behind the restoring view there is one login, or the one answer to it.
RestoreInv ==
    Linked /\ view = "restore" =>
        \/ up[ws] = <<"login">> /\ down[ws] = <<>>
        \/ /\ up[ws] = <<>>
           /\ \E m \in Reply \ {"leave_ok"} :
                down[ws] = <<m>> /\ (m = "error" => ws \in refused)

\* A logout that will be refused: no session, and no login before it.
Idle(i) == ~LoggedIn(ws) /\ \A j \in 1..(i - 1) : up[ws][j] # "login"

\* No login comes behind a logout that will be granted.
LogoutInv ==
    Linked => \A i \in 1..Len(up[ws]) :
        up[ws][i] = "logout" =>
            Idle(i) \/ (view # "login" /\ \A k \in i..Len(up[ws]) : up[ws][k] # "login")

\* Once a logout is granted nothing else is, until the page knows.
LeftInv ==
    Linked => \A i \in 1..Len(down[ws]) :
        down[ws][i] = "leave_ok" =>
            /\ LastWord(down[ws], i) /\ view # "login"
            /\ ~LoggedIn(ws) /\ ~Occurs("login", up[ws])

\* Unless a login is under way or was refused, the last word of the server is
\* true, or the view when there is none.
ViewInv ==
    Linked /\ ws \notin refused /\ ~Occurs("login", up[ws]) =>
        /\ AllErrors(down[ws]) => TrueView(view)
        /\ \A i \in 1..Len(down[ws]) : LastWord(down[ws], i) => TrueReply(down[ws][i])

PageInv == SavedInv /\ RestoreInv /\ LogoutInv /\ LeftInv /\ ViewInv

ClientInv ==
    IInv /\ TypesInv /\ WaysInv /\ SocketsInv /\ OnlyMe /\ LoginFirst /\ PageInv

-----------------------------------------------------------------------------
(* Queues *)

LEMMA Appended ==
    ASSUME NEW S, NEW q \in Seq(S), NEW m \in S
    PROVE  /\ Append(q, m) \in Seq(S) /\ Len(Append(q, m)) = Len(q) + 1
           /\ Len(q) \in Nat
           /\ \A i \in 1..Len(q) : Append(q, m)[i] = q[i]
           /\ Append(q, m)[Len(q) + 1] = m
OBVIOUS

LEMMA Shortened ==
    ASSUME NEW S, NEW q \in Seq(S), q # <<>>
    PROVE  /\ Tail(q) \in Seq(S) /\ Len(Tail(q)) = Len(q) - 1
           /\ Len(q) \in Nat \ {0} /\ Head(q) = q[1] /\ q[1] \in S
           /\ \A i \in 1..Len(Tail(q)) : Tail(q)[i] = q[i + 1]
<1>1. Head(q) = q[1] OBVIOUS
<1>2. Len(q) \in Nat \ {0} BY EmptySeq
<1>3. q[1] \in S BY <1>2, ElementOfSeq
<1>4. QED BY <1>1, <1>2, <1>3, HeadTailProperties

LEMMA OccursAppend ==
    ASSUME NEW S, NEW q \in Seq(S), NEW n \in S, NEW m
    PROVE  Occurs(m, Append(q, n)) <=> Occurs(m, q) \/ m = n
<1>1. 1..(Len(q) + 1) = 1..Len(q) \cup {Len(q) + 1} BY Appended
<1>2. QED BY <1>1, Appended DEF Occurs

LEMMA OccursTail ==
    ASSUME NEW S, NEW q \in Seq(S), q # <<>>, NEW m
    PROVE  Occurs(m, q) <=> Occurs(m, Tail(q)) \/ m = Head(q)
<1>1. Occurs(m, Tail(q)) => Occurs(m, q)
    <2> SUFFICES ASSUME NEW i \in 1..Len(Tail(q)), Tail(q)[i] = m PROVE Occurs(m, q)
        BY DEF Occurs
    <2>1. i + 1 \in 1..Len(q) /\ q[i + 1] = m BY Shortened
    <2>2. QED BY <2>1 DEF Occurs
<1>2. m = Head(q) => Occurs(m, q) BY 1 \in 1..Len(q), Shortened DEF Occurs
<1>3. Occurs(m, q) => Occurs(m, Tail(q)) \/ m = Head(q)
    <2> SUFFICES ASSUME NEW i \in 1..Len(q), q[i] = m, i # 1 PROVE Occurs(m, Tail(q))
        BY Shortened DEF Occurs
    <2>1. i - 1 \in 1..Len(Tail(q)) /\ Tail(q)[i - 1] = m BY Shortened
    <2>2. QED BY <2>1 DEF Occurs
<1>4. QED BY <1>1, <1>2, <1>3

LEMMA ErrorsAppend ==
    ASSUME NEW S, NEW q \in Seq(S), NEW m \in S
    PROVE  /\ AllErrors(Append(q, m)) <=> AllErrors(q) /\ m = "error"
           /\ \A i \in 1..Len(q) : LastWord(Append(q, m), i) <=> LastWord(q, i) /\ m = "error"
           /\ LastWord(Append(q, m), Len(q) + 1) <=> m # "error"
<1>1. Len(q) \in Nat /\ Len(Append(q, m)) = Len(q) + 1 BY Appended
<1>2. AllErrors(Append(q, m)) <=> AllErrors(q) /\ m = "error"
    <2>1. 1..(Len(q) + 1) = 1..Len(q) \cup {Len(q) + 1} BY <1>1
    <2>2. QED BY <1>1, <2>1, Appended DEF AllErrors
<1>3. ASSUME NEW i \in 1..Len(q)
      PROVE  LastWord(Append(q, m), i) <=> LastWord(q, i) /\ m = "error"
    <2>1. (i + 1)..(Len(q) + 1) = (i + 1)..Len(q) \cup {Len(q) + 1} BY <1>1
    <2>2. \A j \in (i + 1)..Len(q) : j \in 1..Len(q) BY <1>1
    <2>3. QED BY <1>1, <2>1, <2>2, Appended DEF LastWord
<1>4. LastWord(Append(q, m), Len(q) + 1) <=> m # "error"
    <2>1. (Len(q) + 1 + 1)..(Len(q) + 1) = {} BY <1>1
    <2>2. QED BY <1>1, <2>1, Appended DEF LastWord
<1>5. QED BY <1>2, <1>3, <1>4

LEMMA ErrorsTail ==
    ASSUME NEW S, NEW q \in Seq(S), q # <<>>
    PROVE  /\ AllErrors(Tail(q)) => IF Head(q) = "error" THEN AllErrors(q) ELSE LastWord(q, 1)
           /\ LastWord(q, 1) => AllErrors(Tail(q))
           /\ \A i \in 1..Len(Tail(q)) : LastWord(Tail(q), i) <=> LastWord(q, i + 1)
<1>1. Len(q) \in Nat \ {0} /\ Len(Tail(q)) = Len(q) - 1 BY Shortened
<1>2. \A j \in 2..Len(q) : j - 1 \in 1..Len(Tail(q)) /\ q[j] = Tail(q)[j - 1]
    BY <1>1, Shortened
<1>3. \A j \in 1..Len(Tail(q)) : j + 1 \in 2..Len(q) /\ q[j + 1] = Tail(q)[j]
    BY <1>1, Shortened
<1>4. AllErrors(Tail(q)) <=> \A j \in 2..Len(q) : q[j] = "error"
    BY <1>2, <1>3 DEF AllErrors
<1>5. 1..Len(q) = {1} \cup 2..Len(q) BY <1>1
<1>6. ASSUME NEW i \in 1..Len(Tail(q))
      PROVE  LastWord(Tail(q), i) <=> LastWord(q, i + 1)
    <2>1. \A j \in (i + 1)..Len(Tail(q)) : j + 1 \in (i + 1 + 1)..Len(q) /\ q[j + 1] = Tail(q)[j]
        BY <1>1, <1>3
    <2>2. \A j \in (i + 1 + 1)..Len(q) : j - 1 \in (i + 1)..Len(Tail(q)) /\ q[j] = Tail(q)[j - 1]
        BY <1>1, <1>2
    <2>3. q[i + 1] = Tail(q)[i] BY <1>3
    <2>4. QED BY <2>1, <2>2, <2>3 DEF LastWord
<1>7. LastWord(q, 1) <=> q[1] # "error" /\ \A j \in 2..Len(q) : q[j] = "error"
    BY DEF LastWord
<1>8. Head(q) = q[1] BY Shortened
<1>9. QED BY <1>4, <1>5, <1>6, <1>7, <1>8 DEF AllErrors

-----------------------------------------------------------------------------
(* The server beside the page *)

LEMMA InitTyped == ClientInit => IInv /\ TypesInv /\ OnlyMe
<1> SUFFICES ASSUME ClientInit PROVE IInv /\ TypesInv /\ OnlyMe
    OBVIOUS
<1> USE DEF ClientInit
<1>1. IInv BY InitIInv
<1>2. QueueTypes BY EmptySeq DEF QueueTypes
<1>3. fetching \in Nat /\ timers \in Nat /\ reconnectLeft \in 0..Tries BY DEF Tries
<1>4. PageTypes BY <1>3 DEF PageTypes
<1>5. OnlyMe BY DEF OnlyMe, Init, LoggedIn
<1>6. QED BY <1>1, <1>2, <1>4, <1>5 DEF TypesInv

LEMMA InitClientInv == patient /\ ClientInit => ClientInv
<1> SUFFICES ASSUME patient, ClientInit PROVE ClientInv
    OBVIOUS
<1>1. IInv /\ TypesInv /\ OnlyMe BY InitTyped
<1> USE DEF ClientInit
<1>3. Live = {} BY DEF Live
<1>4. WaysInv BY <1>3 DEF WaysInv
<1>5. SocketsInv BY DEF SocketsInv
<1>7. LoginFirst
    <2>1. \A c \in Conns : Len(up[c]) = 0 BY EmptySeq
    <2>2. QED BY <2>1 DEF LoginFirst
<1>8. PageInv
    <2>1. ~Linked BY DEF Linked, WsOpen
    <2>2. QED BY <2>1 DEF PageInv, SavedInv, RestoreInv, LogoutInv, LeftInv, ViewInv
<1>9. QED BY <1>1, <1>4, <1>5, <1>7, <1>8 DEF ClientInv

\* What the page sends and the server takes.
LEMMA HeadOccurs ==
    ASSUME TypesInv, NEW c \in Conns, up[c] # <<>>
    PROVE  /\ up[c] \in Seq(Request) /\ Head(up[c]) = up[c][1]
           /\ 1 \in 1..Len(up[c]) /\ Occurs(Head(up[c]), up[c])
<1>1. up[c] \in Seq(Request) BY DEF TypesInv, QueueTypes
<1>2. QED BY <1>1, Shortened DEF Occurs

\* A login that the server takes is one that Lobby expects, or changes nothing:
\* its account is at the table over another connection or over this one.
LEMMA LoginAllowed ==
    ASSUME IInv, TypesInv, OnlyMe, LoginFirst, NEW c \in Conns,
           link[c] = "open", up[c] # <<>>, Head(up[c]) = "login", Login(c, Me)
    PROVE  LoginSent(c, Me) \/ UNCHANGED vars
<1>1. CASE LoggedIn(c)
    <2>1. session_account[c] = Me BY <1>1 DEF OnlyMe, LoggedIn
    <2>2. LoginTwice BY <1>1, HeadOccurs, LoginTwiceAssumption DEF LoginFirst
    <2>3. QED BY <1>1, <2>1, <2>2 DEF LoginSent
<1>2. CASE ~LoggedIn(c)
    <2>1. PlacesAt(c) \subseteq PlacesOf(Me) BY DEF PlacesAt, PlacesOf, OnlyMe
    <2>2. CASE LoginHall(c, Me)
        BY <1>2, <2>1, <2>2 DEF LoginHall, LoginSent
    <2>3. CASE LoginReconnect(c, Me)
        <3>1. PICK p \in PlacesOf(Me) : seat_conn[p] = None
            BY <2>3 DEF LoginReconnect
        <3>2. \A q \in PlacesOf(Me) : q = p
            BY <3>1, NoneAssumption DEF PlacesOf, IInv, OnePlayerPerAccount
        <3>3. PlacesAt(c) = {} BY <2>1, <3>1, <3>2, NoneAssumption DEF PlacesAt
        <3>4. QED BY <1>2, <3>3 DEF LoginSent
    <2>4. CASE LoginSeatOnline(c, Me)
        <3>1. session_account[c] = None /\ session_room[c] = None
            BY <1>2 DEF OnlyMe, LoggedIn
        <3>2. UNCHANGED sessionVars
            BY <2>4, <3>1
               DEF LoginSeatOnline, EraseSession, PutSession, sessionVars, IInv, TypeOK
        <3>3. QED BY <2>4, <3>2 DEF LoginSeatOnline, vars
    <2>5. QED BY <2>2, <2>3, <2>4 DEF Login
<1>3. QED BY <1>1, <1>2

LEMMA LobbyServes ==
    ASSUME IInv, TypesInv, OnlyMe, LoginFirst, NEW c \in Conns, Serve(c)
    PROVE  Next \/ UNCHANGED vars
<1>1. CASE LoginGranted(c) \/ LoginDenied(c)
    <2>1. \/ Login(c, Me) /\ link[c] = "open" /\ up[c] # <<>> /\ Head(up[c]) = "login"
          \/ UNCHANGED vars
        BY <1>1 DEF LoginGranted, LoginDenied, Take, Login
    <2>2. CASE LoginSent(c, Me) /\ Login(c, Me)
        BY <2>2 DEF Next, ConnStep
    <2>3. QED BY <2>1, <2>2, LoginAllowed
<1>2. CASE ServerAct(c)
    BY <1>2 DEF ServerAct, Next, ConnStep
<1>3. QED BY <1>1, <1>2 DEF Serve

LEMMA LobbyStep ==
    IInv /\ TypesInv /\ OnlyMe /\ LoginFirst /\ [ClientNext]_clientVars => [Next]_vars
<1> SUFFICES ASSUME IInv, TypesInv, OnlyMe, LoginFirst, [ClientNext]_clientVars
             PROVE  Next \/ UNCHANGED vars
    OBVIOUS
<1>1. ASSUME NEW c \in Conns, Progress(c) PROVE Next \/ UNCHANGED vars
    <2>1. CASE NewSocket(c) \/ SocketClosed(c) \/ OnMessage(c)
        BY <2>1 DEF NewSocket, SocketClosed, OnMessage
    <2>2. CASE OnOpen(c) BY <2>2 DEF OnOpen, Next, ConnStep
    <2>3. CASE Serve(c) BY <2>3, LobbyServes
    <2>4. CASE ServerNotices(c) BY <2>4 DEF ServerNotices, Next, ConnStep
    <2>5. QED BY <1>1, <2>1, <2>2, <2>3, <2>4 DEF Progress
<1>2. ASSUME NEW c \in Conns, ConnectFails(c) \/ Cut(c) PROVE Next \/ UNCHANGED vars
    BY <1>2 DEF ConnectFails, Cut, Next, ConnStep
<1>3. CASE TimerFires \/ Reload \/ Player
    BY <1>3 DEF TimerFires, Reload, Player, DoLogin, Click
<1>4. CASE ServerHeartbeat
    <2>1. PICK c \in Conns : Heartbeat({c}) BY <1>4 DEF ServerHeartbeat
    <2>2. {c} \in SUBSET Conns OBVIOUS
    <2>3. QED BY <2>1, <2>2 DEF Next
<1>5. CASE ServerGivesUp BY <1>5 DEF ServerGivesUp, Next
<1>6. CASE UNCHANGED clientVars BY <1>6 DEF clientVars
<1>7. QED BY <1>1, <1>2, <1>3, <1>4, <1>5, <1>6 DEF ClientNext

-----------------------------------------------------------------------------
(* Types *)

LEMMA SendTyped ==
    ASSUME QueueTypes, PageTypes, NEW m \in Request, Send(m)
    PROVE  up' \in [Conns -> Seq(Request)]
<1>1. CASE WsOpen /\ link[ws] = "open"
    <2>1. ws \in Conns BY <1>1 DEF WsOpen, PageTypes
    <2>2. Append(up[ws], m) \in Seq(Request) BY <2>1, Appended DEF QueueTypes
    <2>3. up' = [up EXCEPT ![ws] = Append(up[ws], m)] BY <1>1 DEF Send
    <2>4. QED BY <2>2, <2>3 DEF QueueTypes
<1>2. CASE ~(WsOpen /\ link[ws] = "open") BY <1>2 DEF Send, QueueTypes
<1>3. QED BY <1>1, <1>2

LEMMA TakeTyped ==
    ASSUME QueueTypes, NEW c \in Conns, NEW m, NEW a \in Reply, Take(c, m, a)
    PROVE  up' \in [Conns -> Seq(Request)] /\ down' \in [Conns -> Seq(Reply)]
<1>1. Tail(up[c]) \in Seq(Request) BY Shortened DEF Take, QueueTypes
<1>2. Append(down[c], a) \in Seq(Reply) BY Appended DEF QueueTypes
<1>3. up' = [up EXCEPT ![c] = Tail(up[c])] BY DEF Take
<1>4. down' = [down EXCEPT ![c] = Append(down[c], a)] \/ down' = down BY DEF Take
<1>5. QED BY <1>1, <1>2, <1>3, <1>4 DEF QueueTypes

\* What a request can be answered.
LEMMA Answers ==
    ASSUME NEW c \in Conns, Serve(c)
    PROVE  \E m \in Request, a \in Reply : Take(c, m, a)
BY DEF Serve, LoginGranted, LoginDenied, ServerAct, Request, Reply

LEMMA QueueStep == TypesInv /\ [ClientNext]_clientVars => QueueTypes'
<1> SUFFICES ASSUME QueueTypes, PageTypes, [ClientNext]_clientVars PROVE QueueTypes'
    BY DEF TypesInv
<1> <<>> \in Seq(Request) /\ <<>> \in Seq(Reply)
    BY EmptySeq
<1>1. ASSUME NEW c \in Conns, Progress(c) PROVE QueueTypes'
    <2>1. CASE NewSocket(c) BY <2>1 DEF NewSocket, netVars, QueueTypes
    <2>2. CASE OnOpen(c)
        <3>1. ws \in Conns => Append(up[ws], "login") \in Seq(Request)
            BY Appended DEF QueueTypes, Request
        <3>2. up' = [up EXCEPT ![ws] = Append(up[ws], "login")] \/ up' = up
            BY <2>2 DEF OnOpen
        <3>3. CASE ws \notin Conns
            BY <2>2, <3>2, <3>3 DEF OnOpen, QueueTypes
        <3>4. CASE ws \in Conns
            BY <2>2, <3>1, <3>2, <3>4 DEF OnOpen, QueueTypes
        <3>5. QED BY <3>3, <3>4
    <2>3. CASE SocketClosed(c) BY <2>3 DEF SocketClosed, QueueTypes
    <2>4. CASE OnMessage(c)
        <3>1. Tail(down[c]) \in Seq(Reply) BY <2>4, Shortened DEF OnMessage, QueueTypes
        <3>2. down' = [down EXCEPT ![c] = Tail(down[c])] BY <2>4 DEF OnMessage
        <3>3. up' = up /\ refused' = refused BY <2>4 DEF OnMessage
        <3>4. QED BY <3>1, <3>2, <3>3 DEF QueueTypes
    <2>5. CASE Serve(c)
        <3>1. refused' \subseteq Conns
            BY <2>5 DEF Serve, LoginGranted, LoginDenied, QueueTypes
        <3>2. PICK m \in Request, a \in Reply : Take(c, m, a) BY <2>5, Answers
        <3>3. QED BY <3>1, <3>2, TakeTyped DEF QueueTypes
    <2>6. CASE ServerNotices(c) BY <2>6 DEF ServerNotices, QueueTypes
    <2>7. QED BY <1>1, <2>1, <2>2, <2>3, <2>4, <2>5, <2>6 DEF Progress
<1>2. ASSUME NEW c \in Conns, ConnectFails(c) \/ Cut(c) PROVE QueueTypes'
    BY <1>2 DEF ConnectFails, Cut, netVars, QueueTypes
<1>3. CASE TimerFires \/ Reload
    BY <1>3 DEF TimerFires, Reload, netVars, QueueTypes
<1>4. CASE Player
    <2>1. PICK m \in Request : Send(m) BY <1>4 DEF Player, DoLogin, Click, Request
    <2>2. UNCHANGED <<down, refused>> BY <1>4 DEF Player, DoLogin, Click
    <2>3. QED BY <2>1, <2>2, SendTyped DEF QueueTypes
<1>5. CASE ServerHeartbeat \/ ServerGivesUp \/ UNCHANGED clientVars
    BY <1>5 DEF ServerHeartbeat, ServerGivesUp, clientVars, netVars, QueueTypes
<1>6. QED BY <1>1, <1>2, <1>3, <1>4, <1>5 DEF ClientNext

LEMMA ClosedTyped ==
    PageTypes /\ OnSocketClosed =>
        /\ timers' \in Nat /\ reconnectLeft' \in 0..Tries
        /\ timers' = timers \/ timers' = timers + 1
        /\ remembered' => remembered \/ timers' = timers + 1
        /\ remembered' \in BOOLEAN
        /\ view' \in {view, "login"} /\ view' \in {"login", "restore", "hall", "game"}
<1> SUFFICES ASSUME PageTypes, OnSocketClosed
             PROVE  /\ timers' \in Nat /\ reconnectLeft' \in 0..Tries
                    /\ timers' = timers \/ timers' = timers + 1
                    /\ remembered' => remembered \/ timers' = timers + 1
                    /\ remembered' \in BOOLEAN
                    /\ view' \in {view, "login"}
                    /\ view' \in {"login", "restore", "hall", "game"}
    OBVIOUS
<1> USE DEF PageTypes
<1>1. CASE OutOfTries
    BY <1>1 DEF OnSocketClosed
<1>2. CASE ~OutOfTries
    <2>1. reconnectLeft \in 1..Tries BY <1>2 DEF OutOfTries, Tries
    <2>2. reconnectLeft' = reconnectLeft - 1 /\ timers' = timers + 1 /\ view' = view
        BY <1>2 DEF OnSocketClosed
    <2>3. remembered' = TRUE BY <1>2 DEF OnSocketClosed
    <2>4. reconnectLeft' \in 0..Tries BY <2>1, <2>2 DEF Tries
    <2>5. timers' \in Nat BY <2>2
    <2>6. QED BY <2>2, <2>3, <2>4, <2>5
<1>3. QED BY <1>1, <1>2

-----------------------------------------------------------------------------
(* Any number of ways to the server *)

\* A timer that is remembered is pending; while a socket connects the latest
\* does too; and a latest socket that is gone is retried.
RetryInv ==
    /\ remembered => timers > 0
    /\ \A c \in Conns : sock[c] = "connecting" => ws \in Conns /\ sock[ws] = "connecting"
    /\ RetryUnderWay

LEMMA RetryFrame ==
    PageTypes /\ RetryInv /\ UNCHANGED <<sock, pageVars>>
        /\ view' \in {"login", "restore", "hall", "game"} /\ saved' \in BOOLEAN
        => PageTypes' /\ RetryInv'
BY DEF PageTypes, RetryInv, RetryUnderWay, WsOpen, OutOfTries, pageVars

\* A socket that is gone, the latest only when no other connects, leaves a
\* timer, or no tries.
LEMMA GoneRetries ==
    ASSUME PageTypes, RetryInv, NEW c \in Conns,
           sock' = [sock EXCEPT ![c] = "none"], OnSocketClosed, UNCHANGED <<ws, fetching, saved>>,
           c = ws => \A d \in Conns \ {c} : sock[d] # "connecting"
    PROVE  PageTypes' /\ RetryInv'
<1>1. sock' \in [Conns -> {"none", "connecting", "open"}] BY DEF PageTypes
<1>2. PageTypes' BY <1>1, ClosedTyped DEF PageTypes
<1>3. \A d \in Conns : sock'[d] = IF d = c THEN "none" ELSE sock[d] BY DEF PageTypes
<1>4. \A d \in Conns : sock'[d] = "connecting" => ws' \in Conns /\ sock'[ws'] = "connecting"
    BY <1>3 DEF RetryInv
<1>5. RetryUnderWay'
    <2>1. CASE OutOfTries
        BY <2>1 DEF OnSocketClosed, OutOfTries, RetryUnderWay
    <2>2. CASE ~OutOfTries
        <3>1. timers' = timers + 1 BY <2>2 DEF OnSocketClosed
        <3>2. timers' > 0 BY <3>1 DEF PageTypes
        <3>3. QED BY <3>2 DEF RetryUnderWay
    <2>3. QED BY <2>1, <2>2
<1>6. remembered' => timers' > 0
    <2>1. timers \in Nat /\ (remembered => timers > 0) BY DEF PageTypes, RetryInv
    <2>2. /\ timers' = timers \/ timers' = timers + 1
          /\ remembered' => remembered \/ timers' = timers + 1
        BY ClosedTyped
    <2>3. QED BY <2>1, <2>2
<1>7. QED BY <1>2, <1>4, <1>5, <1>6 DEF RetryInv

LEMMA ProgressRetries ==
    ASSUME PageTypes, QueueTypes, RetryInv, NEW c \in Conns, Progress(c)
    PROVE  PageTypes' /\ RetryInv'
<1>1. CASE NewSocket(c)
    <2>1. /\ fetching > 0 /\ fetching' = fetching - 1 /\ ws' = c
          /\ sock' = [sock EXCEPT ![c] = "connecting"]
          /\ UNCHANGED <<timers, remembered, reconnectLeft, viewVars>>
        BY <1>1 DEF NewSocket
    <2>2. fetching' \in Nat BY <2>1 DEF PageTypes
    <2>3. sock' \in [Conns -> {"none", "connecting", "open"}] /\ sock'[c] = "connecting"
        BY <2>1 DEF PageTypes
    <2>4. PageTypes' BY <2>1, <2>2, <2>3 DEF PageTypes, viewVars
    <2>5. RetryUnderWay' BY <2>1, <2>3, NoneAssumption DEF RetryUnderWay
    <2>6. QED BY <2>1, <2>3, <2>4, <2>5 DEF RetryInv
<1>2. CASE OnOpen(c)
    <2>1. /\ sock[c] = "connecting" /\ Turn(c)
          /\ sock' = [sock EXCEPT ![c] = "open"]
          /\ timers' = IF remembered THEN timers - 1 ELSE timers
          /\ remembered' = FALSE /\ reconnectLeft' = Tries
          /\ UNCHANGED <<ws, fetching, viewVars>>
        BY <1>2 DEF OnOpen
    <2>2. timers' \in Nat BY <2>1 DEF PageTypes, RetryInv
    <2>3. sock' \in [Conns -> {"none", "connecting", "open"}]
          /\ \A d \in Conns : sock'[d] = IF d = c THEN "open" ELSE sock[d]
        BY <2>1 DEF PageTypes
    <2>4. reconnectLeft' \in 0..Tries BY <2>1 DEF Tries
    <2>5. PageTypes' BY <2>1, <2>2, <2>3, <2>4 DEF PageTypes, viewVars
    <2>6. ws \in Conns /\ sock[ws] = "connecting" BY <2>1 DEF RetryInv
    <2>7. RetryUnderWay' BY <2>1, <2>3, <2>6, NoneAssumption DEF RetryUnderWay, WsOpen
    <2>8. \A d \in Conns : sock'[d] = "connecting" => ws' \in Conns /\ sock'[ws'] = "connecting"
        BY <2>1, <2>3, <2>6 DEF Turn
    <2>9. QED BY <2>1, <2>5, <2>7, <2>8 DEF RetryInv
<1>3. CASE SocketClosed(c)
    <2>1. sock[c] = "open" /\ sock' = [sock EXCEPT ![c] = "none"] /\ OnSocketClosed
          /\ UNCHANGED <<ws, fetching, saved>>
        BY <1>3 DEF SocketClosed
    <2>2. c = ws => \A d \in Conns \ {c} : sock[d] # "connecting" BY <2>1 DEF RetryInv
    <2>3. QED BY <2>1, <2>2, GoneRetries
<1>4. CASE OnMessage(c)
    <2>1. Head(down[c]) \in Reply
        BY <1>4, Shortened DEF OnMessage, QueueTypes
    <2>2. view' \in {"login", "restore", "hall", "game"}
        BY <1>4, <2>1 DEF OnMessage, Reply, LoginRefused, PageTypes
    <2>3. saved' \in BOOLEAN BY <1>4 DEF OnMessage, PageTypes
    <2>4. QED BY <1>4, <2>2, <2>3, RetryFrame DEF OnMessage
<1>5. CASE Serve(c) \/ ServerNotices(c)
    <2>1. UNCHANGED browserVars
        BY <1>5 DEF Serve, LoginGranted, LoginDenied, ServerAct, Take, ServerNotices
    <2>2. QED BY <2>1, RetryFrame DEF browserVars, viewVars, PageTypes
<1>6. QED BY <1>1, <1>2, <1>3, <1>4, <1>5 DEF Progress

LEMMA RetryStep == TypesInv /\ RetryInv /\ [ClientNext]_clientVars => PageTypes' /\ RetryInv'
<1> SUFFICES ASSUME PageTypes, QueueTypes, RetryInv, [ClientNext]_clientVars
             PROVE  PageTypes' /\ RetryInv'
    BY DEF TypesInv
<1>1. ASSUME NEW c \in Conns, Progress(c) PROVE PageTypes' /\ RetryInv'
    BY <1>1, ProgressRetries
<1>2. ASSUME NEW c \in Conns, ConnectFails(c) PROVE PageTypes' /\ RetryInv'
    BY <1>2, GoneRetries DEF ConnectFails, Turn
<1>3. CASE UNCHANGED <<sock, pageVars, viewVars>>
    BY <1>3, RetryFrame DEF viewVars, PageTypes
<1>4. ASSUME NEW c \in Conns, Cut(c) PROVE UNCHANGED <<sock, pageVars, viewVars>>
    BY <1>4 DEF Cut
<1>5. CASE TimerFires
    <2>1. timers > 0 /\ timers' = timers - 1 /\ fetching' = fetching + 1
          /\ UNCHANGED <<sock, ws, reconnectLeft, view, saved>>
        BY <1>5 DEF TimerFires, viewVars
    <2>2. timers \in Nat /\ fetching \in Nat BY DEF PageTypes
    <2>3. timers' \in Nat /\ fetching' \in Nat /\ fetching' > 0 BY <2>1, <2>2
    <2>4. remembered' \in BOOLEAN /\ (timers = 1 => ~remembered') BY <1>5 DEF TimerFires
    <2>5. remembered' => timers' > 0 BY <2>1, <2>2, <2>4
    <2>6. PageTypes' BY <2>1, <2>3, <2>4 DEF PageTypes
    <2>7. RetryUnderWay' BY <2>3 DEF RetryUnderWay
    <2>8. QED BY <2>1, <2>5, <2>6, <2>7 DEF RetryInv
<1>6. CASE Reload
    <2>1. fetching' = 1 /\ timers' = 0 /\ remembered' = FALSE /\ ws' = None
          /\ sock' = [c \in Conns |-> "none"] /\ reconnectLeft' = Tries
        BY <1>6 DEF Reload
    <2>2. fetching' \in Nat /\ timers' \in Nat /\ reconnectLeft' \in 0..Tries /\ fetching' > 0
        BY <2>1 DEF Tries
    <2>3. view' \in {"login", "restore"} /\ saved' = saved BY <1>6 DEF Reload
    <2>4. PageTypes' BY <2>1, <2>2, <2>3 DEF PageTypes
    <2>5. RetryUnderWay' BY <2>2 DEF RetryUnderWay
    <2>6. QED BY <2>1, <2>4, <2>5 DEF RetryInv
<1>7. CASE DoLogin
    <2>1. UNCHANGED <<sock, ws, timers, remembered, reconnectLeft, view>> /\ saved' = TRUE
        BY <1>7 DEF DoLogin
    <2>2. CASE WsOpen
        <3>1. UNCHANGED fetching BY <1>7, <2>2 DEF DoLogin, LoginOverWs, LoginConnects
        <3>2. UNCHANGED <<sock, pageVars, view>> BY <2>1, <3>1 DEF pageVars
        <3>3. view' \in {"login", "restore", "hall", "game"} /\ saved' \in BOOLEAN
            BY <2>1, <3>2 DEF PageTypes
        <3>4. QED BY <3>2, <3>3, RetryFrame DEF pageVars
    <2>3. CASE ~WsOpen
        <3>1. fetching' = fetching + 1
            BY <1>7, <2>3 DEF DoLogin, LoginOverWs, LoginConnects
        <3>2. fetching' \in Nat /\ fetching' > 0 BY <3>1 DEF PageTypes
        <3>3. PageTypes' BY <2>1, <3>2 DEF PageTypes
        <3>4. RetryUnderWay' BY <3>2 DEF RetryUnderWay
        <3>5. QED BY <2>1, <3>3, <3>4 DEF RetryInv
    <2>4. QED BY <2>2, <2>3
<1>8. CASE Player
    <2>1. DoLogin \/ UNCHANGED browserVars BY <1>8 DEF Player, Click
    <2>2. QED BY <1>3, <1>7, <2>1 DEF browserVars
<1>9. CASE ServerHeartbeat \/ ServerGivesUp \/ UNCHANGED clientVars
    BY <1>3, <1>9 DEF ServerHeartbeat, ServerGivesUp, clientVars, browserVars
<1>10. QED BY <1>1, <1>2, <1>3, <1>4, <1>5, <1>6, <1>8, <1>9 DEF ClientNext

-----------------------------------------------------------------------------
(* One way at a time *)

LEMMA WaysCounted ==
    ASSUME PageTypes, WaysInv
    PROVE  Ways = fetching + timers + (IF Live = {} THEN 0 ELSE 1)
<1>1. Live = {} \/ Live = {ws} BY DEF WaysInv
<1>2. Cardinality({}) = 0 /\ Cardinality({ws}) = 1 BY FS_EmptySet, FS_Singleton
<1>3. QED BY <1>1, <1>2 DEF Ways

LEMMA LiveIsLatest ==
    ASSUME PageTypes, WaysInv, NEW c \in Conns, sock[c] # "none"
    PROVE  /\ c = ws /\ Live = {ws}
           /\ fetching = 0 /\ timers = 0 /\ ~remembered
<1>1. c \in Live BY DEF Live, PageTypes
<1>2. QED BY <1>1 DEF WaysInv

\* When no socket lives, and none but c does afterwards.
LEMMA NothingLive ==
    ASSUME PageTypes, WaysInv, fetching + timers > 0
    PROVE  /\ Live = {} /\ fetching + timers = 1
           /\ \A c \in Conns : sock[c] = "none"
<1>1. Live = {} BY DEF WaysInv
<1>2. fetching + timers = 1 BY <1>1 DEF WaysInv, PageTypes
<1>3. \A c \in Conns : sock[c] = "none" BY <1>1 DEF Live, PageTypes
<1>4. QED BY <1>1, <1>2, <1>3

LEMMA PageFrame ==
    PageTypes /\ WaysInv /\ UNCHANGED <<sock, ws, fetching, timers, remembered, reconnectLeft>>
        /\ view' \in {"login", "restore", "hall", "game"} /\ saved' \in BOOLEAN
        => PageTypes' /\ WaysInv'
BY DEF PageTypes, WaysInv, Live

\* A socket that is gone leaves one retry, or none.
LEMMA GoneKeeps ==
    ASSUME PageTypes, WaysInv, NEW c \in Conns, sock[c] # "none",
           sock' = [sock EXCEPT ![c] = "none"], OnSocketClosed, UNCHANGED <<ws, fetching, saved>>
    PROVE  PageTypes' /\ WaysInv'
<1>1. c = ws /\ Live = {ws} /\ fetching = 0 /\ timers = 0 /\ ~remembered BY LiveIsLatest
<1>2. \A d \in Conns : sock'[d] = "none" BY <1>1 DEF Live, PageTypes
<1>3. Live' = {} BY <1>2 DEF Live
<1>4. timers' = 0 \/ timers' = 1 BY <1>1, ClosedTyped
<1>5. WaysInv'
    <2>1. fetching' = 0 BY <1>1
    <2>2. fetching' + timers' <= 1
        <3>1. 0 + 0 <= 1 /\ 0 + 1 <= 1 OBVIOUS
        <3>2. QED BY <1>4, <2>1, <3>1, Zenon
    <2>3. remembered' => timers' > 0 BY <1>1, ClosedTyped
    <2>4. QED BY <1>3, <2>2, <2>3 DEF WaysInv
<1>6. sock' \in [Conns -> {"none", "connecting", "open"}] BY DEF PageTypes
<1>7. PageTypes' BY <1>6, ClosedTyped DEF PageTypes
<1>8. QED BY <1>5, <1>7

LEMMA ProgressWays ==
    ASSUME TypesInv, WaysInv, NEW c \in Conns, Progress(c)
    PROVE  PageTypes' /\ WaysInv'
<1> USE DEF TypesInv
<1>1. CASE NewSocket(c)
    <2>1. fetching > 0 /\ fetching' = fetching - 1 /\ timers' = timers
          /\ remembered' = remembered
        BY <1>1 DEF NewSocket
    <2>2. fetching = 1 /\ timers = 0 /\ \A d \in Conns : sock[d] = "none"
        BY <2>1, NothingLive DEF PageTypes
    <2>3. ~remembered BY <2>2 DEF WaysInv
    <2>4. Live' = {c} /\ ws' = c BY <1>1, <2>2 DEF NewSocket, Live, PageTypes
    <2>5. WaysInv' BY <2>1, <2>2, <2>3, <2>4 DEF WaysInv
    <2>6. fetching' \in Nat BY <2>1, <2>2
    <2>7. PageTypes' BY <1>1, <2>6 DEF NewSocket, viewVars, PageTypes
    <2>8. QED BY <2>5, <2>7
<1>2. CASE OnOpen(c)
    <2>1. c = ws /\ Live = {ws} /\ fetching = 0 /\ timers = 0 /\ ~remembered
        BY <1>2, LiveIsLatest DEF OnOpen
    <2>2. timers' = 0 /\ remembered' = FALSE /\ fetching' = 0 /\ ws' = ws
        BY <1>2, <2>1 DEF OnOpen
    <2>3. Live' = {ws} BY <1>2, <2>1 DEF OnOpen, Live, PageTypes
    <2>4. WaysInv' BY <2>2, <2>3 DEF WaysInv
    <2>5. reconnectLeft' \in 0..Tries BY <1>2 DEF OnOpen, Tries
    <2>6. PageTypes' BY <1>2, <2>2, <2>5 DEF OnOpen, viewVars, PageTypes
    <2>7. QED BY <2>4, <2>6
<1>3. CASE SocketClosed(c)
    BY <1>3, GoneKeeps DEF SocketClosed
<1>4. CASE OnMessage(c)
    <2>1. Head(down[c]) \in Reply
        BY <1>4, Shortened DEF OnMessage, QueueTypes
    <2>2. view' \in {"login", "restore", "hall", "game"}
        BY <1>4, <2>1 DEF OnMessage, Reply, LoginRefused, PageTypes
    <2>3. saved' \in BOOLEAN BY <1>4 DEF OnMessage, PageTypes
    <2>4. QED BY <1>4, <2>2, <2>3, PageFrame DEF OnMessage, pageVars
<1>5. CASE Serve(c) \/ ServerNotices(c)
    <2>1. UNCHANGED browserVars
        BY <1>5 DEF Serve, LoginGranted, LoginDenied, ServerAct, Take, ServerNotices
    <2>2. QED BY <2>1, PageFrame DEF browserVars, pageVars, viewVars, PageTypes
<1>6. QED BY <1>1, <1>2, <1>3, <1>4, <1>5 DEF Progress

LEMMA WaysStep ==
    TypesInv /\ WaysInv /\ patient /\ [ClientNext]_clientVars => PageTypes' /\ WaysInv'
<1> SUFFICES ASSUME TypesInv, WaysInv, patient, [ClientNext]_clientVars
             PROVE  PageTypes' /\ WaysInv'
    OBVIOUS
<1> USE DEF TypesInv
<1>1. ASSUME NEW c \in Conns, Progress(c) PROVE PageTypes' /\ WaysInv'
    BY <1>1, ProgressWays
<1>2. ASSUME NEW c \in Conns, ConnectFails(c) PROVE PageTypes' /\ WaysInv'
    BY <1>2, GoneKeeps DEF ConnectFails
<1>3. CASE UNCHANGED <<sock, pageVars, viewVars>>
    BY <1>3, PageFrame DEF pageVars, viewVars, PageTypes
<1>4. ASSUME NEW c \in Conns, Cut(c) PROVE UNCHANGED <<sock, pageVars, viewVars>>
    BY <1>4 DEF Cut
<1>5. CASE TimerFires
    <2>1. timers > 0 /\ timers' = timers - 1 /\ fetching' = fetching + 1
          /\ UNCHANGED <<sock, ws, reconnectLeft, view, saved>>
        BY <1>5 DEF TimerFires, viewVars
    <2>2. Live = {} /\ fetching = 0 /\ timers = 1 BY <2>1, NothingLive DEF PageTypes
    <2>3. remembered' = FALSE BY <1>5, <2>2 DEF TimerFires
    <2>4. Live' = {} BY <2>1, <2>2 DEF Live
    <2>5. fetching' = 1 /\ timers' = 0 BY <2>1, <2>2
    <2>6. WaysInv' BY <2>3, <2>4, <2>5 DEF WaysInv
    <2>7. fetching' \in Nat /\ timers' \in Nat BY <2>5
    <2>8. PageTypes' BY <2>1, <2>3, <2>7 DEF PageTypes
    <2>9. QED BY <2>6, <2>8
<1>6. CASE Reload
    <2>1. Live' = {} BY <1>6 DEF Reload, Live
    <2>2. fetching' = 1 /\ timers' = 0 /\ remembered' = FALSE BY <1>6 DEF Reload
    <2>3. WaysInv' BY <2>1, <2>2 DEF WaysInv
    <2>4. fetching' \in Nat /\ timers' \in Nat /\ reconnectLeft' \in 0..Tries
        BY <1>6, <2>2 DEF Reload, Tries
    <2>5. PageTypes' BY <1>6, <2>2, <2>4 DEF Reload, PageTypes
    <2>6. QED BY <2>3, <2>5
<1>7. CASE DoLogin
    <2>1. CASE WsOpen
        <3>1. /\ UNCHANGED <<sock, ws, fetching, timers, remembered, reconnectLeft, view>>
              /\ saved' = TRUE
            BY <1>7, <2>1 DEF DoLogin, LoginOverWs, LoginConnects
        <3>2. QED BY <3>1, PageFrame DEF PageTypes
    <2>2. CASE ~WsOpen
        <3>1. Ways = 0 /\ fetching' = fetching + 1
            BY <1>7, <2>2 DEF DoLogin, LoginOverWs, LoginConnects
        <3>2. Live = {} /\ fetching = 0 /\ timers = 0
            BY <3>1, WaysCounted DEF PageTypes
        <3>3. UNCHANGED <<sock, ws, timers, remembered, reconnectLeft, view>> /\ saved' = TRUE
            BY <1>7 DEF DoLogin
        <3>4. Live' = {} BY <3>2, <3>3 DEF Live
        <3>5. fetching' = 1 BY <3>1, <3>2
        <3>6. WaysInv' BY <3>2, <3>3, <3>4, <3>5 DEF WaysInv
        <3>7. fetching' \in Nat BY <3>5
        <3>8. PageTypes' BY <3>3, <3>7 DEF PageTypes
        <3>9. QED BY <3>6, <3>8
    <2>3. QED BY <2>1, <2>2
<1>8. CASE Player
    <2>1. DoLogin \/ UNCHANGED browserVars BY <1>8 DEF Player, Click
    <2>2. QED BY <1>3, <1>7, <2>1 DEF browserVars
<1>9. CASE ServerHeartbeat \/ ServerGivesUp \/ UNCHANGED clientVars
    BY <1>3, <1>9 DEF ServerHeartbeat, ServerGivesUp, clientVars, browserVars
<1>10. QED BY <1>1, <1>2, <1>3, <1>4, <1>5, <1>6, <1>8, <1>9 DEF ClientNext

-----------------------------------------------------------------------------
(* Sockets, accounts and first logins *)

\* The server's links and sessions while it serves one connection.
LEMMA ServeFrame ==
    ASSUME TypeOK, NEW c \in Conns, Serve(c)
    PROVE  /\ UNCHANGED link /\ UNCHANGED browserVars
           /\ link[c] = "open" /\ up[c] # <<>> /\ up' = [up EXCEPT ![c] = Tail(@)]
           /\ \A d \in Conns \ {c} :
                /\ session_account'[d] = session_account[d]
                /\ session_room'[d] = session_room[d]
                /\ down'[d] = down[d]
           /\ down' # down => sock[c] = "open"
<1>1. UNCHANGED link
    BY DEF Serve, LoginGranted, LoginDenied, ServerAct, LoginHall, LoginReconnect,
           LoginSeatOnline, CreateRoom, SitDown, LeaveRoom, Logout, vars
<1>2. \A d \in Conns \ {c} :
        session_account'[d] = session_account[d] /\ session_room'[d] = session_room[d]
    BY DEF Serve, LoginGranted, LoginDenied, ServerAct, LoginHall, LoginReconnect,
           LoginSeatOnline, CreateRoom, SitDown, LeaveRoom, Logout, EraseSession, PutSession,
           vars, sessionVars, TypeOK
<1>3. PICK m \in Request, a \in Reply : Take(c, m, a) BY Answers
<1>4. /\ UNCHANGED browserVars
      /\ link[c] = "open" /\ up[c] # <<>> /\ up' = [up EXCEPT ![c] = Tail(@)]
      /\ down' = IF sock[c] = "open" THEN [down EXCEPT ![c] = Append(@, a)] ELSE down
    BY <1>3 DEF Take
<1>5. \A d \in Conns \ {c} : down'[d] = down[d] BY <1>4
<1>6. down' # down => sock[c] = "open" BY <1>4
<1>7. QED BY <1>1, <1>2, <1>4, <1>5, <1>6

LEMMA SocketsStep ==
    TypeOK /\ TypesInv /\ WaysInv /\ SocketsInv /\ [ClientNext]_clientVars => SocketsInv'
<1> SUFFICES ASSUME TypeOK, PageTypes, QueueTypes, WaysInv, SocketsInv, [ClientNext]_clientVars
             PROVE  SocketsInv'
    BY DEF TypesInv
<1>1. CASE UNCHANGED <<link, up, sock, down>> BY <1>1 DEF SocketsInv
<1>2. ASSUME NEW c \in Conns, Progress(c) PROVE SocketsInv'
    <2>1. CASE NewSocket(c)
        BY <2>1 DEF NewSocket, SocketsInv, PageTypes, vars, netVars
    <2>2. CASE OnOpen(c)
        <3>1. c = ws BY <2>2, LiveIsLatest DEF OnOpen
        <3>2. link' = [link EXCEPT ![c] = "open"] /\ sock' = [sock EXCEPT ![c] = "open"]
            BY <2>2 DEF OnOpen, Open
        <3>3. down' = down /\ \A d \in Conns \ {c} : up'[d] = up[d]
            BY <2>2, <3>1 DEF OnOpen, QueueTypes
        <3>4. QED BY <3>2, <3>3 DEF SocketsInv, TypeOK, PageTypes
    <2>3. CASE SocketClosed(c)
        BY <2>3 DEF SocketClosed, SocketsInv, PageTypes, QueueTypes, vars
    <2>4. CASE OnMessage(c)
        <3>1. sock[c] = "open" /\ UNCHANGED <<link, up, sock>> BY <2>4 DEF OnMessage, vars
        <3>2. \A d \in Conns \ {c} : down'[d] = down[d] BY <2>4 DEF OnMessage, QueueTypes
        <3>3. QED BY <3>1, <3>2 DEF SocketsInv
    <2>5. CASE Serve(c)
        <3>1. \A d \in Conns \ {c} : up'[d] = up[d] BY <2>5, ServeFrame DEF QueueTypes
        <3>2. \A d \in Conns : sock[d] # "open" => down'[d] = down[d] BY <2>5, ServeFrame
        <3>3. link' = link /\ sock' = sock /\ link[c] = "open"
            BY <2>5, ServeFrame DEF browserVars
        <3>4. QED BY <3>1, <3>2, <3>3 DEF SocketsInv
    <2>6. CASE ServerNotices(c)
        <3>1. link' = [link EXCEPT ![c] = "closed"] /\ up' = [up EXCEPT ![c] = <<>>]
              /\ UNCHANGED <<sock, down>>
            BY <2>6 DEF ServerNotices, OnClose, browserVars
        <3>2. QED BY <3>1 DEF SocketsInv, TypeOK, QueueTypes
    <2>7. QED BY <1>2, <2>1, <2>2, <2>3, <2>4, <2>5, <2>6 DEF Progress
<1>3. ASSUME NEW c \in Conns, ConnectFails(c) PROVE SocketsInv'
    BY <1>3 DEF ConnectFails, vars, netVars, SocketsInv, PageTypes
<1>4. ASSUME NEW c \in Conns, Cut(c) PROVE SocketsInv'
    BY <1>4 DEF Cut, Lose, SocketsInv, TypeOK, QueueTypes
<1>5. CASE TimerFires BY <1>1, <1>5 DEF TimerFires, vars, netVars
<1>6. CASE Reload BY <1>6 DEF Reload, vars, SocketsInv
<1>7. CASE Player
    <2>1. UNCHANGED <<link, sock, down>>
        BY <1>7 DEF Player, DoLogin, Click, vars, browserVars
    <2>2. \A c \in Conns : link[c] # "open" => up'[c] = up[c]
        BY <1>7 DEF Player, DoLogin, Click, Send, QueueTypes
    <2>3. QED BY <2>1, <2>2 DEF SocketsInv
<1>8. CASE ServerHeartbeat
    <2>1. PICK c \in Conns : link[c] # "closing" /\ Heartbeat({c}) BY <1>8 DEF ServerHeartbeat
    <2>2. \A d \in Conns : link'[d] = "closed" => link[d] = "closed" BY <2>1 DEF Heartbeat
    <2>3. QED BY <1>8, <2>2 DEF ServerHeartbeat, browserVars, netVars, SocketsInv
<1>9. CASE ServerGivesUp
    BY <1>1, <1>9 DEF ServerGivesUp, GiveUp, browserVars, netVars
<1>10. CASE UNCHANGED clientVars
    BY <1>1, <1>10 DEF clientVars, vars, browserVars, netVars
<1>11. QED BY <1>2, <1>3, <1>4, <1>5, <1>6, <1>7, <1>8, <1>9, <1>10 DEF ClientNext


LEMMA VacateFrees ==
    ASSUME TypeOK, NEW q \in Place, Vacate(q)
    PROVE  \A p \in Place : seat_account'[p] \in {None, seat_account[p]}
BY DEF Vacate, TypeOK

LEMMA ServeMe ==
    ASSUME IInv, OnlyMe, QueueTypes, NEW c \in Conns, Serve(c)
    PROVE  OnlyMe'
<1> TypeOK BY DEF IInv
<1>1. CASE LoginGranted(c)
    <2>1. session_account' = [session_account EXCEPT ![c] = Me]
        BY <1>1 DEF LoginGranted, LoginHall, LoginReconnect, PutSession
    <2>2. \A d \in Conns \ {c} : session_room'[d] = session_room[d]
        BY <1>1, ServeFrame DEF Serve
    <2>3. seat_account' = seat_account /\ refused' = refused \ {c}
        BY <1>1 DEF LoginGranted, LoginHall, LoginReconnect, seatVars
    <2>4. Me # None BY NoneAssumption, MeAssumption
    <2>5. QED BY <2>1, <2>2, <2>3, <2>4 DEF OnlyMe, LoggedIn, TypeOK
<1>2. CASE LoginDenied(c)
    <2>1. seat_account' = seat_account /\ refused' = refused \cup {c}
        BY <1>2 DEF LoginDenied, LoginSeatOnline, seatVars, vars
    <2>2. CASE LoginSeatOnline(c, Me)
        <3>1. session_account' = [session_account EXCEPT ![c] = None]
              /\ session_room' = [session_room EXCEPT ![c] = None]
            BY <2>2 DEF LoginSeatOnline, EraseSession, PutSession
        <3>2. QED BY <2>1, <3>1 DEF OnlyMe, LoggedIn, TypeOK
    <2>3. CASE OnlineElsewhere(c, Me) /\ UNCHANGED vars
        <3>1. ~LoggedIn(c)
            BY <2>3, NoneAssumption
               DEF OnlineElsewhere, OnlyMe, LoggedIn, IInv, OnePlayerPerAccount
        <3>2. QED BY <2>1, <2>3, <3>1 DEF OnlyMe, LoggedIn, vars, sessionVars
    <2>4. QED BY <1>2, <2>2, <2>3 DEF LoginDenied
<1>3. CASE ServerAct(c) /\ UNCHANGED refused
    <2>1. CASE UNCHANGED vars
        BY <1>3, <2>1 DEF vars, sessionVars, seatVars, OnlyMe, LoggedIn
    <2>2. CASE \E r \in RoomIds : CreateRoom(c, r)
        <3>1. LoggedIn(c) /\ session_account' = session_account
            BY <2>2 DEF CreateRoom, SitDown, Acts
        <3>2. session_account[c] = Me BY <3>1 DEF OnlyMe, LoggedIn
        <3>3. \A d \in Conns \ {c} : session_room'[d] = session_room[d]
            BY <1>3, ServeFrame DEF Serve
        <3>4. PICK p \in Place : seat_account' = [seat_account EXCEPT ![p] = Me]
            BY <2>2, <3>2, PlaceFields DEF CreateRoom, SitDown
        <3>5. QED BY <1>3, <3>1, <3>3, <3>4 DEF OnlyMe, LoggedIn, TypeOK
    <2>3. CASE LeaveRoom(c)
        <3>1. \A p \in Place : seat_account'[p] \in {None, seat_account[p]}
            BY <2>3, VacateFrees DEF LeaveRoom, PlacesAt
        <3>2. session_account' = session_account
              /\ session_room' = [session_room EXCEPT ![c] = None]
            BY <2>3 DEF LeaveRoom
        <3>3. QED BY <1>3, <3>1, <3>2 DEF OnlyMe, LoggedIn, TypeOK
    <2>4. CASE Logout(c)
        <3>1. \A p \in Place : seat_account'[p] \in {None, seat_account[p]}
            BY <2>4, VacateFrees DEF Logout, PlacesAt, seatVars
        <3>2. session_account' = [session_account EXCEPT ![c] = None]
              /\ session_room' = [session_room EXCEPT ![c] = None]
            BY <2>4 DEF Logout, EraseSession, PutSession
        <3>3. QED BY <1>3, <3>1, <3>2 DEF OnlyMe, LoggedIn, TypeOK
    <2>5. QED BY <1>3, <2>1, <2>2, <2>3, <2>4 DEF ServerAct
<1>4. QED BY <1>1, <1>2, <1>3 DEF Serve

\* What the page does by itself leaves sessions and seats alone; so do a fresh
\* connection and a lost one.
LEMMA PageAlone ==
    ASSUME NEW c \in Conns,
           \/ NewSocket(c) \/ OnOpen(c) \/ SocketClosed(c) \/ OnMessage(c)
           \/ ConnectFails(c) \/ Cut(c) \/ TimerFires \/ Reload \/ Player
    PROVE  UNCHANGED <<sessionVars, seatVars>>
BY DEF NewSocket, OnOpen, SocketClosed, OnMessage, ConnectFails, Cut, TimerFires, Reload,
       Player, DoLogin, Click, Open, Lose, vars

LEMMA PageRefuses ==
    ASSUME NEW c \in Conns,
           \/ NewSocket(c) \/ OnOpen(c) \/ SocketClosed(c) \/ OnMessage(c)
           \/ ConnectFails(c) \/ Cut(c) \/ TimerFires \/ Reload \/ Player
    PROVE  refused' \subseteq refused
BY DEF NewSocket, OnOpen, SocketClosed, OnMessage, ConnectFails, Cut, TimerFires, Reload,
       Player, DoLogin, Click, netVars

LEMMA MeStep == IInv /\ QueueTypes /\ OnlyMe /\ [ClientNext]_clientVars => OnlyMe'
<1> SUFFICES ASSUME IInv, QueueTypes, OnlyMe, [ClientNext]_clientVars PROVE OnlyMe'
    OBVIOUS
<1> TypeOK BY DEF IInv
<1>1. ASSUME UNCHANGED <<sessionVars, seatVars>>, refused' \subseteq refused PROVE OnlyMe'
    BY <1>1 DEF sessionVars, seatVars, OnlyMe, LoggedIn
<1>2. ASSUME NEW c \in Conns, Progress(c) \/ ConnectFails(c) \/ Cut(c) PROVE OnlyMe'
    <2>1. CASE Serve(c) BY <2>1, ServeMe
    <2>2. CASE ServerNotices(c)
        <3>1. /\ session_account' = [session_account EXCEPT ![c] = None]
              /\ session_room' = [session_room EXCEPT ![c] = None]
              /\ seat_account' = seat_account /\ refused' = refused
            BY <2>2 DEF ServerNotices, OnClose, EraseSession, PutSession, BeginRetry
        <3>2. QED BY <3>1 DEF OnlyMe, LoggedIn, TypeOK
    <2>3. QED BY <1>1, <1>2, <2>1, <2>2, PageAlone, PageRefuses DEF Progress
<1>3. CASE TimerFires \/ Reload \/ Player
    <2>1. UNCHANGED <<sessionVars, seatVars>> /\ refused' \subseteq refused
        BY <1>3 DEF TimerFires, Reload, Player, DoLogin, Click, vars, netVars
    <2>2. QED BY <1>1, <2>1
<1>4. CASE ServerHeartbeat
    BY <1>4 DEF ServerHeartbeat, Heartbeat, BeginRetry, sessionVars, netVars, OnlyMe, LoggedIn
<1>5. CASE ServerGivesUp
    <2>1. PICK q \in Place : GiveUp(q) BY <1>5 DEF ServerGivesUp
    <2>2. \A p \in Place : seat_account'[p] \in {None, seat_account[p]}
        BY <2>1, VacateFrees DEF GiveUp
    <2>3. QED BY <1>5, <2>1, <2>2 DEF ServerGivesUp, GiveUp, sessionVars, netVars, OnlyMe, LoggedIn
<1>6. CASE UNCHANGED clientVars BY <1>1, <1>6 DEF clientVars, vars, netVars
<1>7. QED BY <1>2, <1>3, <1>4, <1>5, <1>6 DEF ClientNext

\* Without a login under way and unless it was refused, the view is true once
\* all is answered; who was refused has no session.
LEMMA SettledLogin ==
    ASSUME OnlyMe, ViewInv, PageTypes, Settled, Linked, view = "login"
    PROVE  ~LoggedIn(ws) /\ up[ws] = <<>> /\ down[ws] = <<>>
<1>1. ws \in Conns BY DEF Linked, WsOpen, PageTypes
<1>2. up[ws] = <<>> /\ down[ws] = <<>> BY <1>1 DEF Settled
<1>3. CASE ws \in refused BY <1>1, <1>2, <1>3 DEF OnlyMe
<1>4. CASE ws \notin refused
    <2>1. Len(up[ws]) = 0 /\ Len(down[ws]) = 0 BY <1>2, EmptySeq
    <2>2. ~Occurs("login", up[ws]) /\ AllErrors(down[ws]) BY <2>1 DEF Occurs, AllErrors
    <2>3. QED BY <1>2, <1>4, <2>2 DEF ViewInv, TrueView
<1>5. QED BY <1>3, <1>4

LEMMA FirstFrame ==
    ASSUME LoginFirst,
           \A c \in Conns : \/ up'[c] = <<>>
                            \/ up'[c] = up[c] /\ (LoggedIn(c)' => LoggedIn(c))
    PROVE  LoginFirst'
<1>1. \A c \in Conns : up'[c] = <<>> => Len(up'[c]) = 0 BY EmptySeq
<1>2. QED BY <1>1 DEF LoginFirst

LEMMA FirstAppend ==
    ASSUME LoginFirst, QueueTypes, NEW w \in Conns, NEW m \in Request,
           up' = [up EXCEPT ![w] = Append(@, m)], UNCHANGED session_account,
           m = "login" /\ ~LoginTwice => up[w] = <<>> /\ ~LoggedIn(w)
    PROVE  LoginFirst'
<1> SUFFICES ASSUME ~LoginTwice, NEW c \in Conns, NEW i \in 1..Len(up'[c]),
                    up'[c][i] = "login"
             PROVE  i = 1 /\ ~LoggedIn(c)'
    BY DEF LoginFirst
<1>1. LoggedIn(c)' <=> LoggedIn(c) BY DEF LoggedIn
<1>2. CASE c # w BY <1>1, <1>2 DEF LoginFirst, QueueTypes
<1>3. CASE c = w
    <2>1. up'[c] = Append(up[c], m) BY <1>3 DEF QueueTypes
    <2>2. up[c] \in Seq(Request) BY DEF QueueTypes
    <2>3. CASE i \in 1..Len(up[c]) BY <1>1, <2>1, <2>2, <2>3, Appended DEF LoginFirst
    <2>4. CASE i = Len(up[c]) + 1
        <3>1. m = "login" BY <2>1, <2>2, <2>4, Appended
        <3>2. up[c] = <<>> /\ ~LoggedIn(c) BY <1>3, <3>1
        <3>3. i = 1 BY <2>4, <3>2, EmptySeq
        <3>4. QED BY <1>1, <3>2, <3>3
    <2>5. QED BY <2>1, <2>2, <2>3, <2>4, Appended
<1>4. QED BY <1>2, <1>3

LEMMA FirstStep ==
    IInv /\ TypesInv /\ WaysInv /\ SocketsInv /\ OnlyMe /\ LoginFirst /\ ViewInv
        /\ [ClientNext]_clientVars => LoginFirst'
<1> SUFFICES ASSUME IInv, TypeOK, PageTypes, QueueTypes, WaysInv, SocketsInv, OnlyMe,
                    LoginFirst, ViewInv, [ClientNext]_clientVars
             PROVE  LoginFirst'
    BY DEF TypesInv, IInv
<1>1. ASSUME UNCHANGED <<up, session_account>> PROVE LoginFirst'
    BY <1>1 DEF LoginFirst, LoggedIn
<1>2. ASSUME NEW c \in Conns, Progress(c) PROVE LoginFirst'
    <2>1. CASE NewSocket(c) \/ SocketClosed(c) \/ OnMessage(c)
        BY <1>1, <2>1 DEF NewSocket, SocketClosed, OnMessage, vars, sessionVars, netVars
    <2>2. CASE OnOpen(c)
        <3>1. c = ws /\ link[c] = "closed" BY <2>2, LiveIsLatest DEF OnOpen, Open
        <3>2. up[c] = <<>> /\ ~LoggedIn(c) BY <3>1 DEF SocketsInv, IInv, NothingOnClosed
        <3>3. UNCHANGED session_account BY <2>2, PageAlone DEF sessionVars
        <3>4. up' = [up EXCEPT ![c] = Append(@, "login")] \/ up' = up
            BY <2>2, <3>1 DEF OnOpen
        <3>5. "login" \in Request BY DEF Request
        <3>6. QED BY <1>1, <3>2, <3>3, <3>4, <3>5, FirstAppend
    <2>3. CASE Serve(c)
        <3>1. up' = [up EXCEPT ![c] = Tail(@)] /\ up[c] # <<>> BY <2>3, ServeFrame
        <3>2. \A d \in Conns \ {c} : up'[d] = up[d] /\ (LoggedIn(d)' <=> LoggedIn(d))
            BY <2>3, <3>1, ServeFrame DEF LoggedIn, QueueTypes
        <3>3. ASSUME ~LoginTwice, NEW i \in 1..Len(Tail(up[c])), Tail(up[c])[i] = "login"
              PROVE  FALSE
            <4>1. up[c] \in Seq(Request) BY DEF QueueTypes
            <4>2. i + 1 \in 1..Len(up[c]) /\ up[c][i + 1] = "login" /\ i + 1 # 1
                BY <3>1, <3>3, <4>1, Shortened
            <4>3. QED BY <3>3, <4>2 DEF LoginFirst
        <3>4. up'[c] = Tail(up[c]) BY <3>1 DEF QueueTypes
        <3>5. QED BY <3>2, <3>3, <3>4 DEF LoginFirst
    <2>4. CASE ServerNotices(c)
        <3>1. up' = [up EXCEPT ![c] = <<>>] /\ session_account' = [session_account EXCEPT ![c] = None]
            BY <2>4 DEF ServerNotices, OnClose, EraseSession, PutSession
        <3>2. QED BY <3>1, FirstFrame DEF LoggedIn, TypeOK, QueueTypes
    <2>5. QED BY <1>2, <2>1, <2>2, <2>3, <2>4 DEF Progress
<1>3. ASSUME NEW c \in Conns, ConnectFails(c) PROVE LoginFirst'
    BY <1>1, <1>3 DEF ConnectFails, vars, sessionVars, netVars
<1>4. ASSUME NEW c \in Conns, Cut(c) PROVE LoginFirst'
    <2>1. up' = [up EXCEPT ![c] = <<>>] /\ UNCHANGED session_account
        BY <1>4 DEF Cut, Lose, sessionVars
    <2>2. QED BY <2>1, FirstFrame DEF LoggedIn, QueueTypes
<1>5. CASE TimerFires \/ Reload BY <1>1, <1>5 DEF TimerFires, Reload, vars, sessionVars, netVars
<1>6. CASE Player
    <2>1. UNCHANGED session_account
        BY <1>6 DEF Player, DoLogin, Click, vars, sessionVars
    <2>2. PICK m \in Request : Send(m) /\ (m = "login" => DoLogin)
        BY <1>6 DEF Player, DoLogin, Click, Request
    <2>3. CASE Linked
        <3>1. ws \in Conns BY <2>3 DEF Linked, WsOpen, PageTypes
        <3>2. up' = [up EXCEPT ![ws] = Append(@, m)] BY <2>2, <2>3 DEF Send, Linked
        <3>3. m = "login" /\ ~LoginTwice => up[ws] = <<>> /\ ~LoggedIn(ws)
            BY <2>2, <2>3, SettledLogin DEF DoLogin, LoginOverWs, LoginConnects, Linked
        <3>4. QED BY <2>1, <3>1, <3>2, <3>3, FirstAppend
    <2>4. CASE ~Linked BY <1>1, <2>1, <2>2, <2>4 DEF Send, Linked
    <2>5. QED BY <2>3, <2>4
<1>7. CASE ServerHeartbeat
    BY <1>1, <1>7 DEF ServerHeartbeat, Heartbeat, sessionVars, netVars
<1>8. CASE ServerGivesUp
    BY <1>1, <1>8 DEF ServerGivesUp, GiveUp, sessionVars, netVars
<1>9. CASE UNCHANGED clientVars
    BY <1>1, <1>9 DEF clientVars, vars, sessionVars, netVars
<1>10. QED BY <1>2, <1>3, <1>4, <1>5, <1>6, <1>7, <1>8, <1>9 DEF ClientNext

-----------------------------------------------------------------------------
(* What the page shows *)

LEMMA Unlinked == ~Linked' /\ (view' # "login" => saved') => PageInv'
BY DEF PageInv, SavedInv, RestoreInv, LogoutInv, LeftInv, ViewInv

\* The page's own session and seats, as ViewInv sees them.
OwnKept ==
    /\ ws' = ws
    /\ session_account'[ws] = session_account[ws]
    /\ session_room'[ws] = session_room[ws]
    /\ PlacesAt(ws) # {} => PlacesAt(ws)' # {}

LEMMA TruthKept ==
    ASSUME OwnKept
    PROVE  /\ \A v : TrueView(v) => TrueView(v)'
           /\ \A m : TrueReply(m) => TrueReply(m)'
           /\ LoggedIn(ws)' <=> LoggedIn(ws)
<1>1. (InLobby => InLobby') /\ (InRoom => InRoom') /\ (LoggedIn(ws)' <=> LoggedIn(ws))
    BY DEF OwnKept, InLobby, InRoom, LoggedIn
<1>2. QED BY <1>1 DEF TrueView, TrueReply

\* Nothing that concerns the page happens.
LEMMA PageKept ==
    ASSUME PageInv, OwnKept, Linked' => Linked, UNCHANGED <<view, saved>>,
           Linked' => up'[ws] = up[ws] /\ down'[ws] = down[ws] /\ (ws \in refused <=> ws \in refused')
    PROVE  PageInv'
<1>1. CASE ~Linked' BY <1>1, Unlinked DEF PageInv, SavedInv
<1>2. CASE Linked'
    <2> USE <1>2 DEF PageInv
    <2>1. /\ ws' = ws /\ up'[ws] = up[ws] /\ down'[ws] = down[ws]
          /\ ws \in refused <=> ws \in refused'
          /\ Linked
        BY DEF OwnKept
    <2>2. SavedInv' BY <2>1, TruthKept DEF SavedInv
    <2>3. RestoreInv' BY <2>1 DEF RestoreInv
    <2>4. LogoutInv' BY <2>1, TruthKept DEF LogoutInv, Idle
    <2>5. LeftInv' BY <2>1, TruthKept DEF LeftInv
    <2>6. ViewInv' BY <2>1, TruthKept DEF ViewInv
    <2>7. QED BY <2>2, <2>3, <2>4, <2>5, <2>6
<1>3. QED BY <1>1, <1>2

\* A fresh connection: the saved login is the first message over it.
LEMMA PageOpens ==
    ASSUME IInv, TypesInv, WaysInv, SocketsInv, PageInv, NEW c \in Conns, OnOpen(c)
    PROVE  PageInv'
<1> USE DEF TypesInv, PageInv
<1>1. c = ws /\ link[c] = "closed" /\ sock[c] = "connecting"
    BY LiveIsLatest DEF OnOpen, Open
<1>2. up[c] = <<>> /\ down[c] = <<>> /\ ~LoggedIn(c)
    BY <1>1 DEF SocketsInv, IInv, NothingOnClosed
<1>3. ws' = ws /\ UNCHANGED <<view, saved, down, session_account>>
    BY DEF OnOpen, Open, viewVars, sessionVars
<1>4. ~LoggedIn(ws)' /\ down'[ws] = <<>> BY <1>1, <1>2, <1>3 DEF LoggedIn
<1>5. CASE saved
    <2>1. up' = [up EXCEPT ![ws] = Append(@, "login")] BY <1>1, <1>5 DEF OnOpen
    <2>2. up'[ws] = <<"login">> BY <1>1, <1>2, <2>1 DEF QueueTypes
    <2>3. Len(up'[ws]) = 1 /\ up'[ws][1] = "login" /\ Len(down'[ws]) = 0
        BY <1>4, <2>2, EmptySeq
    <2>4. Occurs("login", up'[ws]) BY <2>3 DEF Occurs
    <2>5. SavedInv' BY <1>3, <1>5 DEF SavedInv
    <2>6. RestoreInv' BY <1>4, <2>2, <1>3 DEF RestoreInv
    <2>7. LogoutInv' BY <2>3, <1>3 DEF LogoutInv
    <2>8. LeftInv' BY <2>3, <1>3 DEF LeftInv
    <2>9. ViewInv' BY <2>4, <1>3 DEF ViewInv
    <2>10. QED BY <2>5, <2>6, <2>7, <2>8, <2>9
<1>6. CASE ~saved
    <2>1. up' = up /\ view = "login" BY <1>6 DEF OnOpen, SavedInv
    <2>2. up'[ws] = <<>> BY <1>1, <1>2, <2>1
    <2>3. Len(up'[ws]) = 0 /\ Len(down'[ws]) = 0 BY <1>4, <2>2, EmptySeq
    <2>4. ~Occurs("login", up'[ws]) /\ AllErrors(down'[ws]) BY <2>3 DEF Occurs, AllErrors
    <2>5. SavedInv' BY <1>3, <1>4, <2>1, <2>4 DEF SavedInv
    <2>6. RestoreInv' BY <1>3, <2>1 DEF RestoreInv
    <2>7. LogoutInv' BY <1>3, <2>3 DEF LogoutInv
    <2>8. LeftInv' BY <1>3, <2>3 DEF LeftInv
    <2>9. ViewInv' BY <1>3, <1>4, <2>1, <2>3 DEF ViewInv, TrueView
    <2>10. QED BY <2>5, <2>6, <2>7, <2>8, <2>9
<1>7. QED BY <1>5, <1>6

\* The player sends a login from the login form, and anything else from
\* another view.
LEMMA PageSends ==
    ASSUME TypesInv, PageInv, Linked, NEW m \in Request,
           up' = [up EXCEPT ![ws] = Append(@, m)],
           UNCHANGED <<vars, sock, ws, view, down, refused>>,
           IF m = "login" THEN view = "login" /\ saved'
           ELSE view \in {"hall", "game"} /\ saved' = saved
    PROVE  PageInv'
<1> USE DEF TypesInv, PageInv
<1> DEFINE q == up[ws]
<1>1. ws \in Conns /\ q \in Seq(Request) BY DEF Linked, WsOpen, PageTypes, QueueTypes
<1>2. up'[ws] = Append(q, m) BY <1>1 DEF QueueTypes
<1>3. Occurs("login", up'[ws]) <=> Occurs("login", q) \/ m = "login"
    BY <1>1, <1>2, OccursAppend
<1>4. OwnKept BY DEF OwnKept, vars, sessionVars, seatVars, PlacesAt
<1> HIDE DEF q
<1>5. SavedInv' BY DEF SavedInv
<1>6. RestoreInv' BY DEF RestoreInv
<1>7. LogoutInv'
    <2> SUFFICES ASSUME NEW i \in 1..Len(Append(q, m)), Append(q, m)[i] = "logout"
                 PROVE  \/ ~LoggedIn(ws) /\ \A j \in 1..(i - 1) : Append(q, m)[j] # "login"
                        \/ /\ view # "login"
                           /\ \A k \in i..Len(Append(q, m)) : Append(q, m)[k] # "login"
        BY <1>2, <1>4, TruthKept DEF LogoutInv, Idle, OwnKept
    <2>1. Len(q) \in Nat /\ Len(Append(q, m)) = Len(q) + 1 BY <1>1, Appended
    <2>2. \A j \in 1..Len(q) : Append(q, m)[j] = q[j] BY <1>1, Appended
    <2>3. Append(q, m)[Len(q) + 1] = m BY <1>1, Appended
    <2>4. CASE i = Len(q) + 1
        <3>1. m = "logout" /\ view # "login" BY <2>3, <2>4
        <3>2. \A k \in i..Len(Append(q, m)) : k = Len(q) + 1 BY <2>1, <2>4
        <3>3. QED BY <2>3, <3>1, <3>2
    <2>5. CASE i \in 1..Len(q)
        <3>1. q[i] = "logout" BY <2>2, <2>5
        <3>2. \/ ~LoggedIn(ws) /\ \A j \in 1..(i - 1) : q[j] # "login"
              \/ view # "login" /\ \A k \in i..Len(q) : q[k] # "login"
            BY <2>5, <3>1 DEF LogoutInv, Idle, q
        <3>3. \A j \in 1..(i - 1) : j \in 1..Len(q) BY <2>1, <2>5
        <3>4. \A k \in i..(Len(q) + 1) : k = Len(q) + 1 \/ (k \in 1..Len(q) /\ k \in i..Len(q))
            BY <2>1, <2>5
        <3>5. view # "login" => m # "login" OBVIOUS
        <3>6. QED BY <2>1, <2>2, <2>3, <3>2, <3>3, <3>4, <3>5
    <2>6. QED BY <2>1, <2>4, <2>5
<1>8. LeftInv' BY <1>3, <1>4, TruthKept DEF LeftInv, OwnKept, q
<1>9. ViewInv' BY <1>3, <1>4, TruthKept DEF ViewInv, OwnKept, q
<1>10. QED BY <1>5, <1>6, <1>7, <1>8, <1>9

\* The page reads the next message.
LEMMA PageReads ==
    ASSUME TypesInv, WaysInv, PageInv, NEW c \in Conns, OnMessage(c)
    PROVE  PageInv'
<1> USE DEF TypesInv, PageInv
<1> DEFINE q == down[ws]
           m == Head(q)
<1>1. c = ws /\ Linked /\ ws \in Conns /\ q \in Seq(Reply) /\ q # <<>>
    BY LiveIsLatest, NoneAssumption DEF OnMessage, Linked, WsOpen, QueueTypes
<1>2. down'[ws] = Tail(q) /\ m \in Reply /\ m = q[1]
    BY <1>1, Shortened DEF OnMessage, QueueTypes
<1>3. UNCHANGED <<vars, ws, sock, up, refused>> BY DEF OnMessage, pageVars
<1>4. OwnKept BY <1>3 DEF OwnKept, vars, sessionVars, seatVars, PlacesAt
<1>5. /\ m = "hall" => view' = "hall" /\ saved' = saved
      /\ m = "state" => view' = "game" /\ saved' = saved
      /\ m = "leave_ok" => view' = "login" /\ saved' = FALSE
      /\ m = "error" => view' = LoginRefused /\ saved' = saved
    BY <1>1 DEF OnMessage
<1>6. /\ LastWord(q, 1) => AllErrors(Tail(q))
      /\ AllErrors(Tail(q)) => IF m = "error" THEN AllErrors(q) ELSE LastWord(q, 1)
      /\ \A i \in 1..Len(Tail(q)) : LastWord(Tail(q), i) <=> LastWord(q, i + 1)
    BY <1>1, ErrorsTail
<1>7. /\ 1 \in 1..Len(q)
      /\ \A i \in 1..Len(Tail(q)) : i + 1 \in 2..Len(q) /\ i + 1 \in 1..Len(q) /\ Tail(q)[i] = q[i + 1]
    BY <1>1, Shortened
<1>8. AllErrors(q) => m = "error" /\ AllErrors(Tail(q))
    BY <1>2, <1>7 DEF AllErrors
<1>9. m = "leave_ok" =>
        AllErrors(Tail(q)) /\ view # "login" /\ ~LoggedIn(ws) /\ ~Occurs("login", up[ws])
    BY <1>1, <1>2, <1>6, <1>7 DEF LeftInv
<1>10. ASSUME m = "error", view = "restore"
       PROVE  up[ws] = <<>> /\ Tail(q) = <<>> /\ ws \in refused
    <2>1. PICK x \in Reply : up[ws] = <<>> /\ q = <<x>> /\ (x = "error" => ws \in refused)
        BY <1>1, <1>10 DEF RestoreInv
    <2>2. Head(<<x>>) = x /\ Tail(<<x>>) = <<>> BY <2>1
    <2>3. QED BY <1>10, <2>1, <2>2
<1> HIDE DEF q, m
<1>11. m \in {"hall", "state"} => saved BY <1>1, <1>8 DEF SavedInv, q
<1>12. SavedInv'
    <2>1. view' # "login" => saved' BY <1>2, <1>5, <1>11 DEF SavedInv, LoginRefused, Reply
    <2>2. ASSUME ~saved' PROVE ~LoggedIn(ws) /\ ~Occurs("login", up[ws]) /\ AllErrors(Tail(q))
        <3>1. CASE m = "leave_ok" BY <1>9, <3>1
        <3>2. CASE ~saved BY <1>1, <1>8, <3>2 DEF SavedInv, q
        <3>3. QED BY <1>2, <1>5, <2>2, <3>1, <3>2 DEF Reply
    <2>3. QED BY <1>2, <1>3, <1>4, <2>1, <2>2, TruthKept DEF SavedInv
<1>13. RestoreInv' BY <1>2, <1>5 DEF RestoreInv, LoginRefused, Reply
<1>14. LogoutInv'
    <2> SUFFICES ASSUME NEW i \in 1..Len(up[ws]), up[ws][i] = "logout"
                 PROVE  Idle(i) \/ (view' # "login" /\ \A k \in i..Len(up[ws]) : up[ws][k] # "login")
        BY <1>3, <1>4, TruthKept DEF LogoutInv, Idle
    <2>1. Idle(i) \/ (view # "login" /\ \A k \in i..Len(up[ws]) : up[ws][k] # "login")
        BY <1>1 DEF LogoutInv
    <2>2. CASE m = "leave_ok"
        <3>1. up[ws] \in Seq(Request) /\ Len(up[ws]) \in Nat BY <1>1 DEF QueueTypes
        <3>2. \A j \in 1..(i - 1) : j \in 1..Len(up[ws]) BY <3>1
        <3>3. QED BY <1>9, <2>2, <3>2 DEF Idle, Occurs
    <2>3. CASE m = "error" /\ view = "restore"
        <3>1. Len(up[ws]) = 0 BY <1>10, <2>3, EmptySeq
        <3>2. QED BY <3>1
    <2>4. CASE view # "login" => view' # "login" BY <2>1, <2>4
    <2>5. QED BY <1>2, <1>5, <2>2, <2>3, <2>4 DEF LoginRefused, Reply
<1>15. LeftInv'
    <2> SUFFICES ASSUME NEW i \in 1..Len(Tail(q)), Tail(q)[i] = "leave_ok"
                 PROVE  /\ LastWord(Tail(q), i) /\ view' # "login"
                        /\ ~LoggedIn(ws) /\ ~Occurs("login", up[ws])
        BY <1>2, <1>3, <1>4, TruthKept DEF LeftInv
    <2>1. /\ LastWord(q, i + 1) /\ view # "login"
          /\ ~LoggedIn(ws) /\ ~Occurs("login", up[ws])
        BY <1>1, <1>7 DEF LeftInv, q
    <2>2. m # "leave_ok"
        <3>1. m = "leave_ok" => Tail(q)[i] = "error" BY <1>9 DEF AllErrors
        <3>2. QED BY <3>1
    <2>3. ~(m = "error" /\ view = "restore")
        <3>1. m = "error" /\ view = "restore" => Len(Tail(q)) = 0 BY <1>10, EmptySeq
        <3>2. QED BY <3>1
    <2>4. view' # "login" BY <1>2, <1>5, <2>1, <2>2, <2>3 DEF LoginRefused, Reply
    <2>5. QED BY <1>6, <2>1, <2>4
<1>16. ViewInv'
    <2> SUFFICES ASSUME ws \notin refused, ~Occurs("login", up[ws])
                 PROVE  /\ AllErrors(Tail(q)) => TrueView(view')
                        /\ \A i \in 1..Len(Tail(q)) :
                              LastWord(Tail(q), i) => TrueReply(Tail(q)[i])
        BY <1>2, <1>3, <1>4, TruthKept DEF ViewInv
    <2>1. /\ AllErrors(q) => TrueView(view)
          /\ \A i \in 1..Len(q) : LastWord(q, i) => TrueReply(q[i])
        BY <1>1 DEF ViewInv, q
    <2>2. ASSUME AllErrors(Tail(q)) PROVE TrueView(view')
        <3>1. CASE m = "error"
            <4>1. view' = view BY <1>5, <1>10, <3>1 DEF LoginRefused
            <4>2. QED BY <1>6, <2>1, <2>2, <3>1, <4>1
        <3>2. CASE m # "error"
            <4>1. TrueReply(m) BY <1>2, <1>6, <1>7, <2>1, <2>2, <3>2
            <4>2. QED BY <1>2, <1>5, <3>2, <4>1 DEF TrueReply, TrueView, Reply
        <3>3. QED BY <3>1, <3>2
    <2>3. QED BY <1>6, <1>7, <2>1, <2>2
<1>17. QED BY <1>12, <1>13, <1>14, <1>15, <1>16

\* Serving m with answer a: what a says is true, and without an a that says
\* something nothing changes; no session begins but by a login.
LEMMA Served ==
    ASSUME IInv, TypesInv, OnlyMe, NEW c \in Conns, c = ws, Linked, Serve(c)
    PROVE  \E m \in Request, a \in Reply :
             /\ Take(c, m, a) /\ ws' = ws
             /\ a # "error" => TrueReply(a)'
             /\ a = "error" /\ m # "login" => OwnKept
             /\ a = "error" /\ m = "login" => ws \in refused' /\ ~LoggedIn(ws)'
             /\ m = "login" => a \in {"hall", "state", "error"}
             /\ m # "login" => UNCHANGED refused /\ (LoggedIn(ws)' => LoggedIn(ws))
             /\ m # "login" /\ ~LoggedIn(ws) => a = "error"
             /\ a = "leave_ok" => m = "logout" /\ LoggedIn(ws)
<1> TypeOK BY DEF IInv
<1> USE DEF Request, Reply
<1>1. ws' = ws BY ServeFrame DEF browserVars, pageVars
<1>2. CASE LoginGranted(c)
    <2>1. session_account'[c] = Me /\ Me # None
        BY <1>2, NoneAssumption, MeAssumption
           DEF LoginGranted, LoginHall, LoginReconnect, PutSession, TypeOK
    <2>2. CASE Take(c, "login", "hall") /\ LoginHall(c, Me)
        <3>1. session_room'[c] = None BY <2>2 DEF LoginHall, PutSession, TypeOK
        <3>2. TrueReply("hall")' BY <1>1, <2>1, <3>1 DEF TrueReply, InLobby
        <3>3. QED BY <1>1, <2>2, <3>2
    <2>3. CASE Take(c, "login", "state") /\ LoginReconnect(c, Me)
        <3>1. PICK p \in Place : seat_account[p] = Me /\ seat_conn' = [seat_conn EXCEPT ![p] = c]
            BY <2>3 DEF LoginReconnect, PlacesOf
        <3>2. seat_account' = seat_account BY <2>3 DEF LoginReconnect
        <3>3. p \in PlacesAt(c)' BY <2>1, <3>1, <3>2 DEF PlacesAt, TypeOK
        <3>4. TrueReply("state")' BY <1>1, <2>1, <3>3 DEF TrueReply, InRoom
        <3>5. QED BY <1>1, <2>3, <3>4
    <2>4. QED BY <1>2, <2>2, <2>3 DEF LoginGranted
<1>3. CASE LoginDenied(c)
    <2>1. OnlyMe' BY ServeMe DEF TypesInv
    <2>2. ws \in refused' BY <1>3 DEF LoginDenied
    <2>3. ~LoggedIn(c)' BY <2>1, <2>2 DEF OnlyMe
    <2>4. ~LoggedIn(ws)' BY <1>1, <2>3 DEF LoggedIn
    <2>5. Take(c, "login", "error") BY <1>3 DEF LoginDenied
    <2>6. QED BY <1>1, <2>2, <2>4, <2>5
<1>4. CASE ServerAct(c) /\ UNCHANGED refused
    <2>1. ASSUME NEW m \in Request \ {"login"}, Take(c, m, "error"), UNCHANGED vars
          PROVE  /\ OwnKept /\ (LoggedIn(ws)' => LoggedIn(ws))
        BY <1>1, <2>1 DEF OwnKept, LoggedIn, vars, sessionVars, seatVars, PlacesAt
    <2>2. CASE \E m \in Request \ {"login"} : Take(c, m, "error") /\ UNCHANGED vars
        BY <1>1, <1>4, <2>1, <2>2
    <2>3. CASE \E r \in RoomIds : Take(c, "create", "state") /\ CreateRoom(c, r)
        <3>1. PICK r \in RoomIds : CreateRoom(c, r) BY <2>3
        <3>2. LoggedIn(c) /\ session_account' = session_account
            BY <3>1 DEF CreateRoom, SitDown, Acts
        <3>3. session_account'[c] = Me BY <3>2 DEF OnlyMe, LoggedIn
        <3>4. <<r, 0>> \in PlacesAt(c)'
            BY <3>1, <3>2, PlaceFields DEF CreateRoom, SitDown, PlacesAt, LoggedIn, TypeOK
        <3>5. TrueReply("state")' BY <1>1, <3>3, <3>4 DEF TrueReply, InRoom
        <3>6. LoggedIn(ws) BY <3>2
        <3>7. QED BY <1>1, <1>4, <2>3, <3>5, <3>6
    <2>4. CASE Take(c, "leave", "hall") /\ LeaveRoom(c)
        <3>1. LoggedIn(c) /\ session_account' = session_account /\ session_room'[c] = None
            BY <2>4 DEF LeaveRoom, Acts, TypeOK
        <3>2. session_account'[c] = Me BY <3>1 DEF OnlyMe, LoggedIn
        <3>3. TrueReply("hall")' BY <1>1, <3>1, <3>2 DEF TrueReply, InLobby
        <3>4. LoggedIn(ws) BY <3>1
        <3>5. QED BY <1>1, <1>4, <2>4, <3>3, <3>4
    <2>5. CASE Take(c, "logout", "leave_ok") /\ Logout(c)
        <3>1. LoggedIn(c) /\ session_account'[c] = None
            BY <2>5 DEF Logout, Acts, EraseSession, PutSession, TypeOK
        <3>2. ~LoggedIn(ws)' /\ LoggedIn(ws) BY <1>1, <3>1 DEF LoggedIn
        <3>3. TrueReply("leave_ok")' BY <3>2 DEF TrueReply
        <3>4. QED BY <1>1, <1>4, <2>5, <3>2, <3>3
    <2>6. QED BY <1>4, <2>2, <2>3, <2>4, <2>5 DEF ServerAct
<1>5. QED BY <1>2, <1>3, <1>4 DEF Serve

LEMMA PageServed ==
    ASSUME IInv, TypesInv, OnlyMe, PageInv, NEW c \in Conns, c = ws, Linked, Serve(c)
    PROVE  PageInv'
<1> USE DEF PageInv
<1>0. PICK q, d : q = up[ws] /\ d = down[ws] OBVIOUS
<1>1. PICK m \in Request, a \in Reply :
        /\ Take(c, m, a) /\ ws' = ws
        /\ a # "error" => TrueReply(a)'
        /\ a = "error" /\ m # "login" => OwnKept
        /\ a = "error" /\ m = "login" => ws \in refused' /\ ~LoggedIn(ws)'
        /\ m = "login" => a \in {"hall", "state", "error"}
        /\ m # "login" => UNCHANGED refused /\ (LoggedIn(ws)' => LoggedIn(ws))
        /\ m # "login" /\ ~LoggedIn(ws) => a = "error"
        /\ a = "leave_ok" => m = "logout" /\ LoggedIn(ws)
    BY Served
<1>2. /\ q \in Seq(Request) /\ d \in Seq(Reply) /\ q # <<>> /\ m = Head(q)
      /\ up'[ws] = Tail(q) /\ down'[ws] = Append(d, a)
    BY <1>0, <1>1 DEF Take, TypesInv, QueueTypes, Linked, WsOpen
<1>3. UNCHANGED <<ws, view, saved>> BY <1>1 DEF Take, browserVars, viewVars, pageVars
<1>4. /\ Occurs("login", q) <=> Occurs("login", Tail(q)) \/ m = "login"
      /\ Len(q) \in Nat \ {0} /\ m = q[1]
      /\ Len(Tail(q)) = Len(q) - 1 /\ \A i \in 1..Len(Tail(q)) : Tail(q)[i] = q[i + 1]
    BY <1>2, OccursTail, Shortened
<1>5. /\ AllErrors(Append(d, a)) <=> AllErrors(d) /\ a = "error"
      /\ \A i \in 1..Len(d) : LastWord(Append(d, a), i) <=> LastWord(d, i) /\ a = "error"
      /\ LastWord(Append(d, a), Len(d) + 1) <=> a # "error"
    BY <1>2, ErrorsAppend
<1>6. /\ Len(d) \in Nat /\ Len(Append(d, a)) = Len(d) + 1
      /\ \A i \in 1..Len(d) : Append(d, a)[i] = d[i]
      /\ Append(d, a)[Len(d) + 1] = a
    BY <1>2, Appended
<1>7. 1..Len(Append(d, a)) = 1..Len(d) \cup {Len(d) + 1} BY <1>6
<1>8. view = "restore" => q = <<"login">> /\ d = <<>> BY <1>0, <1>2 DEF RestoreInv
<1>9. Linked /\ (ws \in refused => ~LoggedIn(ws))
    BY DEF OnlyMe, Linked, WsOpen, TypesInv, PageTypes
<1>10. \A i \in 1..Len(d) : d[i] = "leave_ok" =>
          /\ LastWord(d, i) /\ view # "login" /\ ~LoggedIn(ws) /\ ~Occurs("login", q)
    BY <1>0 DEF LeftInv
<1>11. ~saved => ~LoggedIn(ws) /\ ~Occurs("login", q) /\ AllErrors(d)
    BY <1>0 DEF SavedInv
<1>12. \A i \in 1..Len(q) : q[i] = "logout" =>
          \/ ~LoggedIn(ws) /\ \A j \in 1..(i - 1) : q[j] # "login"
          \/ view # "login" /\ \A k \in i..Len(q) : q[k] # "login"
    BY <1>0 DEF LogoutInv, Idle
<1>13. ws \notin refused /\ ~Occurs("login", q) =>
          /\ AllErrors(d) => TrueView(view)
          /\ \A i \in 1..Len(d) : LastWord(d, i) => TrueReply(d[i])
    BY <1>0 DEF ViewInv
<1>14. SavedInv'
    <2>1. ASSUME ~saved
          PROVE  ~LoggedIn(ws)' /\ ~Occurs("login", Tail(q)) /\ AllErrors(Append(d, a))
        BY <1>1, <1>4, <1>5, <1>11, <2>1
    <2>2. view # "login" => saved BY DEF SavedInv
    <2>3. QED BY <1>2, <1>3, <2>1, <2>2 DEF SavedInv
<1>15. RestoreInv'
    <2> SUFFICES ASSUME view = "restore"
                 PROVE  /\ Tail(q) = <<>> /\ a # "leave_ok"
                        /\ Append(d, a) = <<a>> /\ (a = "error" => ws \in refused')
        BY <1>2, <1>3 DEF RestoreInv
    <2>1. m = "login" /\ Tail(q) = <<>> BY <1>2, <1>8
    <2>2. Append(d, a) = <<a>> BY <1>8
    <2>3. QED BY <1>1, <2>1, <2>2
<1>16. LogoutInv'
    <2> SUFFICES ASSUME NEW i \in 1..Len(Tail(q)), Tail(q)[i] = "logout"
                 PROVE  \/ ~LoggedIn(ws)' /\ \A j \in 1..(i - 1) : Tail(q)[j] # "login"
                        \/ view # "login" /\ \A k \in i..Len(Tail(q)) : Tail(q)[k] # "login"
        <3>1. ws' = ws /\ view' = view /\ up'[ws'] = Tail(q) BY <1>2, <1>3
        <3>2. QED BY <3>1, SMTT(30) DEF LogoutInv, Idle, LoggedIn
    <2>1. i + 1 \in 1..Len(q) /\ q[i + 1] = "logout" BY <1>4
    <2>2. CASE ~LoggedIn(ws) /\ \A j \in 1..i : q[j] # "login"
        <3>1. m # "login" BY <1>4, <2>2
        <3>2. ~LoggedIn(ws)' BY <1>1, <2>2, <3>1
        <3>3. \A j \in 1..(i - 1) : j \in 1..Len(Tail(q)) /\ j + 1 \in 1..i BY <1>4
        <3>4. QED BY <1>4, <2>2, <3>2, <3>3
    <2>3. CASE view # "login" /\ \A k \in (i + 1)..Len(q) : q[k] # "login"
        <3>1. \A k \in i..Len(Tail(q)) : k \in 1..Len(Tail(q)) /\ k + 1 \in (i + 1)..Len(q)
            BY <1>4
        <3>2. QED BY <1>4, <2>3, <3>1
    <2>4. i + 1 - 1 = i OBVIOUS
    <2>5. QED BY <1>12, <2>1, <2>2, <2>3, <2>4
<1>17. LeftInv'
    <2> SUFFICES ASSUME NEW i \in 1..Len(Append(d, a)), Append(d, a)[i] = "leave_ok"
                 PROVE  /\ LastWord(Append(d, a), i) /\ view # "login"
                        /\ ~LoggedIn(ws)' /\ ~Occurs("login", Tail(q))
        BY <1>2, <1>3 DEF LeftInv
    <2>1. CASE i \in 1..Len(d)
        <3>1. LastWord(d, i) /\ view # "login" /\ ~LoggedIn(ws) /\ ~Occurs("login", q)
            BY <1>6, <1>10, <2>1
        <3>2. m # "login" /\ a = "error" BY <1>1, <1>4, <3>1
        <3>3. QED BY <1>1, <1>4, <1>5, <2>1, <3>1, <3>2
    <2>2. CASE i = Len(d) + 1
        <3>1. a = "leave_ok" BY <1>6, <2>2
        <3>2. m = "logout" /\ LoggedIn(ws) /\ ~LoggedIn(ws)' BY <1>1, <3>1 DEF TrueReply
        <3>3. view # "login" /\ \A k \in 1..Len(q) : q[k] # "login"
            <4>1. 1 \in 1..Len(q) /\ q[1] = "logout" BY <1>4, <3>2
            <4>2. QED BY <1>12, <3>2, <4>1
        <3>4. ~Occurs("login", Tail(q)) BY <1>4, <3>3 DEF Occurs
        <3>5. QED BY <1>5, <2>2, <3>1, <3>2, <3>3, <3>4
    <2>3. QED BY <1>7, <2>1, <2>2
<1>18. ViewInv'
    <2> SUFFICES ASSUME ws \notin refused', ~Occurs("login", Tail(q))
                 PROVE  /\ AllErrors(Append(d, a)) => TrueView(view)'
                        /\ \A i \in 1..Len(Append(d, a)) :
                              LastWord(Append(d, a), i) => TrueReply(Append(d, a)[i])'
        BY <1>2, <1>3 DEF ViewInv
    <2>1. CASE a # "error"
        <3>1. ~AllErrors(Append(d, a)) /\ TrueReply(a)' BY <1>1, <1>5, <2>1
        <3>2. \A i \in 1..Len(d) : ~LastWord(Append(d, a), i) BY <1>5, <2>1
        <3>3. QED BY <1>6, <1>7, <3>1, <3>2
    <2>2. CASE a = "error"
        <3>1. m # "login" BY <1>1, <2>2
        <3>2. OwnKept /\ ws \notin refused /\ ~Occurs("login", q) BY <1>1, <1>4, <2>2, <3>1
        <3>3. QED BY <1>3, <1>5, <1>6, <1>7, <1>13, <2>2, <3>2, TruthKept DEF TrueView
    <2>3. QED BY <2>1, <2>2
<1>19. QED BY <1>14, <1>15, <1>16, <1>17, <1>18


\* What the server does for another connection takes nobody else's seat.
LEMMA OthersSeat ==
    ASSUME IInv, NEW c \in Conns, NEW d \in Conns \ {c}, NEW p \in PlacesAt(d),
           Serve(c) \/ OnClose(c) \/ Heartbeat({c})
    PROVE  p \in PlacesAt(d)'
<1> USE NoneAssumption
<1> TypeOK BY DEF IInv
<1>1. p \in Place /\ seat_account[p] # None /\ seat_conn[p] = d /\ d # None /\ d # c
    BY DEF PlacesAt
<1>2. p[1] \in rooms BY <1>1 DEF IInv, RoomsAreTheTakenOnes
<1> SUFFICES seat_account'[p] # None /\ seat_conn'[p] = d BY <1>1 DEF PlacesAt
<1>3. ASSUME NEW q \in Place, Vacate(q), seat_conn[q] # d
      PROVE  seat_account'[p] # None /\ seat_conn'[p] = d
    BY <1>1, <1>3 DEF Vacate, TypeOK
<1>4. CASE UNCHANGED <<seat_account, seat_conn>> BY <1>1, <1>4
<1>5. CASE BeginRetry({c}) BY <1>1, <1>5 DEF BeginRetry, TypeOK
<1>6. CASE LoginReconnect(c, Me)
    <2>1. PICK q \in Place : seat_conn[q] = None /\ seat_conn' = [seat_conn EXCEPT ![q] = c]
        BY <1>6 DEF LoginReconnect, PlacesOf
    <2>2. seat_account' = seat_account BY <1>6 DEF LoginReconnect
    <2>3. QED BY <1>1, <2>1, <2>2 DEF TypeOK
<1>7. ASSUME NEW r \in RoomIds, CreateRoom(c, r)
      PROVE  seat_account'[p] # None /\ seat_conn'[p] = d
    <2>1. p # <<r, 0>> BY <1>2, <1>7 DEF CreateRoom
    <2>2. QED BY <1>1, <1>7, <2>1 DEF CreateRoom, SitDown, TypeOK
<1>8. CASE LeaveRoom(c)
    <2>1. PICK q \in Place : Vacate(q) /\ seat_conn[q] = c
        BY <1>8 DEF LeaveRoom, PlacesAt
    <2>2. QED BY <1>1, <1>3, <2>1
<1>9. CASE Logout(c)
    <2>1. CASE PlacesAt(c) = {} BY <1>4, <1>9, <2>1 DEF Logout, seatVars
    <2>2. CASE PlacesAt(c) # {}
        <3>1. PICK q \in Place : Vacate(q) /\ seat_conn[q] = c
            BY <1>9, <2>2 DEF Logout, PlacesAt
        <3>2. QED BY <1>1, <1>3, <3>1
    <2>3. QED BY <2>1, <2>2
<1>10. CASE Serve(c)
    <2>1. CASE LoginGranted(c)
        BY <1>4, <1>6, <2>1 DEF LoginGranted, LoginHall, seatVars
    <2>2. CASE LoginDenied(c)
        BY <1>4, <2>2 DEF LoginDenied, LoginSeatOnline, seatVars, vars
    <2>3. CASE ServerAct(c)
        BY <1>4, <1>7, <1>8, <1>9, <2>3 DEF ServerAct, seatVars, vars
    <2>4. QED BY <1>10, <2>1, <2>2, <2>3 DEF Serve
<1>11. CASE OnClose(c) BY <1>5, <1>11 DEF OnClose
<1>12. CASE Heartbeat({c}) BY <1>5, <1>12 DEF Heartbeat
<1>13. QED BY <1>10, <1>11, <1>12

LEMMA OthersKeep ==
    ASSUME IInv, NEW c \in Conns, ws \in Conns \ {c}, ws' = ws,
           Serve(c) \/ OnClose(c) \/ Heartbeat({c})
    PROVE  OwnKept
<1> TypeOK BY DEF IInv
<1>1. session_account'[ws] = session_account[ws] /\ session_room'[ws] = session_room[ws]
    <2>1. CASE Serve(c) BY <2>1, ServeFrame
    <2>2. CASE OnClose(c) BY <2>2 DEF OnClose, EraseSession, PutSession, TypeOK
    <2>3. CASE Heartbeat({c}) BY <2>3 DEF Heartbeat, sessionVars
    <2>4. QED BY <2>1, <2>2, <2>3
<1>2. PlacesAt(ws) # {} => PlacesAt(ws)' # {}
    <2> SUFFICES ASSUME NEW p \in PlacesAt(ws) PROVE PlacesAt(ws)' # {} OBVIOUS
    <2>1. PICK d \in Conns \ {c} : d = ws OBVIOUS
    <2>2. p \in PlacesAt(d)' BY <2>1, OthersSeat
    <2>3. QED BY <2>1, <2>2 DEF PlacesAt
<1>3. QED BY <1>1, <1>2 DEF OwnKept

LEMMA GiveUpKeepsOwn ==
    ASSUME TypeOK, NEW q \in Place, GiveUp(q), ws \in Conns, ws' = ws
    PROVE  OwnKept
<1>1. UNCHANGED sessionVars /\ Vacate(q) /\ seat_conn[q] = None
    BY DEF GiveUp, GivenUp
<1>2. \A p \in Place \ {q} :
        seat_account'[p] = seat_account[p] /\ seat_conn'[p] = seat_conn[p]
    BY <1>1 DEF Vacate, TypeOK
<1>3. \A p \in PlacesAt(ws) : p # q BY <1>1, NoneAssumption DEF PlacesAt
<1>4. PlacesAt(ws) # {} => PlacesAt(ws)' # {} BY <1>2, <1>3 DEF PlacesAt
<1>5. QED BY <1>1, <1>4 DEF OwnKept, sessionVars

\* Without a connection the page only forgets, or keeps what it shows.
LEMMA SavedStep ==
    ASSUME PageInv, [ClientNext]_clientVars, ~ \E c \in Conns : OnMessage(c)
    PROVE  view' # "login" => saved'
<1> view # "login" => saved BY DEF PageInv, SavedInv
<1>1. ASSUME NEW c \in Conns, Progress(c) \/ ConnectFails(c) \/ Cut(c)
      PROVE  saved' = saved /\ view' \in {view, "login"}
    <2>1. CASE Serve(c)
        BY <2>1 DEF Serve, LoginGranted, LoginDenied, ServerAct, Take, browserVars, viewVars
    <2>2. CASE ServerNotices(c) BY <2>2 DEF ServerNotices, browserVars, viewVars
    <2>3. QED BY <1>1, <2>1, <2>2
          DEF Progress, NewSocket, OnOpen, SocketClosed, ConnectFails, Cut, OnSocketClosed, viewVars
<1>2. CASE TimerFires BY <1>2 DEF TimerFires, viewVars
<1>3. CASE Reload BY <1>3 DEF Reload
<1>4. CASE Player BY <1>4 DEF Player, DoLogin, Click, browserVars, viewVars
<1>5. CASE ServerHeartbeat BY <1>5 DEF ServerHeartbeat, browserVars, viewVars
<1>6. CASE ServerGivesUp BY <1>6 DEF ServerGivesUp, browserVars, viewVars
<1>7. CASE UNCHANGED clientVars BY <1>7 DEF clientVars, browserVars, viewVars
<1>8. QED BY <1>1, <1>2, <1>3, <1>4, <1>5, <1>6, <1>7 DEF ClientNext

\* A socket that begins, fails or is lost leaves the page without a connection.
LEMMA PageUnlinks ==
    ASSUME TypeOK, TypesInv, WaysInv, NEW c \in Conns,
           \/ NewSocket(c) \/ ConnectFails(c) \/ Cut(c) \/ SocketClosed(c) \/ Reload
    PROVE  ~Linked'
<1> USE DEF TypesInv, Linked, WsOpen
<1>1. sock \in [Conns -> {"none", "connecting", "open"}] BY DEF PageTypes
<1>2. CASE NewSocket(c) BY <1>1, <1>2 DEF NewSocket
<1>3. CASE ConnectFails(c)
    <2>1. c = ws /\ ws' = ws /\ sock'[c] = "none"
        BY <1>1, <1>3, LiveIsLatest DEF ConnectFails
    <2>2. QED BY <2>1
<1>4. CASE Cut(c)
    <2>1. c = ws /\ ws' = ws /\ link'[c] # "open"
        BY <1>4, LiveIsLatest DEF Cut, Lose, pageVars, TypeOK
    <2>2. QED BY <2>1
<1>5. CASE SocketClosed(c)
    <2>1. c = ws /\ ws' = ws /\ sock'[c] = "none"
        BY <1>1, <1>5, LiveIsLatest DEF SocketClosed
    <2>2. QED BY <2>1
<1>6. CASE Reload BY <1>6 DEF Reload
<1>7. QED BY <1>2, <1>3, <1>4, <1>5, <1>6

LEMMA PageStep == ClientInv /\ [ClientNext]_clientVars => PageInv'
<1> SUFFICES ASSUME ClientInv, [ClientNext]_clientVars PROVE PageInv' OBVIOUS
<1> USE DEF ClientInv
<1> TypeOK BY DEF IInv
<1>1. ASSUME NEW c \in Conns, OnMessage(c) PROVE PageInv' BY <1>1, PageReads
<1>2. ASSUME NEW c \in Conns, OnOpen(c) PROVE PageInv' BY <1>2, PageOpens
<1>3. CASE ~ \E c \in Conns : OnMessage(c) \/ OnOpen(c)
    <2>1. CASE ~Linked' BY <1>3, <2>1, SavedStep, Unlinked
    <2>2. CASE Linked'
        <3>1. \A c \in Conns : ~(NewSocket(c) \/ ConnectFails(c) \/ Cut(c) \/ SocketClosed(c))
            BY <2>2, PageUnlinks
        <3>2. ~Reload BY <2>2 DEF Reload, Linked, WsOpen
        <3>3. ASSUME NEW c \in Conns, Serve(c) PROVE PageInv'
            <4>1. UNCHANGED <<link, browserVars>> /\ link[c] = "open" BY <3>3, ServeFrame
            <4>2. UNCHANGED <<ws, view, saved, sock>>
                BY <4>1 DEF browserVars, pageVars, viewVars
            <4>3. Linked BY <2>2, <4>1, <4>2 DEF Linked, WsOpen
            <4>4. CASE c = ws BY <3>3, <4>3, <4>4, PageServed
            <4>5. CASE c # ws
                <5>1. ws \in Conns \ {c} BY <4>3, <4>5 DEF Linked, WsOpen, TypesInv, PageTypes
                <5>2. OwnKept BY <3>3, <4>2, <5>1, OthersKeep
                <5>3. up'[ws] = up[ws] /\ down'[ws] = down[ws]
                    BY <3>3, <5>1, ServeFrame DEF TypesInv, QueueTypes
                <5>4. ws \in refused <=> ws \in refused'
                    BY <3>3, <4>5 DEF Serve, LoginGranted, LoginDenied
                <5>5. QED BY <4>2, <4>3, <5>2, <5>3, <5>4, PageKept
            <4>6. QED BY <4>4, <4>5
        <3>4. ASSUME NEW c \in Conns, ServerNotices(c) PROVE PageInv'
            <4>1. UNCHANGED <<ws, view, saved, sock, down, refused>> /\ OnClose(c)
                  /\ up' = [up EXCEPT ![c] = <<>>]
                BY <3>4 DEF ServerNotices, browserVars, pageVars, viewVars
            <4>2. link' = [link EXCEPT ![c] = "closed"] BY <4>1 DEF OnClose
            <4>3. c # ws /\ Linked BY <2>2, <4>1, <4>2 DEF Linked, WsOpen, TypeOK
            <4>4. ws \in Conns \ {c} BY <4>3 DEF Linked, WsOpen, TypesInv, PageTypes
            <4>5. OwnKept BY <4>1, <4>4, OthersKeep
            <4>6. up'[ws] = up[ws] BY <4>1, <4>4 DEF TypesInv, QueueTypes
            <4>7. QED BY <4>1, <4>3, <4>5, <4>6, PageKept
        <3>5. CASE ServerHeartbeat
            <4>1. PICK c \in Conns : Heartbeat({c}) BY <3>5 DEF ServerHeartbeat
            <4>2. UNCHANGED <<ws, view, saved, sock, up, down, refused>>
                BY <3>5 DEF ServerHeartbeat, browserVars, pageVars, viewVars, netVars
            <4>3. link' = [d \in Conns |-> IF d \in {c} THEN "closing" ELSE link[d]]
                BY <4>1 DEF Heartbeat
            <4>4. ws \in Conns BY <2>2, <4>2 DEF Linked, WsOpen, TypesInv, PageTypes
            <4>5. c # ws /\ Linked BY <2>2, <4>2, <4>3, <4>4 DEF Linked, WsOpen
            <4>6. OwnKept BY <4>1, <4>2, <4>4, <4>5, OthersKeep
            <4>7. QED BY <4>2, <4>5, <4>6, PageKept
        <3>6. CASE ServerGivesUp
            <4>1. PICK q \in Place : GiveUp(q) BY <3>6 DEF ServerGivesUp
            <4>2. UNCHANGED <<ws, view, saved, sock, up, down, refused>>
                BY <3>6 DEF ServerGivesUp, browserVars, pageVars, viewVars, netVars
            <4>3. UNCHANGED link BY <4>1 DEF GiveUp
            <4>4. Linked /\ ws \in Conns
                BY <2>2, <4>2, <4>3 DEF Linked, WsOpen, TypesInv, PageTypes
            <4>5. OwnKept BY <4>1, <4>2, <4>4, GiveUpKeepsOwn
            <4>6. QED BY <4>2, <4>4, <4>5, PageKept
        <3>7. CASE Player
            <4>1. UNCHANGED <<vars, sock, ws, view, down, refused>>
                BY <3>7 DEF Player, DoLogin, Click, browserVars, pageVars, viewVars
            <4>2. Linked BY <2>2, <4>1 DEF Linked, WsOpen, vars
            <4>3. PICK m \in Request :
                    /\ Send(m)
                    /\ IF m = "login" THEN view = "login" /\ saved'
                       ELSE view \in {"hall", "game"} /\ saved' = saved
                BY <3>7 DEF Player, DoLogin, Click, Request, browserVars, viewVars
            <4>4. up' = [up EXCEPT ![ws] = Append(@, m)]
                BY <4>2, <4>3 DEF Send, Linked
            <4>5. QED BY <4>1, <4>2, <4>3, <4>4, PageSends
        <3>8. CASE TimerFires \/ UNCHANGED clientVars
            <4>1. UNCHANGED <<vars, ws, view, saved, sock, up, down, refused>>
                BY <3>8 DEF TimerFires, clientVars, browserVars, pageVars, viewVars, netVars
            <4>2. Linked /\ OwnKept
                BY <2>2, <4>1 DEF Linked, WsOpen, OwnKept, PlacesAt, vars, sessionVars, seatVars
            <4>3. QED BY <4>1, <4>2, PageKept
        <3>9. QED BY <1>3, <3>1, <3>2, <3>3, <3>4, <3>5, <3>6, <3>7, <3>8
              DEF ClientNext, Progress
    <2>3. QED BY <2>1, <2>2
<1>4. QED BY <1>1, <1>2, <1>3

-----------------------------------------------------------------------------
(* Theorems *)

LEMMA ClientStep == patient /\ ClientInv /\ [ClientNext]_clientVars => ClientInv'
<1> SUFFICES ASSUME patient, ClientInv, [ClientNext]_clientVars PROVE ClientInv' OBVIOUS
<1>1. IInv' BY LobbyStep, NextIInv DEF ClientInv
<1>2. TypesInv' /\ WaysInv' BY QueueStep, WaysStep DEF ClientInv, TypesInv
<1>3. SocketsInv' BY SocketsStep DEF ClientInv, IInv
<1>4. OnlyMe' BY MeStep DEF ClientInv, TypesInv
<1>5. LoginFirst' BY FirstStep DEF ClientInv, PageInv
<1>6. PageInv' BY PageStep
<1>7. QED BY <1>1, <1>2, <1>3, <1>4, <1>5, <1>6 DEF ClientInv

\* Who waits goes on waiting.
LEMMA PatienceKept == [ClientNext]_clientVars => UNCHANGED patient
<1> SUFFICES ASSUME [ClientNext]_clientVars PROVE UNCHANGED patient OBVIOUS
<1>1. ASSUME NEW c \in Conns, Progress(c) \/ ConnectFails(c) \/ Cut(c) PROVE UNCHANGED patient
    <2>1. CASE Serve(c)
        BY <2>1 DEF Serve, LoginGranted, LoginDenied, ServerAct, Take, browserVars
    <2>2. QED BY <1>1, <2>1
          DEF Progress, NewSocket, OnOpen, SocketClosed, OnMessage, ServerNotices, ConnectFails,
              Cut, browserVars
<1>2. CASE TimerFires \/ Reload \/ Player
    BY <1>2 DEF TimerFires, Reload, Player, DoLogin, Click, browserVars
<1>3. CASE ServerHeartbeat \/ ServerGivesUp \/ UNCHANGED clientVars
    BY <1>3 DEF ServerHeartbeat, ServerGivesUp, clientVars, browserVars
<1>4. QED BY <1>1, <1>2, <1>3 DEF ClientNext

LEMMA ClientInvariance == ClientSpec => [](patient => ClientInv)
<1>1. ClientInit => (patient => ClientInv) BY InitClientInv
<1>2. (patient => ClientInv) /\ [ClientNext]_clientVars => (patient => ClientInv)'
    BY ClientStep, PatienceKept
<1>3. QED BY <1>1, <1>2, PTL DEF ClientSpec

\* What holds of any player: the page is typed, keeps trying, and the lobby
\* beside it is at its own.
AnyPlayer == IInv /\ TypesInv /\ RetryInv /\ OnlyMe

LEMMA AnyPlayerInit == ClientInit => AnyPlayer
<1> SUFFICES ASSUME ClientInit PROVE AnyPlayer
    OBVIOUS
<1>1. IInv /\ TypesInv /\ OnlyMe BY InitTyped
<1>2. RetryUnderWay
    <2>1. fetching > 0 BY DEF ClientInit
    <2>2. QED BY <2>1 DEF RetryUnderWay
<1>3. RetryInv BY <1>2 DEF ClientInit, RetryInv
<1>4. QED BY <1>1, <1>3 DEF AnyPlayer

LEMMA AnyPlayerTyped ==
    TypesInv /\ RetryInv /\ [ClientNext]_clientVars => TypesInv' /\ RetryInv'
    BY QueueStep, RetryStep DEF TypesInv

LEMMA PageHolds == ClientSpec => [](TypesInv /\ RetryInv)
<1>1. ClientInit => TypesInv /\ RetryInv BY AnyPlayerInit DEF AnyPlayer
<1>2. QED BY <1>1, AnyPlayerTyped, PTL DEF ClientSpec

\* However often the form is submitted, the page goes on until it has an open
\* socket or is out of tries (connect, onclose, the calls of setTimeout and
\* the clearTimeout of another socket's onopen).
THEOREM RetriesGoOn == ClientSpec => []RetryUnderWay
<1>1. RetryInv => RetryUnderWay BY DEF RetryInv
<1>2. QED BY <1>1, PageHolds, PTL

\* For a player who waits for the page to connect: when everything has been
\* answered the page shows what the server holds for its connection: the
\* hall, a room, or nobody.
THEOREM ViewIsTrue == ClientSpec => []ViewMatchesServer
<1>1. (patient => ClientInv) => ViewMatchesServer
    <2> SUFFICES ASSUME ClientInv, Settled, WsOpen, ws \notin refused
                 PROVE  TrueView(view)
        BY DEF ViewMatchesServer, TrueView, InLobby, InRoom
    <2>1. ws \in Conns /\ sock[ws] = "open"
        BY DEF ClientInv, TypesInv, PageTypes, WsOpen
    <2>2. ws \in Live BY <2>1 DEF Live
    <2>3. Linked /\ up[ws] = <<>> /\ down[ws] = <<>> BY <2>1, <2>2 DEF Settled, Linked
    <2>4. ~Occurs("login", <<>>) /\ AllErrors(<<>>) BY DEF Occurs, AllErrors
    <2>5. QED BY <2>3, <2>4 DEF ClientInv, PageInv, ViewInv
<1>2. QED BY <1>1, ClientInvariance, PTL

\* The browser beside it makes the lobby do nothing that Lobby does not allow,
\* however many ways to the server the player opens: what is proved of Lobby
\* holds of the server behind the page.
THEOREM LobbyUnderClient == ClientSpec => Spec
<1>1. ClientInit => Init BY DEF ClientInit
<1>2. CASE LoginTwice
    <2>1. LoginFirst BY <1>2 DEF LoginFirst
    <2>2. AnyPlayer /\ [ClientNext]_clientVars => [Next]_vars
        BY <2>1, LobbyStep DEF AnyPlayer
    <2>3. AnyPlayer /\ [ClientNext]_clientVars => AnyPlayer'
        BY <2>2, NextIInv, AnyPlayerTyped, MeStep DEF AnyPlayer, TypesInv
    <2>4. QED BY <1>1, <2>2, <2>3, AnyPlayerInit, PTL DEF ClientSpec, Spec
<1>3. CASE ~LoginTwice
    <2>1. ClientInit => patient /\ ClientInv BY <1>3, InitClientInv DEF ClientInit
    <2>2. patient /\ ClientInv /\ [ClientNext]_clientVars => (patient /\ ClientInv)'
        BY ClientStep, PatienceKept
    <2>3. ClientInv /\ [ClientNext]_clientVars => [Next]_vars BY LobbyStep DEF ClientInv
    <2>4. QED BY <1>1, <2>1, <2>2, <2>3, PTL DEF ClientSpec, Spec
<1>4. QED BY <1>2, <1>3
=============================================================================
