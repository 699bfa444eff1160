-------------------------------- MODULE Game --------------------------------
(***************************************************************************)
(* One small game (class Game): calling, robbing, doubling, playing and    *)
(* settling, from the first deal until the room drops the object.  The     *)
(* room decides what happens when all three seats pass the call: it picks  *)
(* a new pack, and takes no game message until it is dealt (Room).         *)
(*                                                                         *)
(* A hand holds different cards, so it is a set here: remove_cards refuses *)
(* a play that names a card twice.                                         *)
(***************************************************************************)
EXTENDS Cards, Sequences

CONSTANTS
    Packs,          \* the packs that may be dealt: three hands and the bottom
    BaseScore,      \* cfg_.base_score
    ThreadMayFail,  \* whether the thread that picks a new pack may fail to start
    MaxDeals        \* bound: deals of one small game

Seat == 0..2
NoSeat == -1

IsPack(p) ==
    /\ p.hands \in [Seat -> SUBSET Card]
    /\ p.bottom \in SUBSET Card
    /\ \A s \in Seat : p.hands[s] # {} /\ p.hands[s] \cap p.bottom = {}
    /\ \A s, t \in Seat : s # t => p.hands[s] \cap p.hands[t] = {}

ASSUME PacksAssumption == \A p \in Packs : IsPack(p)
ASSUME BaseScoreAssumption == BaseScore \in Int
ASSUME GameThreadMayFailAssumption == ThreadMayFail \in BOOLEAN
ASSUME MaxDealsAssumption == MaxDeals \in Nat \ {0}

VARIABLES
    phase, first_caller, caller, actor, landlord,
    called_no, rob_done,            \* the seats whose flag is set
    anyone_robbed, rob_count, public_mult,
    hands, bottom, bottom_revealed,
    double_chosen, double_yes,      \* the seats whose flag is set
    last_play,                      \* NoPlay, or the play on the table
    consecutive_pass, play_count, bomb_rocket_count,
    winner_side, spring,
    dealing,        \* Room::dealing: nobody called, and a new pack is picked
    answers,        \* history: the answers to rob, in order
    deals,          \* history: packs dealt so far
    dealt,          \* history: the pack as it was dealt
    table           \* history: the cards played so far

auctionVars == <<first_caller, caller, called_no, rob_done, anyone_robbed, rob_count, answers>>
doubleVars  == <<double_chosen, double_yes>>
cardVars    == <<hands, bottom, bottom_revealed, table>>
playVars    == <<last_play, consecutive_pass, play_count, bomb_rocket_count>>
endVars     == <<winner_side, spring>>
dealVars    == <<dealing, deals, dealt>>
vars == <<phase, actor, landlord, public_mult, auctionVars, doubleVars, cardVars, playVars,
          endVars, dealVars>>

NoPlay == [seat |-> NoSeat]

Answer == [seat : Seat, yes : BOOLEAN]

next_seat(s) == (s + 1) % 3

base_score == IF BaseScore < 1 THEN 1 ELSE BaseScore

-----------------------------------------------------------------------------
(* Calling and robbing *)

\* start_deal, on a new small game.
Init ==
    /\ phase = "call"
    /\ first_caller \in Seat /\ actor = first_caller
    /\ caller = NoSeat /\ landlord = NoSeat
    /\ called_no = {} /\ rob_done = {}
    /\ anyone_robbed = FALSE /\ rob_count = 0 /\ answers = <<>>
    /\ public_mult = base_score
    /\ double_chosen = {} /\ double_yes = {}
    /\ last_play = NoPlay /\ consecutive_pass = 0
    /\ play_count = [s \in Seat |-> 0] /\ bomb_rocket_count = 0
    /\ winner_side = "" /\ spring = "none"
    /\ dealt \in Packs
    /\ hands = dealt.hands /\ bottom = dealt.bottom
    /\ bottom_revealed = FALSE /\ table = {}
    /\ dealing = FALSE /\ deals = 1

\* start_deal, on the small game nobody called.
Redeal(first, pack) ==
    /\ dealing
    /\ phase' = "call"
    /\ first_caller' = first /\ actor' = first
    /\ caller' = NoSeat /\ landlord' = NoSeat
    /\ called_no' = {} /\ rob_done' = {}
    /\ anyone_robbed' = FALSE /\ rob_count' = 0 /\ answers' = <<>>
    /\ public_mult' = base_score
    /\ double_chosen' = {} /\ double_yes' = {}
    /\ last_play' = NoPlay /\ consecutive_pass' = 0
    /\ play_count' = [s \in Seat |-> 0] /\ bomb_rocket_count' = 0
    /\ winner_side' = "" /\ spring' = "none"
    /\ dealt' = pack
    /\ hands' = pack.hands /\ bottom' = pack.bottom
    /\ bottom_revealed' = FALSE /\ table' = {}
    /\ dealing' = FALSE /\ deals' = deals + 1

\* The bottom replaces the landlord's hand.
Reveal_Replaces(l) ==
    /\ hands' = [hands EXCEPT ![l] = bottom]
    /\ bottom_revealed' = TRUE
    /\ phase' = "double"
    /\ actor' = NoSeat
    /\ double_chosen' = {} /\ double_yes' = {}

\* reveal, for the landlord its caller has settled on.
Reveal(l) ==
    /\ hands' = [hands EXCEPT ![l] = @ \cup bottom]
    /\ bottom_revealed' = TRUE
    /\ phase' = "double"
    /\ actor' = NoSeat
    /\ double_chosen' = {} /\ double_yes' = {}

MayRob(s, c, done, robbed) ==
    /\ s \notin done
    /\ s \notin called_no
    /\ s = c => robbed

\* next_rob_actor, as the set of the seat it finds.
NextRobActor(from, c, done, robbed) ==
    LET second == next_seat(from)
        third == next_seat(second)
    IN  IF MayRob(from, c, done, robbed) THEN {from}
        ELSE {s \in {second, third} :
                /\ MayRob(s, c, done, robbed)
                /\ s = third => ~MayRob(second, c, done, robbed)}

\* The next seat is asked, or the auction is over and l is the landlord.
AskOrReveal(from, c, done, robbed, l) ==
    LET next == NextRobActor(from, c, done, robbed)
    IN  \/ /\ next # {}
           /\ phase' = "rob"
           /\ actor' \in next
           /\ UNCHANGED <<hands, bottom_revealed, doubleVars>>
        \/ next = {} /\ Reveal(l)

CallLandlord(s) ==
    /\ phase = "call" /\ ~dealing /\ s = actor
    /\ caller' = s /\ landlord' = s
    /\ rob_done' = {} /\ anyone_robbed' = FALSE /\ answers' = <<>>
    /\ AskOrReveal(next_seat(s), s, {}, FALSE, s)
    /\ UNCHANGED <<first_caller, called_no, rob_count, public_mult, bottom, table, playVars,
                   endVars, dealVars>>

PassCall(s) ==
    /\ phase = "call" /\ ~dealing /\ s = actor
    /\ next_seat(s) # first_caller
    /\ called_no' = called_no \cup {s}
    /\ actor' = next_seat(s)
    /\ UNCHANGED <<phase, landlord, public_mult, first_caller, caller, rob_done,
                   anyone_robbed, rob_count, answers, doubleVars, cardVars, playVars, endVars,
                   dealVars>>

\* The third seat passes too.  If the thread that picks the new pack fails to
\* start, the game stays as it is, and this seat is asked again.
CallRedeal(s) ==
    /\ phase = "call" /\ ~dealing /\ s = actor
    /\ next_seat(s) = first_caller
    /\ deals < MaxDeals
    /\ called_no' = called_no \cup {s}
    /\ \E started \in {TRUE, ~ThreadMayFail} : dealing' = started
    /\ UNCHANGED <<phase, actor, landlord, public_mult, first_caller, caller, rob_done,
                   anyone_robbed, rob_count, answers, doubleVars, cardVars, playVars, endVars,
                   deals, dealt>>

\* Who robbed first stays the landlord.
Rob_FirstKeeps(s) ==
    LET l == IF anyone_robbed THEN landlord ELSE s
    IN  /\ phase = "rob" /\ s = actor
        /\ rob_done' = rob_done \cup {s}
        /\ answers' = Append(answers, [seat |-> s, yes |-> TRUE])
        /\ anyone_robbed' = TRUE
        /\ rob_count' = rob_count + 1
        /\ landlord' = l
        /\ public_mult' = public_mult * 2
        /\ AskOrReveal(next_seat(s), caller, rob_done \cup {s}, TRUE, l)
        /\ UNCHANGED <<first_caller, caller, called_no, bottom, table, playVars, endVars,
                       dealVars>>

Rob(s) ==
    /\ phase = "rob" /\ s = actor
    /\ rob_done' = rob_done \cup {s}
    /\ answers' = Append(answers, [seat |-> s, yes |-> TRUE])
    /\ anyone_robbed' = TRUE
    /\ rob_count' = rob_count + 1
    /\ landlord' = s
    /\ public_mult' = public_mult * 2
    /\ AskOrReveal(next_seat(s), caller, rob_done \cup {s}, TRUE, s)
    /\ UNCHANGED <<first_caller, caller, called_no, bottom, table, playVars, endVars, dealVars>>

PassRob(s) ==
    /\ phase = "rob" /\ s = actor
    /\ rob_done' = rob_done \cup {s}
    /\ answers' = Append(answers, [seat |-> s, yes |-> FALSE])
    /\ AskOrReveal(next_seat(s), caller, rob_done \cup {s}, anyone_robbed, landlord)
    /\ UNCHANGED <<landlord, public_mult, first_caller, caller, called_no, anyone_robbed,
                   rob_count, bottom, table, playVars, endVars, dealVars>>

-----------------------------------------------------------------------------
(* Doubling, playing, settling *)

\* on_double; begin_play when it is the third choice.
Double(s, yes) ==
    /\ phase = "double"
    /\ s \notin double_chosen
    /\ double_chosen' = double_chosen \cup {s}
    /\ double_yes' = IF yes THEN double_yes \cup {s} ELSE double_yes
    /\ IF double_chosen' = Seat
       THEN /\ phase' = "play"
            /\ actor' = landlord
            /\ last_play' = NoPlay
            /\ consecutive_pass' = 0
       ELSE UNCHANGED <<phase, actor, last_play, consecutive_pass>>
    /\ UNCHANGED <<landlord, public_mult, auctionVars, cardVars, play_count,
                   bomb_rocket_count, endVars, dealVars>>

\* The caller is taken for the landlord, who may have changed since.
landlord_win_Caller(winner) == winner = caller
landlord_win(winner) == winner = landlord

\* One farmer who never played is enough.
Settle_OneFarmer(winner, count) ==
    LET farmers == Seat \ {landlord}
    IN  /\ phase' = "settle"
        /\ actor' = NoSeat
        /\ winner_side' = IF landlord_win(winner) THEN "landlord" ELSE "farmer"
        /\ spring' =
              CASE landlord_win(winner) /\ (\E f \in farmers : count[f] = 0) -> "spring"
                [] ~landlord_win(winner) /\ count[landlord] = 1 -> "anti"
                [] OTHER -> "none"

\* settle, with the play counts its caller has just updated.
Settle(winner, count) ==
    LET farmers == Seat \ {landlord}
    IN  /\ phase' = "settle"
        /\ actor' = NoSeat
        /\ winner_side' = IF landlord_win(winner) THEN "landlord" ELSE "farmer"
        /\ spring' =
              CASE landlord_win(winner) /\ (\A f \in farmers : count[f] = 0) -> "spring"
                [] ~landlord_win(winner) /\ count[landlord] = 1 -> "anti"
                [] OTHER -> "none"

\* resolve_play: the cards a seat could hold, with each pattern they make.
LegalPlays ==
    LET holdings == UNION {SUBSET (p.hands[s] \cup p.bottom) : p \in Packs, s \in Seat}
    IN  UNION {{[cards |-> c, hit |-> h] : h \in all_hits(counts_of(c))} : c \in holdings}

IsBomb(hit) == hit.pattern \in {"bomb", "rocket"}

\* on_play.  The player may name the pattern, and must if there are several.
\* A rejected play changes nothing.
Play(s, cards, hit) ==
    LET play == [seat |-> s, pattern |-> hit.pattern, key |-> hit.key,
                 size |-> Cardinality(cards)]
    IN  /\ phase = "play" /\ s = actor
        /\ cards # {} /\ cards \subseteq hands[s]
        /\ last_play # NoPlay => beats(last_play, play)
        /\ hands' = [hands EXCEPT ![s] = @ \ cards]
        /\ table' = table \cup cards
        /\ bomb_rocket_count' = IF IsBomb(hit) THEN bomb_rocket_count + 1 ELSE bomb_rocket_count
        /\ public_mult' = IF IsBomb(hit) THEN public_mult * 2 ELSE public_mult
        /\ play_count' = [play_count EXCEPT ![s] = @ + 1]
        /\ last_play' = play
        /\ consecutive_pass' = 0
        /\ IF hands[s] = cards
           THEN Settle(s, play_count')
           ELSE actor' = next_seat(s) /\ UNCHANGED <<phase, endVars>>
        /\ UNCHANGED <<landlord, auctionVars, doubleVars, bottom, bottom_revealed, dealVars>>

\* The third pass ends the trick.
TrickOver_AtThree == consecutive_pass + 1 >= 3

TrickOver == consecutive_pass + 1 >= 2

\* on_pass: after two passes the last play's seat leads again.
Pass(s) ==
    /\ phase = "play" /\ s = actor
    /\ last_play # NoPlay
    /\ IF TrickOver
       THEN actor' = last_play.seat /\ last_play' = NoPlay /\ consecutive_pass' = 0
       ELSE actor' = next_seat(s) /\ consecutive_pass' = consecutive_pass + 1
                                  /\ UNCHANGED last_play
    /\ UNCHANGED <<phase, landlord, public_mult, auctionVars, doubleVars, cardVars, play_count,
                   bomb_rocket_count, endVars, dealVars>>

PlaySome(s) == \E play \in LegalPlays : Play(s, play.cards, play.hit)

-----------------------------------------------------------------------------
(* Scores *)

display_mult == IF spring # "none" THEN public_mult * 2 ELSE public_mult

Factor(s) == IF s \in double_yes THEN 2 ELSE 1

farmer_u(f) == display_mult * Factor(landlord) * Factor(f)

seat_mult(s) ==
    IF landlord = NoSeat THEN display_mult
    ELSE IF s = landlord
         THEN farmer_u(next_seat(s)) + farmer_u(next_seat(next_seat(s)))
         ELSE farmer_u(s)

Wins(s) == (s = landlord) <=> (winner_side = "landlord")

\* The landlord settles with one farmer only.
seat_score_LandlordOnce(s) ==
    IF phase # "settle" THEN 0
    ELSE IF Wins(s) THEN farmer_u(s) ELSE -farmer_u(s)

seat_score(s) ==
    IF phase # "settle" \/ winner_side = "" THEN 0
    ELSE IF Wins(s) THEN seat_mult(s) ELSE -seat_mult(s)

-----------------------------------------------------------------------------
SeatStep(s) ==
    \/ CallLandlord(s) \/ PassCall(s) \/ CallRedeal(s)
    \/ Rob(s) \/ PassRob(s)
    \/ \E yes \in BOOLEAN : Double(s, yes)
    \/ PlaySome(s) \/ Pass(s)

\* A settled game stays as it is until the room drops it.
Settled == phase = "settle" /\ UNCHANGED vars

Next ==
    \/ \E s \in Seat : SeatStep(s)
    \/ \E first \in Seat, pack \in Packs : Redeal(first, pack)
    \/ Settled

Spec == Init /\ [][Next]_vars

-----------------------------------------------------------------------------
(* Properties *)

\* The fields of class Game have their types.  Which pattern and key a play may
\* have is for Cards.
AuctionOK ==
    /\ phase \in {"call", "rob", "double", "play", "settle"}
    /\ first_caller \in Seat
    /\ {caller, actor, landlord} \subseteq Seat \cup {NoSeat}
    /\ called_no \subseteq Seat /\ rob_done \subseteq Seat
    /\ anyone_robbed \in BOOLEAN
    /\ rob_count \in Nat /\ public_mult \in Nat \ {0}
    /\ answers \in Seq(Answer)

CardsOK ==
    /\ hands \in [Seat -> SUBSET Card]
    /\ bottom \subseteq Card /\ table \subseteq Card
    /\ bottom_revealed \in BOOLEAN
    /\ dealt \in Packs

PlayOK ==
    /\ double_chosen \subseteq Seat /\ double_yes \subseteq double_chosen
    /\ last_play # NoPlay => last_play.seat \in Seat /\ last_play.size \in Nat \ {0}
    /\ consecutive_pass \in 0..1
    /\ play_count \in [Seat -> Nat] /\ bomb_rocket_count \in Nat
    /\ winner_side \in {"", "landlord", "farmer"}
    /\ spring \in {"none", "spring", "anti"}

DealsOK ==
    /\ dealing \in BOOLEAN
    /\ deals \in 1..MaxDeals

TypeOK == AuctionOK /\ CardsOK /\ PlayOK /\ DealsOK

\* The cards a seat was given: its hand, and the bottom for the landlord.
Given(s) ==
    dealt.hands[s] \cup IF bottom_revealed /\ s = landlord THEN dealt.bottom ELSE {}

\* Every card is where it belongs: with the seat it was given to, or, once
\* played, on the table; none in two places, none lost.
NoCardLost ==
    /\ bottom = dealt.bottom
    /\ \A s \in Seat : hands[s] \subseteq Given(s) /\ hands[s] \cap table = {}
    /\ table \cup UNION {hands[s] : s \in Seat} = UNION {Given(s) : s \in Seat}

\* Who has answered, which answers took the landlord, and when a seat's turn is:
\* the seat after the caller first, the caller last.
Asked == {answers[i].seat : i \in DOMAIN answers}
Robs == {i \in DOMAIN answers : answers[i].yes}
RobTurn(s) == (s - caller + 2) % 3

\* The last who took the landlord: the caller took it first, by calling.
TookLast(s) ==
    IF Robs = {} THEN s = caller
    ELSE \E i \in Robs : s = answers[i].seat /\ \A j \in Robs : j <= i

\* Robbing asks each seat once and in turn, but no seat that passed the call,
\* and the caller only when somebody has robbed.  When it is over every such
\* seat has been asked, so that the caller always has the chance to rob back;
\* the landlord is the last who took it, and each rob counts once.
AuctionFair ==
    /\ \A i \in DOMAIN answers :
          /\ answers[i].seat \notin called_no
          /\ answers[i].seat = caller => \E j \in Robs : j < i
          /\ \A j \in 1..(i - 1) : RobTurn(answers[j].seat) < RobTurn(answers[i].seat)
    /\ phase \in {"double", "play", "settle"} =>
          /\ Seat \ {caller} \subseteq Asked \cup called_no
          /\ Robs # {} => caller \in Asked
    /\ phase # "call" => TookLast(landlord)
    /\ rob_count = Cardinality(Robs)

\* In a trick the turn goes round from the last play and never comes back to
\* the seat it would have to beat; a seat that leads owes nobody a pass.
TurnOrder ==
    phase = "play" =>
        /\ actor \in Seat
        /\ IF last_play = NoPlay THEN consecutive_pass = 0
           ELSE actor = (last_play.seat + 1 + consecutive_pass) % 3 /\ actor # last_play.seat

\* The small game is over exactly when a seat has no cards left; its side wins.
OutMeansOver ==
    /\ phase = "settle" <=> \E s \in Seat : hands[s] = {}
    /\ phase = "settle" => \A s \in Seat : hands[s] = {} => Wins(s)

\* Spring: the farmers still hold the hands they were dealt.  Anti-spring: the
\* landlord led once and never played again.
SpringMeansUntouched ==
    phase = "settle" =>
        /\ spring = "spring" <=> \A f \in Seat \ {landlord} : hands[f] = dealt.hands[f]
        /\ spring = "anti" <=> winner_side = "farmer" /\ play_count[landlord] = 1
        /\ play_count[landlord] >= 1

\* The doublings a farmer's score went through.
Doublings(f) ==
    rob_count + bomb_rocket_count + Cardinality(double_yes \cap {landlord, f})
        + (IF spring # "none" THEN 1 ELSE 0)

\* The landlord wins from, or loses to, each farmer the base score, doubled for
\* every rob, bomb, rocket, spring and choice to double of the two.
ScoresSettle ==
    phase = "settle" =>
        /\ seat_score(0) + seat_score(1) + seat_score(2) = 0
        /\ \A f \in Seat \ {landlord} :
              seat_score(f) = base_score * 2^Doublings(f) * (IF Wins(f) THEN 1 ELSE -1)

CardsInHands == Cardinality(UNION {hands[s] : s \in Seat})
MovesLeft == 3 * CardsInHands + IF last_play = NoPlay THEN 0 ELSE 2 - consecutive_pass

\* A small game cannot go on for ever: passes run out between plays, and plays
\* run out of cards.
MovesRunOut == [][phase = "play" /\ phase' = "play" => MovesLeft' < MovesLeft]_vars

\* The small game is what the room expects of it: called, played, over, with an
\* outcome only at the end.  Redeals happen before the call.
Small == INSTANCE SmallGame WITH
    Stake <- base_score,
    stage <- CASE phase = "call" -> "call"
               [] phase = "settle" -> "over"
               [] OTHER -> "play",
    score <- [s \in Seat |-> seat_score(s)]

ImplementsSmallGame == Small!Spec

=============================================================================
