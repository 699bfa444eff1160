----------------------------- MODULE GameProofs -----------------------------
(***************************************************************************)
(* For any packs of three hands and a bottom: the auction is fair, turns   *)
(* go round, no card is lost, and the small game is over when a hand is    *)
(* empty; and the game refines the abstract small game.  The invariant     *)
(* says what each phase has settled.                                       *)
(***************************************************************************)
EXTENDS Game, FiniteSetTheorems, TLAPS

second_seat(s) == next_seat(next_seat(s))

\* A search from any seat meets all three.
LEMMA ThreeSeats ==
    ASSUME NEW s \in Seat
    PROVE  /\ next_seat(s) \in Seat /\ second_seat(s) \in Seat
           /\ Seat = {s, next_seat(s), second_seat(s)}
           /\ s # next_seat(s) /\ s # second_seat(s) /\ next_seat(s) # second_seat(s)
           /\ next_seat(second_seat(s)) = s
<1>1. s = 0 \/ s = 1 \/ s = 2 BY DEF Seat
<1>2. next_seat(0) = 1 /\ next_seat(1) = 2 /\ next_seat(2) = 0 BY DEF next_seat
<1>3. Seat = {0, 1, 2} BY DEF Seat
<1>4. QED BY <1>1, <1>2, <1>3 DEF second_seat

\* NextRobActor finds the first seat in turn that may rob, if there is one.
LEMMA RobActorFound ==
    ASSUME NEW from \in Seat, NEW c, NEW done, NEW robbed,
           NEW s \in NextRobActor(from, c, done, robbed)
    PROVE  /\ s \in Seat /\ MayRob(s, c, done, robbed)
           /\ s # from => ~MayRob(from, c, done, robbed)
           /\ s = second_seat(from) => ~MayRob(next_seat(from), c, done, robbed)
<1>1. CASE MayRob(from, c, done, robbed)
    <2>1. s = from BY <1>1 DEF NextRobActor
    <2>2. s # second_seat(from) BY <2>1, ThreeSeats
    <2>3. QED BY <1>1, <2>1, <2>2
<1>2. CASE ~MayRob(from, c, done, robbed)
    <2>1. /\ s \in {next_seat(from), second_seat(from)}
          /\ MayRob(s, c, done, robbed)
          /\ s = second_seat(from) => ~MayRob(next_seat(from), c, done, robbed)
        BY <1>2 DEF NextRobActor, second_seat
    <2>2. s \in Seat BY <2>1, ThreeSeats
    <2>3. QED BY <1>2, <2>1, <2>2
<1>3. QED BY <1>1, <1>2

LEMMA NoRobActor ==
    ASSUME NEW from \in Seat, NEW c, NEW done, NEW robbed,
           NextRobActor(from, c, done, robbed) = {},
           NEW s \in Seat
    PROVE  ~MayRob(s, c, done, robbed)
<1>1. ~MayRob(from, c, done, robbed)
    BY DEF NextRobActor
<1>2. ~MayRob(next_seat(from), c, done, robbed)
    <2>1. SUFFICES ASSUME MayRob(next_seat(from), c, done, robbed) PROVE FALSE
        OBVIOUS
    <2>2. next_seat(from) # second_seat(from) BY ThreeSeats
    <2>3. next_seat(from) \in NextRobActor(from, c, done, robbed)
        BY <1>1, <2>1, <2>2 DEF NextRobActor, second_seat
    <2>4. QED BY <2>3
<1>3. ~MayRob(second_seat(from), c, done, robbed)
    BY <1>1, <1>2 DEF NextRobActor, second_seat
<1>4. QED BY <1>1, <1>2, <1>3, ThreeSeats

-----------------------------------------------------------------------------
(* The invariant *)

Before == {"call", "rob"}
After  == {"double", "play", "settle"}

\* What the auction has settled in each phase.
AuctionInv ==
    /\ phase \in Before \cup After
    /\ first_caller \in Seat
    /\ called_no \subseteq Seat /\ rob_done \subseteq Seat
    /\ rob_count \in Nat /\ (rob_count = 0 <=> ~anyone_robbed)
    /\ phase = "call" =>
          /\ actor \in Seat
          /\ caller = NoSeat /\ rob_done = {} /\ ~anyone_robbed
    /\ phase # "call" =>
          /\ caller \in Seat /\ landlord \in Seat
          /\ caller \in rob_done => anyone_robbed
          /\ landlord # caller => landlord \in rob_done /\ anyone_robbed
    /\ phase = "rob" =>
          /\ actor \in Seat \ (rob_done \cup called_no)
          /\ actor = caller =>
                anyone_robbed /\ Seat \ {caller} \subseteq rob_done \cup called_no
          /\ actor = second_seat(caller) => next_seat(caller) \in rob_done \cup called_no
    /\ phase \in After =>
          /\ Seat \ {caller} \subseteq rob_done \cup called_no
          /\ anyone_robbed => caller \in rob_done \cup called_no

\* Where the cards are in each phase.
CardInv ==
    /\ dealt \in Packs /\ bottom = dealt.bottom
    /\ hands \in [Seat -> SUBSET Card]
    /\ phase \in Before => ~bottom_revealed /\ table = {} /\ hands = dealt.hands
    /\ phase \in After => bottom_revealed
    /\ \A s \in Seat : hands[s] \subseteq Given(s) /\ hands[s] \cap table = {}
    /\ table \cup UNION {hands[s] : s \in Seat} = UNION {Given(s) : s \in Seat}

\* Only a settled game has an empty hand, and only one.
OutInv ==
    /\ phase # "settle" => \A s \in Seat : hands[s] # {}
    /\ phase = "settle" =>
          \E w \in Seat : /\ hands[w] = {} /\ Wins(w)
                          /\ \A s \in Seat \ {w} : hands[s] # {}

\* The turn goes round from the last play.
TurnInv ==
    /\ phase = "play" => actor \in Seat
    /\ phase = "play" /\ last_play = NoPlay => consecutive_pass = 0
    /\ phase = "play" /\ last_play # NoPlay =>
          /\ last_play.seat \in Seat
          /\ \/ consecutive_pass = 0 /\ actor = next_seat(last_play.seat)
             \/ consecutive_pass = 1 /\ actor = second_seat(last_play.seat)

IInv == AuctionInv /\ CardInv /\ OutInv /\ TurnInv

\* Every hand of a pack has cards, and they are cards of that hand only.
LEMMA PackHands ==
    ASSUME NEW p \in Packs
    PROVE  /\ p.hands \in [Seat -> SUBSET Card] /\ p.bottom \in SUBSET Card
           /\ \A s \in Seat : p.hands[s] # {}
    BY PacksAssumption DEF IsPack

\* What one seat was given, no other seat was.
LEMMA GivenApart ==
    ASSUME dealt \in Packs, NEW s \in Seat, NEW t \in Seat, s # t
    PROVE  Given(s) \cap Given(t) = {}
<1>1. /\ dealt.hands[s] \cap dealt.hands[t] = {}
      /\ dealt.hands[s] \cap dealt.bottom = {} /\ dealt.hands[t] \cap dealt.bottom = {}
    BY PacksAssumption DEF IsPack
<1>2. ~(s = landlord /\ t = landlord) OBVIOUS
<1>3. QED BY <1>1, <1>2 DEF Given

LEMMA HandsApart ==
    ASSUME CardInv, NEW s \in Seat, NEW t \in Seat, s # t
    PROVE  hands[s] \cap hands[t] = {}
    BY GivenApart DEF CardInv

-----------------------------------------------------------------------------
(* Auction *)

LEMMA InitInv == Init => IInv
<1> SUFFICES ASSUME Init PROVE IInv
    OBVIOUS
<1>1. AuctionInv BY DEF Init, AuctionInv, Before, After
<1>2. CardInv
    <2>1. \A s \in Seat : hands[s] = Given(s) BY DEF Init, Given
    <2>2. hands \in [Seat -> SUBSET Card] BY PackHands DEF Init
    <2>3. UNION {hands[s] : s \in Seat} = UNION {Given(s) : s \in Seat} BY <2>1
    <2>4. QED BY <2>1, <2>2, <2>3 DEF Init, CardInv, Before, After
<1>3. OutInv BY PackHands DEF Init, OutInv
<1>4. TurnInv BY DEF Init, TurnInv
<1>5. QED BY <1>1, <1>2, <1>3, <1>4 DEF IInv

\* The step that asks the next seat to rob, or reveals the bottom: s is the
\* seat that has just been asked, or has just called.
LEMMA AuctionStep ==
    ASSUME IInv, phase \in Before, NEW s \in Seat, NEW c \in Seat, NEW l \in Seat,
           NEW done \in SUBSET Seat, NEW robbed,
           AskOrReveal(next_seat(s), c, done, robbed, l),
           caller' = c, rob_done' = done, anyone_robbed' = robbed, landlord' = l,
           first_caller' = first_caller, called_no' = called_no,
           rob_count' \in Nat, rob_count' = 0 <=> ~robbed,
           c \in done => robbed,
           l # c => l \in done /\ robbed,
           s = c => \/ ~robbed
                    \/ Seat \ {c} \subseteq done \cup called_no,
           s = c \/ s \in done,
           s = second_seat(c) => next_seat(c) \in done \cup called_no
    PROVE  AuctionInv'
<1> DEFINE from == next_seat(s)
<1>1. from \in Seat BY ThreeSeats
<1>2. CASE NextRobActor(from, c, done, robbed) # {}
    <2>1. phase' = "rob" /\ actor' \in NextRobActor(from, c, done, robbed)
        BY <1>2 DEF AskOrReveal
    <2>2. /\ actor' \in Seat /\ MayRob(actor', c, done, robbed)
          /\ actor' # from => ~MayRob(from, c, done, robbed)
          /\ actor' = second_seat(from) => ~MayRob(next_seat(from), c, done, robbed)
        BY <1>1, <2>1, RobActorFound
    <2>3. actor' = c => robbed /\ Seat \ {c} \subseteq done \cup called_no
        BY <2>2, ThreeSeats DEF MayRob, second_seat
    <2>4. actor' = second_seat(c) => next_seat(c) \in done \cup called_no
        BY <2>2, ThreeSeats DEF MayRob, second_seat
    <2>5. actor' \in Seat \ (done \cup called_no)
        BY <2>2 DEF MayRob
    <2>6. QED BY <2>1, <2>3, <2>4, <2>5 DEF IInv, AuctionInv, Before, After
<1>3. CASE NextRobActor(from, c, done, robbed) = {}
    <2>1. phase' = "double" BY <1>3 DEF AskOrReveal, Reveal
    <2>2. \A t \in Seat : ~MayRob(t, c, done, robbed)
        BY <1>1, <1>3, NoRobActor
    <2>3. Seat \ {c} \subseteq done \cup called_no BY <2>2 DEF MayRob
    <2>4. robbed => c \in done \cup called_no BY <2>2 DEF MayRob
    <2>5. QED BY <2>1, <2>3, <2>4 DEF IInv, AuctionInv, Before, After
<1>4. QED BY <1>2, <1>3

\* The same step for the cards: the landlord gets the bottom on top.
LEMMA RevealCards ==
    ASSUME IInv, phase \in Before, NEW from, NEW c, NEW l \in Seat, NEW done, NEW robbed,
           AskOrReveal(from, c, done, robbed, l), landlord' = l,
           bottom' = bottom, table' = table, dealt' = dealt
    PROVE  CardInv' /\ OutInv' /\ TurnInv'
<1>1. CASE phase' = "rob" /\ UNCHANGED <<hands, bottom_revealed>>
    <2>1. CardInv' BY <1>1 DEF IInv, CardInv, Before, After, Given
    <2>2. OutInv' BY <1>1 DEF IInv, OutInv, Before
    <2>3. TurnInv' BY <1>1 DEF TurnInv
    <2>4. QED BY <2>1, <2>2, <2>3
<1>2. CASE Reveal(l)
    <2>1. /\ phase' = "double" /\ bottom_revealed'
          /\ hands' = [dealt.hands EXCEPT ![l] = @ \cup dealt.bottom]
        BY <1>2 DEF Reveal, IInv, CardInv
    <2>2. dealt.hands \in [Seat -> SUBSET Card] /\ dealt.bottom \in SUBSET Card
        BY PackHands DEF IInv, CardInv
    <2>3. table' = {} BY DEF IInv, CardInv
    <2>4. \A s \in Seat : hands'[s] = Given(s)'
        BY <2>1, <2>2 DEF Given
    <2>5. hands' \in [Seat -> SUBSET Card] BY <2>1, <2>2
    <2>6. CardInv' BY <2>1, <2>3, <2>4, <2>5 DEF IInv, CardInv, Before, After
    <2>7. \A s \in Seat : hands'[s] # {}
        BY <2>1, <2>2, PackHands DEF IInv, CardInv
    <2>8. OutInv' BY <2>1, <2>7 DEF OutInv
    <2>9. TurnInv' BY <2>1 DEF TurnInv
    <2>10. QED BY <2>6, <2>8, <2>9
<1>3. QED BY <1>1, <1>2 DEF AskOrReveal

LEMMA CallLandlordInv == ASSUME IInv, NEW s \in Seat, CallLandlord(s) PROVE IInv'
<1>1. phase = "call" /\ phase \in Before /\ ~anyone_robbed /\ rob_count = 0
    BY DEF CallLandlord, IInv, AuctionInv, Before
<1>2. AskOrReveal(next_seat(s), s, {}, FALSE, s)
    BY DEF CallLandlord
<1>3. s # second_seat(s) BY ThreeSeats
<1>4. AuctionInv'
    BY <1>1, <1>2, <1>3, AuctionStep DEF CallLandlord
<1>5. CardInv' /\ OutInv' /\ TurnInv'
    BY <1>1, <1>2, RevealCards DEF CallLandlord, dealVars
<1>6. QED BY <1>4, <1>5 DEF IInv

\* What on_rob does to the auction, whatever the answer.
LEMMA RobAuction ==
    ASSUME IInv, phase = "rob"
    PROVE  /\ actor \in Seat /\ caller \in Seat /\ landlord \in Seat
           /\ rob_done \subseteq Seat /\ phase \in Before
           /\ caller \in rob_done => anyone_robbed
           /\ landlord # caller => landlord \in rob_done /\ anyone_robbed
           /\ actor = caller => anyone_robbed /\ Seat \ {caller} \subseteq rob_done \cup called_no
           /\ actor = second_seat(caller) => next_seat(caller) \in rob_done \cup called_no
           /\ rob_count \in Nat /\ (rob_count = 0 <=> ~anyone_robbed)
    BY DEF IInv, AuctionInv, Before

LEMMA RobInv == ASSUME IInv, NEW s \in Seat, Rob(s) PROVE IInv'
<1>1. phase = "rob" /\ s = actor BY DEF Rob
<1>2. AskOrReveal(next_seat(s), caller, rob_done \cup {s}, TRUE, s) BY DEF Rob
<1>3. rob_count' \in Nat /\ (rob_count' = 0 <=> ~TRUE) BY <1>1, RobAuction DEF Rob
<1>4. AuctionInv'
    <2>1. /\ caller' = caller /\ rob_done' = rob_done \cup {s} /\ anyone_robbed' = TRUE
          /\ landlord' = s /\ first_caller' = first_caller /\ called_no' = called_no
        BY DEF Rob
    <2>2. rob_done \cup {s} \in SUBSET Seat BY <1>1, RobAuction
    <2>3. s = caller => Seat \ {caller} \subseteq rob_done \cup {s} \cup called_no
        BY <1>1, RobAuction
    <2>4. s = second_seat(caller) => next_seat(caller) \in rob_done \cup {s} \cup called_no
        BY <1>1, RobAuction
    <2>5. s \in rob_done \cup {s} OBVIOUS
    <2>6. caller \in Seat /\ phase \in Before BY <1>1, RobAuction
    <2>7. QED BY <1>2, <1>3, <2>1, <2>2, <2>3, <2>4, <2>5, <2>6, AuctionStep
<1>5. CardInv' /\ OutInv' /\ TurnInv'
    BY <1>1, <1>2, RobAuction, RevealCards DEF Rob, dealVars
<1>6. QED BY <1>4, <1>5 DEF IInv

LEMMA PassRobInv == ASSUME IInv, NEW s \in Seat, PassRob(s) PROVE IInv'
<1>1. phase = "rob" /\ s = actor BY DEF PassRob
<1>2. AskOrReveal(next_seat(s), caller, rob_done \cup {s}, anyone_robbed, landlord)
    BY DEF PassRob
<1>3. AuctionInv'
    <2>1. /\ caller' = caller /\ rob_done' = rob_done \cup {s} /\ anyone_robbed' = anyone_robbed
          /\ landlord' = landlord /\ first_caller' = first_caller /\ called_no' = called_no
          /\ rob_count' = rob_count
        BY DEF PassRob
    <2>2. rob_done \cup {s} \in SUBSET Seat BY <1>1, RobAuction
    <2>3. s = caller => Seat \ {caller} \subseteq rob_done \cup {s} \cup called_no
        BY <1>1, RobAuction
    <2>4. s = second_seat(caller) => next_seat(caller) \in rob_done \cup {s} \cup called_no
        BY <1>1, RobAuction
    <2>5. s \in rob_done \cup {s} OBVIOUS
    <2>6. caller \in Seat /\ landlord \in Seat /\ phase \in Before BY <1>1, RobAuction
    <2>7. caller \in rob_done \cup {s} => anyone_robbed BY <1>1, RobAuction
    <2>8. landlord # caller => landlord \in rob_done \cup {s} /\ anyone_robbed
        BY <1>1, RobAuction
    <2>9. rob_count' \in Nat /\ (rob_count' = 0 <=> ~anyone_robbed)
        BY <1>1, <2>1, RobAuction
    <2>10. QED
        BY <1>2, <2>1, <2>2, <2>3, <2>4, <2>5, <2>6, <2>7, <2>8, <2>9, AuctionStep
<1>4. CardInv' /\ OutInv' /\ TurnInv'
    BY <1>1, <1>2, RobAuction, RevealCards DEF PassRob, dealVars
<1>5. QED BY <1>3, <1>4 DEF IInv

\* Steps that leave the cards, the landlord and the end alone.
LEMMA CardsKept ==
    ASSUME IInv, UNCHANGED <<cardVars, landlord, winner_side, dealt>>,
           phase' \in Before <=> phase \in Before,
           phase' \in After <=> phase \in After,
           phase' = "settle" <=> phase = "settle"
    PROVE  CardInv' /\ OutInv'
<1>1. CardInv' BY DEF IInv, CardInv, cardVars, Given
<1>2. OutInv' BY DEF IInv, OutInv, cardVars, Wins
<1>3. QED BY <1>1, <1>2

LEMMA PassCallInv == ASSUME IInv, NEW s \in Seat, PassCall(s) PROVE IInv'
<1>1. phase = "call" /\ phase' = "call" BY DEF PassCall
<1>2. AuctionInv' BY <1>1, ThreeSeats DEF PassCall, IInv, AuctionInv, Before, After
<1>3. CardInv' /\ OutInv' BY CardsKept DEF PassCall, endVars, dealVars
<1>4. TurnInv' BY <1>1 DEF TurnInv
<1>5. QED BY <1>2, <1>3, <1>4 DEF IInv

LEMMA CallRedealInv == ASSUME IInv, NEW s \in Seat, CallRedeal(s) PROVE IInv'
<1>1. phase = "call" /\ phase' = "call" BY DEF CallRedeal
<1>2. AuctionInv' BY <1>1 DEF CallRedeal, IInv, AuctionInv, Before, After
<1>3. CardInv' /\ OutInv' BY CardsKept DEF CallRedeal, endVars
<1>4. TurnInv' BY <1>1 DEF TurnInv
<1>5. QED BY <1>2, <1>3, <1>4 DEF IInv

LEMMA RedealInv ==
    ASSUME IInv, NEW first \in Seat, NEW pack \in Packs, Redeal(first, pack) PROVE IInv'
<1>1. AuctionInv' BY DEF Redeal, AuctionInv, Before, After
<1>2. CardInv'
    <2>1. \A s \in Seat : hands'[s] = Given(s)' BY DEF Redeal, Given
    <2>2. hands' \in [Seat -> SUBSET Card] BY PackHands DEF Redeal
    <2>3. UNION {hands'[s] : s \in Seat} = UNION {Given(s)' : s \in Seat} BY <2>1
    <2>4. QED BY <2>1, <2>2, <2>3 DEF Redeal, CardInv, Before, After
<1>3. OutInv' BY PackHands DEF Redeal, OutInv
<1>4. TurnInv' BY DEF Redeal, TurnInv
<1>5. QED BY <1>1, <1>2, <1>3, <1>4 DEF IInv

-----------------------------------------------------------------------------
(* Doubling and playing *)

LEMMA DoubleInv == ASSUME IInv, NEW s \in Seat, NEW yes \in BOOLEAN, Double(s, yes) PROVE IInv'
<1>1. phase = "double" /\ phase' \in {"double", "play"} BY DEF Double
<1>2. AuctionInv'
    BY <1>1 DEF Double, auctionVars, IInv, AuctionInv, Before, After
<1>3. CardInv' /\ OutInv'
    BY <1>1, CardsKept DEF Double, endVars, dealVars, Before, After
<1>4. TurnInv'
    BY <1>1 DEF Double, IInv, AuctionInv, TurnInv
<1>5. QED BY <1>2, <1>3, <1>4 DEF IInv

LEMMA PassInv == ASSUME IInv, NEW s \in Seat, Pass(s) PROVE IInv'
<1>1. phase = "play" /\ phase' = "play" BY DEF Pass
<1>2. AuctionInv' BY <1>1 DEF Pass, auctionVars, IInv, AuctionInv, Before, After
<1>3. CardInv' /\ OutInv' BY CardsKept DEF Pass, endVars, dealVars
<1>4. TurnInv'
    <2>1. last_play # NoPlay /\ s = actor /\ last_play.seat \in Seat
        BY <1>1 DEF Pass, IInv, TurnInv
    <2>2. CASE consecutive_pass = 0
        <3>1. ~TrickOver BY <2>2 DEF TrickOver
        <3>2. QED BY <1>1, <2>1, <2>2, <3>1, ThreeSeats DEF Pass, IInv, TurnInv, second_seat
    <2>3. CASE consecutive_pass = 1
        <3>1. TrickOver BY <2>3 DEF TrickOver
        <3>2. QED BY <1>1, <2>1, <3>1 DEF Pass, TurnInv
    <2>4. QED BY <1>1, <2>1, <2>2, <2>3 DEF IInv, TurnInv
<1>5. QED BY <1>2, <1>3, <1>4 DEF IInv

LEMMA PlayInv ==
    ASSUME IInv, NEW s \in Seat, NEW cards, NEW hit, Play(s, cards, hit) PROVE IInv'
<1>1. /\ phase = "play" /\ s = actor
      /\ cards \subseteq hands[s]
      /\ hands' = [hands EXCEPT ![s] = @ \ cards]
      /\ table' = table \cup cards
      /\ consecutive_pass' = 0
      /\ last_play'.seat = s
      /\ UNCHANGED <<landlord, auctionVars, bottom, bottom_revealed, dealt>>
    BY DEF Play, dealVars
<1>2. hands \in [Seat -> SUBSET Card] BY DEF IInv, CardInv
<1>3. \/ hands[s] = cards /\ phase' = "settle"
         /\ winner_side' = IF s = landlord THEN "landlord" ELSE "farmer"
      \/ hands[s] # cards /\ phase' = "play" /\ actor' = next_seat(s)
    BY <1>1 DEF Play, Settle, landlord_win
<1>4. phase' \in After /\ phase' \notin Before /\ phase' \notin {"call", "rob"}
    BY <1>3 DEF Before, After
<1>5. AuctionInv'
    BY <1>1, <1>4 DEF auctionVars, IInv, AuctionInv, Before, After
<1>6. CardInv'
    <2>1. \A t \in Seat : Given(t)' = Given(t) BY <1>1 DEF Given
    <2>2. hands' \in [Seat -> SUBSET Card] BY <1>1, <1>2
    <2>3. \A t \in Seat : hands'[t] = IF t = s THEN hands[t] \ cards ELSE hands[t]
        BY <1>1, <1>2
    <2>4. ASSUME NEW t \in Seat PROVE hands'[t] \subseteq Given(t)'
        BY <2>1, <2>3 DEF IInv, CardInv
    <2>5. ASSUME NEW t \in Seat PROVE hands'[t] \cap table' = {}
        <3>1. hands[t] \cap table = {} BY DEF IInv, CardInv
        <3>2. t # s => hands[t] \cap hands[s] = {}
            BY HandsApart DEF IInv
        <3>3. QED BY <1>1, <2>3, <3>1, <3>2
    <2>6. table' \cup UNION {hands'[t] : t \in Seat} = UNION {Given(t)' : t \in Seat}
        <3>1. table' \cup UNION {hands'[t] : t \in Seat}
              = table \cup UNION {hands[t] : t \in Seat}
            BY <1>1, <2>3
        <3>2. UNION {Given(t)' : t \in Seat} = UNION {Given(t) : t \in Seat}
            BY <2>1
        <3>3. QED BY <3>1, <3>2 DEF IInv, CardInv
    <2>7. QED BY <1>1, <1>4, <2>2, <2>4, <2>5, <2>6 DEF IInv, CardInv, Before, After
<1>7. OutInv'
    <2>1. \A t \in Seat \ {s} : hands'[t] = hands[t] /\ hands[t] # {}
        BY <1>1, <1>2 DEF IInv, OutInv
    <2>2. hands'[s] = hands[s] \ cards BY <1>1, <1>2
    <2>3. CASE hands[s] = cards
        <3>1. phase' = "settle" /\ hands'[s] = {} BY <1>3, <2>2, <2>3
        <3>2. Wins(s)' BY <1>1, <1>3, <2>3 DEF Wins
        <3>3. QED BY <2>1, <3>1, <3>2 DEF OutInv
    <2>4. CASE hands[s] # cards
        <3>1. phase' = "play" /\ hands'[s] # {} BY <1>1, <1>3, <2>2, <2>4
        <3>2. QED BY <2>1, <3>1 DEF OutInv
    <2>5. QED BY <2>3, <2>4
<1>8. TurnInv'
    BY <1>1, <1>3, ThreeSeats DEF TurnInv
<1>9. QED BY <1>5, <1>6, <1>7, <1>8 DEF IInv

LEMMA IInvStep == IInv /\ [Next]_vars => IInv'
<1> SUFFICES ASSUME IInv, [Next]_vars PROVE IInv'
    OBVIOUS
<1>1. ASSUME NEW s \in Seat, SeatStep(s) PROVE IInv'
    <2>1. CASE PlaySome(s)
        BY <2>1, PlayInv DEF PlaySome
    <2>2. CASE \E yes \in BOOLEAN : Double(s, yes)
        BY <2>2, DoubleInv
    <2>3. QED
        BY <1>1, <2>1, <2>2, CallLandlordInv, PassCallInv, CallRedealInv, RobInv, PassRobInv,
           PassInv DEF SeatStep
<1>2. CASE UNCHANGED vars
    <2>1. AuctionInv' BY <1>2 DEF vars, auctionVars, IInv, AuctionInv
    <2>2. CardInv' /\ OutInv'
        BY <1>2, CardsKept DEF vars, endVars, dealVars
    <2>3. TurnInv' BY <1>2 DEF vars, playVars, IInv, TurnInv
    <2>4. QED BY <2>1, <2>2, <2>3 DEF IInv
<1>3. QED BY <1>1, <1>2, RedealInv DEF Next, Settled

LEMMA Invariance == Spec => []IInv
    BY InitInv, IInvStep, PTL DEF Spec

-----------------------------------------------------------------------------
(* The answers to rob *)

\* No seat that passed the call answers, the caller only after a rob, and the
\* answers go round from the seat after the caller.
InTurn ==
    \A i \in DOMAIN answers :
        /\ answers[i].seat \notin called_no
        /\ answers[i].seat = caller => \E j \in Robs : j < i
        /\ \A j \in 1..(i - 1) : RobTurn(answers[j].seat) < RobTurn(answers[i].seat)

\* The seats that passed the call so far: those before the one that is asked,
\* or all of them, when no new pack could be picked.
PassedInTurn ==
    \/ called_no = Seat
    \/ actor = first_caller /\ called_no = {}
    \/ actor = next_seat(first_caller) /\ called_no = {first_caller}
    \/ actor = second_seat(first_caller) /\ called_no = {first_caller, next_seat(first_caller)}

\* How the flags and the landlord follow from the answers.
AnswerInv ==
    /\ answers \in Seq(Answer)
    /\ rob_done = Asked
    /\ anyone_robbed <=> Robs # {}
    /\ rob_count = Cardinality(Robs)
    /\ InTurn
    /\ phase = "call" => answers = <<>> /\ PassedInTurn
    /\ phase # "call" => TookLast(landlord) /\ (caller \in called_no => called_no = Seat)
    /\ phase = "rob" => \A i \in DOMAIN answers : RobTurn(answers[i].seat) < RobTurn(actor)

\* The turns to rob, from the seat after the caller to the caller.
LEMMA RobTurns ==
    ASSUME caller \in Seat
    PROVE  /\ RobTurn(next_seat(caller)) = 0 /\ RobTurn(second_seat(caller)) = 1
           /\ RobTurn(caller) = 2
<1>1. caller = 0 \/ caller = 1 \/ caller = 2 BY DEF Seat
<1>2. QED BY <1>1 DEF RobTurn, next_seat, second_seat

\* One more answer at the end.
LEMMA OneMoreAnswer ==
    ASSUME answers \in Seq(Answer),
           NEW s \in Seat, NEW y \in BOOLEAN,
           answers' = Append(answers, [seat |-> s, yes |-> y])
    PROVE  /\ answers' \in Seq(Answer)
           /\ Len(answers) \in Nat /\ DOMAIN answers = 1..Len(answers)
           /\ DOMAIN answers' = 1..(Len(answers) + 1)
           /\ \A i \in DOMAIN answers : answers'[i] = answers[i]
           /\ answers'[Len(answers) + 1] = [seat |-> s, yes |-> y]
           /\ Robs \subseteq DOMAIN answers
           /\ Robs' = IF y THEN Robs \cup {Len(answers) + 1} ELSE Robs
           /\ Asked' = Asked \cup {s}
<1> DEFINE n == Len(answers)
<1>1. /\ answers' \in Seq(Answer)
      /\ n \in Nat /\ DOMAIN answers = 1..n /\ DOMAIN answers' = 1..(n + 1)
      /\ \A i \in 1..n : answers'[i] = answers[i]
      /\ answers'[n + 1] = [seat |-> s, yes |-> y]
    BY DEF Answer
<1>2. 1..(n + 1) = (1..n) \cup {n + 1} /\ n + 1 \notin 1..n BY <1>1
<1>3. Robs \subseteq DOMAIN answers BY DEF Robs
<1>4. Robs' = IF y THEN Robs \cup {n + 1} ELSE Robs BY <1>1, <1>2 DEF Robs
<1>5. Asked' = Asked \cup {s} BY <1>1, <1>2 DEF Asked
<1>6. QED BY <1>1, <1>3, <1>4, <1>5

\* What an answer to rob does, whether yes or no, to the flags and the turns.
LEMMA Answered ==
    ASSUME IInv, IInv', AnswerInv, NEW s \in Seat, NEW y \in BOOLEAN,
           phase = "rob", s = actor, phase' # "call",
           answers' = Append(answers, [seat |-> s, yes |-> y]),
           rob_done' = rob_done \cup {s}, UNCHANGED <<caller, called_no>>,
           phase' = "rob" => actor' \in Seat
    PROVE  /\ rob_done' = Asked' /\ InTurn'
           /\ (phase = "rob" =>
                 \A i \in DOMAIN answers : RobTurn(answers[i].seat) < RobTurn(actor))'
<1> DEFINE n == Len(answers)
<1>1. /\ answers \in Seq(Answer) /\ rob_done = Asked /\ InTurn
      /\ \A i \in DOMAIN answers : RobTurn(answers[i].seat) < RobTurn(s)
      /\ anyone_robbed <=> Robs # {}
    BY DEF AnswerInv
<1>2. /\ n \in Nat /\ DOMAIN answers = 1..n /\ DOMAIN answers' = 1..(n + 1)
      /\ \A i \in 1..n : answers'[i] = answers[i]
      /\ answers'[n + 1].seat = s
      /\ Robs \subseteq 1..n /\ Robs \subseteq Robs'
      /\ Asked' = Asked \cup {s}
    BY <1>1, OneMoreAnswer
<1>3. /\ caller \in Seat /\ s \notin called_no
      /\ s = caller => Robs # {} /\ Seat \ {caller} \subseteq rob_done \cup called_no
      /\ s = second_seat(caller) => next_seat(caller) \in rob_done \cup called_no
    BY <1>1 DEF IInv, AuctionInv
<1>4. \A t : RobTurn(t)' = RobTurn(t) BY DEF RobTurn
<1>5. InTurn'
    <2>1. SUFFICES ASSUME NEW i \in 1..(n + 1)
                   PROVE  /\ answers'[i].seat \notin called_no
                          /\ answers'[i].seat = caller => \E j \in Robs' : j < i
                          /\ \A j \in 1..(i - 1) :
                                RobTurn(answers'[j].seat) < RobTurn(answers'[i].seat)
        BY <1>2, <1>4 DEF InTurn
    <2>2. CASE i \in 1..n
        <3>1. \A j \in 1..(i - 1) : j \in 1..n BY <1>2, <2>2
        <3>2. QED BY <1>1, <1>2, <2>2, <3>1 DEF InTurn
    <2>3. CASE i = n + 1
        <3>1. s = caller => \E j \in Robs' : j < i
            <4>1. SUFFICES ASSUME s = caller PROVE \E j \in Robs' : j < i
                OBVIOUS
            <4>2. PICK j \in Robs : TRUE BY <1>3, <4>1
            <4>3. j \in Robs' /\ j \in 1..n BY <1>2
            <4>4. j < i BY <1>2, <2>3, <4>3
            <4>5. QED BY <4>3, <4>4
        <3>2. \A j \in 1..(i - 1) : j \in 1..n BY <1>2, <2>3
        <3>3. QED BY <1>1, <1>2, <1>3, <2>3, <3>1, <3>2
    <2>4. QED BY <1>2, <2>2, <2>3
<1>6. ASSUME phase' = "rob"
      PROVE  \A i \in DOMAIN answers' : RobTurn(answers'[i].seat) < RobTurn(actor')
    <2>1. actor' \in Seat /\ actor' \notin rob_done' \cup called_no
        BY <1>6 DEF IInv, AuctionInv
    <2>2. RobTurn(s) < RobTurn(actor')
        <3>1. Seat = {caller, next_seat(caller), second_seat(caller)} BY <1>3, ThreeSeats
        <3>2. actor' # s BY <2>1
        <3>3. s # caller BY <1>3, <2>1, <3>2
        <3>4. s = second_seat(caller) => actor' = caller BY <1>3, <2>1, <3>1, <3>2
        <3>5. s = next_seat(caller) => actor' = caller \/ actor' = second_seat(caller)
            BY <2>1, <3>1, <3>2
        <3>6. QED BY <1>3, <3>1, <3>3, <3>4, <3>5, RobTurns
    <2>3. SUFFICES ASSUME NEW i \in 1..(n + 1)
                   PROVE  RobTurn(answers'[i].seat) < RobTurn(actor')
        BY <1>2
    <2>4. CASE i = n + 1 BY <1>2, <2>2, <2>4
    <2>5. CASE i \in 1..n
        <3>1. RobTurn(answers[i].seat) < RobTurn(s) BY <1>1, <1>2, <2>5
        <3>2. answers[i].seat \in Seat
            <4>1. answers[i] \in Answer BY <1>1, <1>2, <2>5
            <4>2. QED BY <4>1 DEF Answer
        <3>3. \A t \in Seat : RobTurn(t) \in Int
            BY <1>3, RobTurns, ThreeSeats
        <3>4. QED BY <1>2, <2>1, <2>2, <2>5, <3>1, <3>2, <3>3
    <2>6. QED BY <1>2, <2>4, <2>5
<1>7. QED BY <1>1, <1>2, <1>4, <1>5, <1>6

LEMMA RobAnswer ==
    ASSUME IInv, IInv', AnswerInv, NEW s \in Seat, Rob(s)
    PROVE  AnswerInv'
<1> DEFINE n == Len(answers)
<1>1. /\ phase = "rob" /\ s = actor /\ rob_done' = rob_done \cup {s}
      /\ answers' = Append(answers, [seat |-> s, yes |-> TRUE])
      /\ anyone_robbed' = TRUE /\ rob_count' = rob_count + 1 /\ landlord' = s
      /\ UNCHANGED <<caller, called_no>>
    BY DEF Rob
<1>2. phase' \in {"rob", "double"} BY DEF Rob, AskOrReveal, Reveal
<1>3. phase' = "rob" => actor' \in Seat BY DEF IInv, AuctionInv
<1>4. /\ rob_done' = Asked' /\ InTurn'
      /\ (phase = "rob" => \A i \in DOMAIN answers : RobTurn(answers[i].seat) < RobTurn(actor))'
    BY <1>1, <1>2, <1>3, Answered
<1>5. /\ answers' \in Seq(Answer)
      /\ n \in Nat /\ Robs \subseteq 1..n /\ Robs' = Robs \cup {n + 1}
      /\ answers'[n + 1].seat = s
    <2>1. PICK y \in BOOLEAN : y = TRUE OBVIOUS
    <2>2. answers \in Seq(Answer) /\ answers' = Append(answers, [seat |-> s, yes |-> y])
        BY <1>1, <2>1 DEF AnswerInv
    <2>3. /\ answers' \in Seq(Answer) /\ n \in Nat /\ DOMAIN answers = 1..n
          /\ answers'[n + 1] = [seat |-> s, yes |-> y]
          /\ Robs \subseteq DOMAIN answers
          /\ Robs' = IF y THEN Robs \cup {n + 1} ELSE Robs
        BY <2>2, OneMoreAnswer
    <2>4. QED BY <2>1, <2>3
<1>6. rob_count' = Cardinality(Robs')
    <2>1. IsFiniteSet(1..n) BY <1>5, FS_Interval
    <2>2. IsFiniteSet(Robs) BY <1>5, <2>1, FS_Subset
    <2>5. n + 1 \notin Robs BY <1>5
    <2>3. Cardinality(Robs') = Cardinality(Robs) + 1 BY <1>5, <2>2, <2>5, FS_AddElement
    <2>4. QED BY <1>1, <2>3 DEF AnswerInv
<1>7. TookLast(landlord)'
    <2>1. n + 1 \in Robs' /\ \A j \in Robs' : j <= n + 1 BY <1>5
    <2>2. QED BY <1>1, <1>5, <2>1 DEF TookLast
<1>8. caller' \in called_no' => called_no' = Seat BY <1>1 DEF AnswerInv
<1>9. anyone_robbed' <=> Robs' # {} BY <1>1, <1>5
<1>10. QED BY <1>2, <1>4, <1>5, <1>6, <1>7, <1>8, <1>9 DEF AnswerInv

LEMMA PassRobAnswer ==
    ASSUME IInv, IInv', AnswerInv, NEW s \in Seat, PassRob(s)
    PROVE  AnswerInv'
<1> DEFINE n == Len(answers)
<1>1. /\ phase = "rob" /\ s = actor /\ rob_done' = rob_done \cup {s}
      /\ answers' = Append(answers, [seat |-> s, yes |-> FALSE])
      /\ UNCHANGED <<anyone_robbed, rob_count, landlord, caller, called_no>>
    BY DEF PassRob
<1>2. phase' \in {"rob", "double"} BY DEF PassRob, AskOrReveal, Reveal
<1>3. phase' = "rob" => actor' \in Seat BY DEF IInv, AuctionInv
<1>4. /\ rob_done' = Asked' /\ InTurn'
      /\ (phase = "rob" => \A i \in DOMAIN answers : RobTurn(answers[i].seat) < RobTurn(actor))'
    BY <1>1, <1>2, <1>3, Answered
<1>5. /\ answers' \in Seq(Answer)
      /\ Robs \subseteq DOMAIN answers /\ Robs' = Robs
      /\ \A i \in DOMAIN answers : answers'[i] = answers[i]
    BY <1>1, OneMoreAnswer DEF AnswerInv
<1>6. TookLast(landlord)' BY <1>1, <1>5 DEF AnswerInv, TookLast
<1>7. caller' \in called_no' => called_no' = Seat BY <1>1 DEF AnswerInv
<1>8. (anyone_robbed' <=> Robs' # {}) /\ rob_count' = Cardinality(Robs')
    BY <1>1, <1>5 DEF AnswerInv
<1>9. QED BY <1>2, <1>4, <1>5, <1>6, <1>7, <1>8 DEF AnswerInv

\* With no answers there is nothing to say of them.
LEMMA NoAnswers ==
    answers = <<>> =>
        /\ answers \in Seq(Answer)
        /\ Asked = {} /\ Robs = {} /\ Cardinality(Robs) = 0 /\ InTurn
<1>1. DOMAIN <<>> = {} OBVIOUS
<1>2. QED BY <1>1, FS_EmptySet DEF Asked, Robs, InTurn

LEMMA NoAnswersNext ==
    (answers = <<>> =>
        /\ answers \in Seq(Answer)
        /\ Asked = {} /\ Robs = {} /\ Cardinality(Robs) = 0 /\ InTurn)'
    BY NoAnswers, PTL

LEMMA CallAnswer ==
    ASSUME IInv, AnswerInv, NEW s \in Seat, CallLandlord(s)
    PROVE  AnswerInv'
<1>1. /\ phase = "call" /\ s = actor /\ answers' = <<>> /\ rob_done' = {}
      /\ anyone_robbed' = FALSE /\ caller' = s /\ landlord' = s
      /\ UNCHANGED <<called_no, rob_count>>
    BY DEF CallLandlord
<1>2. phase' \in {"rob", "double"} BY DEF CallLandlord, AskOrReveal, Reveal
<1>3. rob_count' = 0 BY <1>1 DEF IInv, AuctionInv
<1>4. TookLast(landlord)' BY <1>1, NoAnswersNext DEF TookLast
<1>5. caller' \in called_no' => called_no' = Seat
    <2>1. PassedInTurn /\ first_caller \in Seat BY <1>1 DEF AnswerInv, IInv, AuctionInv
    <2>2. QED BY <1>1, <2>1, ThreeSeats DEF PassedInTurn
<1>6. \A i \in DOMAIN answers' : RobTurn(answers'[i].seat) < RobTurn(actor')
    <2>1. DOMAIN answers' = {} BY <1>1
    <2>2. QED BY <2>1
<1>7. answers' \in Seq(Answer) /\ Asked' = {} /\ Robs' = {} /\ InTurn'
      /\ Cardinality(Robs)' = 0
    BY <1>1, NoAnswersNext
<1>8. (\A i \in DOMAIN answers : RobTurn(answers[i].seat) < RobTurn(actor))'
    <2>1. DOMAIN answers' = {} BY <1>1
    <2>2. QED BY <2>1
<1>9. QED BY <1>1, <1>2, <1>3, <1>4, <1>5, <1>7, <1>8 DEF AnswerInv

\* A seat passes the call: the next one is asked, or nobody has called.
LEMMA PassedAnswer ==
    ASSUME IInv, AnswerInv, NEW s \in Seat, PassCall(s) \/ CallRedeal(s)
    PROVE  AnswerInv'
<1>1. /\ phase = "call" /\ phase' = "call" /\ s = actor /\ called_no' = called_no \cup {s}
      /\ UNCHANGED <<answers, rob_done, anyone_robbed, rob_count, caller, first_caller>>
      /\ \/ actor' = next_seat(s) /\ next_seat(s) # first_caller
         \/ actor' = actor /\ next_seat(s) = first_caller
    BY DEF PassCall, CallRedeal
<1>2. answers' = <<>> /\ rob_done = Asked /\ (anyone_robbed <=> Robs # {})
      /\ rob_count = Cardinality(Robs) /\ PassedInTurn
    BY <1>1 DEF AnswerInv
<1>3. PassedInTurn'
    <2>1. /\ first_caller \in Seat
          /\ Seat = {first_caller, next_seat(first_caller), second_seat(first_caller)}
          /\ next_seat(second_seat(first_caller)) = first_caller
          /\ next_seat(next_seat(first_caller)) = second_seat(first_caller)
          /\ next_seat(first_caller) # first_caller
          /\ second_seat(first_caller) # first_caller
        BY ThreeSeats DEF IInv, AuctionInv, second_seat
    <2>2. CASE called_no = Seat BY <1>1, <2>2 DEF PassedInTurn
    <2>3. CASE actor = first_caller /\ called_no = {}
        BY <1>1, <2>1, <2>3 DEF PassedInTurn
    <2>4. CASE actor = next_seat(first_caller) /\ called_no = {first_caller}
        <3>1. called_no' = {first_caller, next_seat(first_caller)} BY <1>1, <2>4
        <3>2. actor' = second_seat(first_caller) BY <1>1, <2>1, <2>4
        <3>3. QED BY <1>1, <3>1, <3>2 DEF PassedInTurn
    <2>5. CASE /\ actor = second_seat(first_caller)
               /\ called_no = {first_caller, next_seat(first_caller)}
        <3>1. called_no' = Seat BY <1>1, <2>1, <2>5
        <3>2. QED BY <3>1 DEF PassedInTurn
    <2>6. QED BY <1>2, <2>2, <2>3, <2>4, <2>5 DEF PassedInTurn
<1>4. /\ answers' \in Seq(Answer) /\ Asked' = Asked /\ Robs' = Robs
      /\ InTurn'
    BY <1>1, <1>2, NoAnswersNext DEF Asked, Robs
<1>5. QED BY <1>1, <1>2, <1>3, <1>4 DEF AnswerInv

\* Steps that leave the auction alone: after it, or before it if nothing else
\* changes either.
LEMMA AnswersKept ==
    ASSUME AnswerInv, UNCHANGED <<auctionVars, landlord>>,
           \/ phase \in After /\ phase' \in After
           \/ UNCHANGED <<phase, actor>>
    PROVE  AnswerInv'
<1>1. Asked' = Asked /\ Robs' = Robs /\ (InTurn' <=> InTurn)
    BY DEF auctionVars, Asked, Robs, InTurn, RobTurn
<1>2. TookLast(landlord)' <=> TookLast(landlord)
    BY DEF auctionVars, TookLast, Robs
<1>3. CASE phase \in After /\ phase' \in After
    BY <1>1, <1>2, <1>3 DEF AnswerInv, auctionVars, After
<1>4. CASE UNCHANGED <<phase, actor>>
    BY <1>1, <1>2, <1>4 DEF AnswerInv, auctionVars, PassedInTurn, RobTurn
<1>5. QED BY <1>3, <1>4

\* A pack is dealt: nobody has passed or answered yet.
LEMMA DealtAnswer == Init => AnswerInv
<1> SUFFICES ASSUME Init PROVE AnswerInv
    OBVIOUS
<1>1. answers = <<>> /\ rob_done = {} /\ anyone_robbed = FALSE /\ rob_count = 0
    BY DEF Init
<1>2. phase = "call" /\ PassedInTurn BY DEF Init, PassedInTurn
<1>3. QED BY <1>1, <1>2, NoAnswers DEF AnswerInv

LEMMA RedealtAnswer ==
    ASSUME NEW first \in Seat, NEW pack \in Packs, Redeal(first, pack)
    PROVE  AnswerInv'
<1>1. answers' = <<>> /\ rob_done' = {} /\ anyone_robbed' = FALSE /\ rob_count' = 0
    BY DEF Redeal
<1>2. phase' = "call" /\ PassedInTurn' BY DEF Redeal, PassedInTurn
<1>3. QED BY <1>1, <1>2, NoAnswersNext DEF AnswerInv

LEMMA AnswerStep == IInv /\ IInv' /\ AnswerInv /\ [Next]_vars => AnswerInv'
<1> SUFFICES ASSUME IInv, IInv', AnswerInv, [Next]_vars PROVE AnswerInv'
    OBVIOUS
<1>1. ASSUME NEW s \in Seat, SeatStep(s) PROVE AnswerInv'
    <2>1. CASE PlaySome(s)
        <3>1. /\ phase = "play" /\ phase' \in {"play", "settle"}
              /\ UNCHANGED <<auctionVars, landlord>>
            BY <2>1 DEF PlaySome, Play, Settle
        <3>2. QED BY <3>1, AnswersKept DEF After
    <2>2. CASE \E yes \in BOOLEAN : Double(s, yes)
        <3>1. /\ phase = "double" /\ phase' \in {"double", "play"}
              /\ UNCHANGED <<auctionVars, landlord>>
            BY <2>2 DEF Double
        <3>2. QED BY <3>1, AnswersKept DEF After
    <2>3. CASE Pass(s)
        <3>1. phase = "play" /\ phase' = "play" /\ UNCHANGED <<auctionVars, landlord>>
            BY <2>3 DEF Pass
        <3>2. QED BY <3>1, AnswersKept DEF After
    <2>4. QED
        BY <1>1, <2>1, <2>2, <2>3, CallAnswer, PassedAnswer, RobAnswer, PassRobAnswer
           DEF SeatStep
<1>2. CASE UNCHANGED vars BY <1>2, AnswersKept DEF vars
<1>3. QED BY <1>1, <1>2, RedealtAnswer DEF Next, Settled

LEMMA AnswersHold == Spec => []AnswerInv
    BY DealtAnswer, AnswerStep, Invariance, PTL DEF Spec

-----------------------------------------------------------------------------
(* Theorems *)

\* Robbing asks each seat once and in turn, no seat that passed the call and
\* the caller only after a rob; it asks everybody else, so the caller can
\* always rob back, and the landlord is the last who took it (next_rob_actor,
\* on_rob).
THEOREM AuctionIsFair == Spec => []AuctionFair
<1>1. IInv /\ AnswerInv => AuctionFair
    <2> SUFFICES ASSUME IInv, AnswerInv PROVE AuctionFair
        OBVIOUS
    <2>1. ASSUME phase \in {"double", "play", "settle"}
          PROVE  /\ Seat \ {caller} \subseteq Asked \cup called_no
                 /\ Robs # {} => caller \in Asked
        <3>1. /\ Seat \ {caller} \subseteq Asked \cup called_no /\ caller \in Seat
              /\ Robs # {} => caller \in Asked \cup called_no
            BY <2>1 DEF IInv, AuctionInv, AnswerInv, After
        <3>2. caller \in called_no => called_no = Seat BY <2>1 DEF AnswerInv
        <3>3. called_no = Seat => Robs = {}
            <4>1. ASSUME NEW i \in Robs PROVE called_no # Seat
                <5>1. answers \in Seq(Answer) /\ i \in DOMAIN answers BY DEF AnswerInv, Robs
                <5>2. answers[i] \in Answer BY <5>1
                <5>3. answers[i].seat \in Seat BY <5>2 DEF Answer
                <5>4. answers[i].seat \notin called_no BY <5>1 DEF AnswerInv, InTurn
                <5>5. QED BY <5>3, <5>4
            <4>2. QED BY <4>1
        <3>4. QED BY <3>1, <3>2, <3>3
    <2>2. QED BY <2>1 DEF AnswerInv, InTurn, AuctionFair
<1>2. QED BY <1>1, Invariance, AnswersHold, PTL

\* Whatever is dealt, robbed and played, each card is in the hand it was given
\* to or on the table (reveal, on_play).
THEOREM CardsAreKept == Spec => []NoCardLost
<1>1. IInv => NoCardLost
    BY DEF IInv, CardInv, NoCardLost
<1>2. QED BY <1>1, Invariance, PTL

\* The turn goes round from the last play and stops before it comes back to
\* the seat that made it (on_play, on_pass).
THEOREM TurnsGoRound == Spec => []TurnOrder
<1>1. ASSUME NEW s \in Seat
      PROVE  /\ next_seat(s) = (s + 1 + 0) % 3
             /\ second_seat(s) = (s + 1 + 1) % 3
    <2>1. s = 0 \/ s = 1 \/ s = 2 BY DEF Seat
    <2>2. QED BY <2>1 DEF next_seat, second_seat
<1>2. IInv => TurnOrder
    <2> SUFFICES ASSUME TurnInv, phase = "play" PROVE TurnOrder
        BY DEF IInv, TurnOrder
    <2>1. CASE last_play = NoPlay BY <2>1 DEF TurnInv, TurnOrder
    <2>2. CASE last_play # NoPlay
        <3>1. last_play.seat \in Seat BY <2>2 DEF TurnInv
        <3>2. actor = (last_play.seat + 1 + consecutive_pass) % 3 /\ actor # last_play.seat
            BY <1>1, <2>2, <3>1, ThreeSeats DEF TurnInv
        <3>3. QED BY <2>2, <3>2 DEF TurnInv, TurnOrder
    <2>3. QED BY <2>1, <2>2
<1>3. QED BY <1>2, Invariance, PTL

\* The small game is over exactly when a hand is empty, and that hand's side
\* has won (on_play, settle).
THEOREM EndsWithEmptyHand == Spec => []OutMeansOver
<1>1. IInv => OutMeansOver
    BY DEF IInv, OutInv, OutMeansOver
<1>2. QED BY <1>1, Invariance, PTL

\* A play takes cards out of the hands, at least one.
LEMMA PlayTakesCards ==
    ASSUME IInv, NEW s \in Seat, NEW cards, NEW hit, Play(s, cards, hit)
    PROVE  CardsInHands \in Nat /\ CardsInHands' \in Nat /\ CardsInHands' < CardsInHands
<1> DEFINE U == UNION {hands[t] : t \in Seat}
           V == UNION {hands'[t] : t \in Seat}
<1>1. /\ cards # {} /\ cards \subseteq hands[s]
      /\ hands' = [hands EXCEPT ![s] = @ \ cards]
      /\ hands \in [Seat -> SUBSET Card]
    BY DEF Play, IInv, CardInv
<1>2. \A t \in Seat : hands'[t] = IF t = s THEN hands[t] \ cards ELSE hands[t]
    BY <1>1
<1>3. U \subseteq Card BY <1>1
<1>4. V \subseteq U BY <1>1, <1>2
<1>5. V # U
    <2>1. PICK c \in cards : TRUE BY <1>1
    <2>2. c \in U BY <1>1
    <2>3. ASSUME NEW t \in Seat PROVE c \notin hands'[t]
        <3>1. CASE t = s BY <1>2, <3>1
        <3>2. CASE t # s
            <4>1. hands[t] \cap hands[s] = {} BY <3>2, HandsApart DEF IInv
            <4>2. QED BY <1>1, <1>2, <2>1, <3>2, <4>1
        <3>3. QED BY <3>1, <3>2
    <2>4. QED BY <2>2, <2>3
<1>6. IsFiniteSet(Card)
    BY FS_Interval, 0 \in Int, 53 \in Int DEF Card
<1>7. IsFiniteSet(U) BY <1>3, <1>6, FS_Subset
<1>8. IsFiniteSet(V) /\ Cardinality(V) <= Cardinality(U) /\ Cardinality(V) # Cardinality(U)
    BY <1>4, <1>5, <1>7, FS_Subset
<1>9. Cardinality(U) \in Nat /\ Cardinality(V) \in Nat
    BY <1>7, <1>8, FS_CardinalityType
<1>10. CardsInHands = Cardinality(U) /\ CardsInHands' = Cardinality(V)
    BY DEF CardsInHands
<1>11. QED BY <1>8, <1>9, <1>10

\* Hands hold finitely many cards.
LEMMA CardsInHandsNat ==
    ASSUME IInv
    PROVE  CardsInHands \in Nat
<1>1. UNION {hands[t] : t \in Seat} \subseteq Card
    BY DEF IInv, CardInv
<1>2. IsFiniteSet(Card)
    BY FS_Interval, 0 \in Int, 53 \in Int DEF Card
<1>3. QED BY <1>1, <1>2, FS_Subset, FS_CardinalityType DEF CardsInHands

\* A new pack is only picked in the call phase.
DealingInCall == dealing => phase = "call"

LEMMA DealingStep == DealingInCall /\ [Next]_vars => DealingInCall'
<1> SUFFICES ASSUME DealingInCall, [Next]_vars PROVE DealingInCall'
    OBVIOUS
<1> USE DEF DealingInCall
<1>1. ASSUME NEW s \in Seat, SeatStep(s) PROVE DealingInCall'
    <2>1. CASE PlaySome(s) BY <2>1 DEF PlaySome, Play, dealVars
    <2>2. CASE \E yes \in BOOLEAN : Double(s, yes) BY <2>2 DEF Double, dealVars
    <2>3. QED
        BY <1>1, <2>1, <2>2
           DEF SeatStep, CallLandlord, PassCall, CallRedeal, Rob, PassRob, Pass, dealVars
<1>2. CASE UNCHANGED vars BY <1>2 DEF vars, dealVars
<1>3. QED BY <1>1, <1>2 DEF Next, Redeal, Settled

LEMMA DealingHolds == Spec => []DealingInCall
<1>1. Init => DealingInCall BY DEF Init, DealingInCall
<1>2. QED BY <1>1, DealingStep, PTL DEF Spec

LEMMA MoveLeavesFewer ==
    ASSUME IInv, DealingInCall, [Next]_vars, vars' # vars, phase = "play", phase' = "play"
    PROVE  MovesLeft' < MovesLeft
<1>1. \E s \in Seat : PlaySome(s) \/ Pass(s)
    <2>1. phase \notin {"call", "rob", "double", "settle"} OBVIOUS
    <2>2. ~\E first \in Seat, pack \in Packs : Redeal(first, pack)
        BY DEF Redeal, DealingInCall
    <2>3. PICK s \in Seat : SeatStep(s)
        BY <2>1, <2>2 DEF Next, Settled
    <2>4. QED
        BY <2>1, <2>3 DEF SeatStep, CallLandlord, PassCall, CallRedeal, Rob, PassRob, Double
<1>2. PICK s \in Seat : PlaySome(s) \/ Pass(s) BY <1>1
<1>3. last_play # NoPlay => consecutive_pass \in 0..1
    BY DEF IInv, TurnInv
<1>4. CASE PlaySome(s)
    <2>1. PICK play \in LegalPlays : Play(s, play.cards, play.hit)
        BY <1>4 DEF PlaySome
    <2>2. CardsInHands \in Nat /\ CardsInHands' \in Nat /\ CardsInHands' < CardsInHands
        BY <2>1, PlayTakesCards
    <2>3. consecutive_pass' = 0 BY <2>1 DEF Play
    <2>4. QED BY <1>3, <2>2, <2>3 DEF MovesLeft
<1>5. CASE Pass(s)
    <2>1. CardsInHands' = CardsInHands BY <1>5 DEF Pass, cardVars, CardsInHands
    <2>2. CardsInHands \in Nat BY CardsInHandsNat
    <2>3. last_play # NoPlay /\ consecutive_pass \in 0..1 BY <1>3, <1>5 DEF Pass
    <2>4. \/ last_play' = NoPlay /\ consecutive_pass = 1
          \/ last_play' = last_play /\ consecutive_pass' = consecutive_pass + 1
                                   /\ consecutive_pass = 0
        BY <1>5, <2>3 DEF Pass, TrickOver
    <2>5. QED BY <2>1, <2>2, <2>3, <2>4 DEF MovesLeft
<1>6. QED BY <1>2, <1>4, <1>5

\* Moves run out: on_pass lets a trick end after two passes, and every other
\* move in the play phase takes cards (on_play).
THEOREM SmallGameEnds == Spec => MovesRunOut
<1>1. IInv /\ DealingInCall /\ [Next]_vars
      => [phase = "play" /\ phase' = "play" => MovesLeft' < MovesLeft]_vars
    BY MoveLeavesFewer
<1>2. QED BY <1>1, Invariance, DealingHolds, PTL DEF Spec, MovesRunOut

-----------------------------------------------------------------------------
(* Refinement *)

\* Robs, bombs and rockets only ever raise the multiplier.
MultInv == public_mult \in Int /\ public_mult >= base_score

LEMMA BaseScorePositive == base_score \in Int /\ base_score >= 1
    BY BaseScoreAssumption DEF base_score

LEMMA MultStep == MultInv /\ [Next]_vars => MultInv'
<1> SUFFICES ASSUME MultInv, [Next]_vars PROVE MultInv'
    OBVIOUS
<1>1. public_mult' \in {public_mult, public_mult * 2, base_score}
    <2>1. ASSUME NEW s \in Seat, SeatStep(s)
          PROVE  public_mult' \in {public_mult, public_mult * 2}
        <3>1. CASE PlaySome(s) BY <3>1 DEF PlaySome, Play
        <3>2. CASE \E yes \in BOOLEAN : Double(s, yes) BY <3>2 DEF Double
        <3>3. QED
            BY <2>1, <3>1, <3>2 DEF SeatStep, CallLandlord, PassCall, CallRedeal, Rob, PassRob,
               Pass
    <2>2. CASE UNCHANGED vars BY <2>2 DEF vars
    <2>3. ASSUME NEW first \in Seat, NEW pack \in Packs, Redeal(first, pack)
          PROVE  public_mult' = base_score
        BY <2>3 DEF Redeal
    <2>4. QED BY <2>1, <2>2, <2>3 DEF Next, Settled
<1>2. base_score' = base_score BY DEF base_score
<1>3. QED BY <1>1, <1>2, BaseScorePositive DEF MultInv

LEMMA MultHolds == Spec => []MultInv
<1>1. Init => MultInv
    <2>1. Init => public_mult = base_score BY DEF Init
    <2>2. QED BY <2>1, BaseScorePositive DEF MultInv
<1>2. QED BY <1>1, MultStep, PTL DEF Spec

RInv == IInv /\ DealingInCall /\ MultInv

\* Whoever wins, the landlord's score cancels the farmers', and each of these
\* is at least the base score (seat_mult, seat_score).
LEMMA OutcomeOfSettled ==
    phase = "settle" /\ landlord \in Seat /\ MultInv /\ winner_side \in {"landlord", "farmer"}
    => Small!IsOutcome([s \in Seat |-> seat_score(s)])
<1> SUFFICES ASSUME phase = "settle", landlord \in Seat, MultInv,
                    winner_side \in {"landlord", "farmer"}
             PROVE  Small!IsOutcome([s \in Seat |-> seat_score(s)])
    OBVIOUS
<1> DEFINE sc == [s \in Seat |-> seat_score(s)]
           f == next_seat(landlord)
           g == second_seat(landlord)
<1>1. /\ f \in Seat /\ g \in Seat /\ landlord # f /\ landlord # g /\ f # g
      BY ThreeSeats
<1>2. Seat = Small!Player BY DEF Seat, Small!Player
<1>3. display_mult \in Int /\ display_mult >= base_score
    BY BaseScorePositive DEF display_mult, MultInv
<1>4. \A s \in Seat : Factor(s) = 1 \/ Factor(s) = 2
    BY DEF Factor
<1>5. ASSUME NEW s \in Seat
      PROVE  farmer_u(s) \in Int /\ farmer_u(s) >= base_score
    <2>1. \/ farmer_u(s) = display_mult \/ farmer_u(s) = display_mult * 2
          \/ farmer_u(s) = display_mult * 4
        BY <1>3, <1>4 DEF farmer_u
    <2>2. QED BY <1>3, <2>1, BaseScorePositive
<1>6. /\ seat_mult(landlord) = farmer_u(f) + farmer_u(g)
      /\ seat_mult(f) = farmer_u(f) /\ seat_mult(g) = farmer_u(g)
    BY <1>1 DEF seat_mult, second_seat, NoSeat, Seat
<1>7. CASE winner_side = "landlord"
    <2>1. Wins(landlord) /\ ~Wins(f) /\ ~Wins(g) BY <1>1, <1>7 DEF Wins
    <2>2. /\ sc[landlord] = farmer_u(f) + farmer_u(g)
          /\ sc[f] = -farmer_u(f) /\ sc[g] = -farmer_u(g)
        BY <1>1, <1>6, <1>7, <2>1 DEF seat_score
    <2>3. sc[landlord] + sc[f] + sc[g] = 0 /\ sc[f] <= -base_score /\ sc[g] <= -base_score
        BY <1>1, <1>5, <2>2, BaseScorePositive
    <2>4. QED BY <1>1, <1>2, <2>3 DEF Small!IsOutcome
<1>8. CASE winner_side = "farmer"
    <2>1. ~Wins(landlord) /\ Wins(f) /\ Wins(g) BY <1>1, <1>8 DEF Wins
    <2>2. /\ sc[landlord] = -(farmer_u(f) + farmer_u(g))
          /\ sc[f] = farmer_u(f) /\ sc[g] = farmer_u(g)
        BY <1>1, <1>6, <1>8, <2>1 DEF seat_score
    <2>3. sc[landlord] + sc[f] + sc[g] = 0 /\ sc[f] >= base_score /\ sc[g] >= base_score
        BY <1>1, <1>5, <2>2, BaseScorePositive
    <2>4. QED BY <1>1, <1>2, <2>3 DEF Small!IsOutcome
<1>9. QED BY <1>7, <1>8

\* The state of the abstract small game.
stage_of == CASE phase = "call" -> "call"
              [] phase = "settle" -> "over"
              [] OTHER -> "play"
score_of == [s \in Seat |-> seat_score(s)]

LEMMA NoScoreBefore == phase # "settle" => score_of = Small!NoScore
    BY DEF score_of, seat_score, Small!NoScore, Small!Player, Seat

\* The two lemmas in the next state.
LEMMA NoScoreBeforeNext == (phase # "settle" => score_of = Small!NoScore)'
    BY NoScoreBefore, PTL

LEMMA OutcomeNext ==
    (phase = "settle" /\ landlord \in Seat /\ MultInv /\ winner_side \in {"landlord", "farmer"}
     => Small!IsOutcome([s \in Seat |-> seat_score(s)]))'
    BY OutcomeOfSettled, PTL

\* A step that neither leaves the call nor reaches or leaves the settlement.
LEMMA StutterBeforeEnd ==
    ASSUME phase # "settle", phase' # "settle", phase = "call" <=> phase' = "call"
    PROVE  UNCHANGED Small!vars
<1>1. score_of = Small!NoScore BY NoScoreBefore
<1>2. score_of' = Small!NoScore BY NoScoreBeforeNext
<1>3. stage_of' = stage_of BY DEF stage_of
<1>4. QED BY <1>1, <1>2, <1>3 DEF Small!vars, stage_of, score_of

\* Every step of the game is a step of the abstract small game or a stutter.
LEMMA StepRefines ==
    RInv /\ RInv' /\ [Next]_vars => [Small!Next]_(Small!vars)
<1> SUFFICES ASSUME RInv, RInv', [Next]_vars
             PROVE  Small!Next \/ UNCHANGED Small!vars
    OBVIOUS
<1>1. CASE \E s \in Seat : CallLandlord(s)
    <2>1. phase = "call" /\ phase' \in {"rob", "double"}
        BY <1>1 DEF CallLandlord, AskOrReveal, Reveal
    <2>2. score_of = Small!NoScore /\ score_of' = Small!NoScore
        BY <2>1, NoScoreBefore, NoScoreBeforeNext
    <2>3. stage_of = "call" /\ stage_of' = "play" BY <2>1 DEF stage_of
    <2>4. Small!Called BY <2>2, <2>3 DEF Small!Called, score_of, stage_of
    <2>5. QED BY <2>4 DEF Small!Next
<1>2. ASSUME NEW s \in Seat, NEW play \in LegalPlays, Play(s, play.cards, play.hit),
             hands[s] = play.cards
      PROVE  Small!Next
    <2>1. phase = "play" /\ phase' = "settle" BY <1>2 DEF Play, Settle
    <2>2. winner_side' \in {"landlord", "farmer"} BY <1>2 DEF Play, Settle
    <2>3. landlord' \in Seat BY <2>1 DEF RInv, IInv, AuctionInv
    <2>4. Small!IsOutcome(score_of')
        BY <2>1, <2>2, <2>3, OutcomeNext DEF score_of, RInv
    <2>5. stage_of = "play" /\ stage_of' = "over" BY <2>1 DEF stage_of
    <2>6. Small!Ended BY <2>4, <2>5 DEF Small!Ended, stage_of, score_of
    <2>7. QED BY <2>6 DEF Small!Next
<1>3. ASSUME NEW s \in Seat, NEW play \in LegalPlays, Play(s, play.cards, play.hit),
             hands[s] # play.cards
      PROVE  UNCHANGED Small!vars
    <2>1. phase = "play" /\ phase' = "play" BY <1>3 DEF Play
    <2>2. QED BY <2>1, StutterBeforeEnd
<1>4. CASE \E s \in Seat : PassCall(s) \/ CallRedeal(s)
    BY <1>4, StutterBeforeEnd DEF PassCall, CallRedeal
<1>5. CASE \E s \in Seat : Rob(s) \/ PassRob(s)
    <2>1. phase = "rob" /\ phase' \in {"rob", "double"}
        BY <1>5 DEF Rob, PassRob, AskOrReveal, Reveal
    <2>2. QED BY <2>1, StutterBeforeEnd
<1>6. CASE \E s \in Seat, yes \in BOOLEAN : Double(s, yes)
    <2>1. phase = "double" /\ phase' \in {"double", "play"} BY <1>6 DEF Double
    <2>2. QED BY <2>1, StutterBeforeEnd
<1>7. CASE \E s \in Seat : Pass(s)
    <2>1. phase = "play" /\ phase' = "play" BY <1>7 DEF Pass
    <2>2. QED BY <2>1, StutterBeforeEnd
<1>8. CASE \E first \in Seat, pack \in Packs : Redeal(first, pack)
    <2>1. phase = "call" /\ phase' = "call" BY <1>8 DEF Redeal, RInv, DealingInCall
    <2>2. QED BY <2>1, StutterBeforeEnd
<1>9. CASE UNCHANGED vars
    BY <1>9 DEF vars, doubleVars, endVars, Small!vars, seat_score, seat_mult, farmer_u,
        display_mult, Factor, Wins
<1>10. CASE Next
    BY <1>1, <1>2, <1>3, <1>4, <1>5, <1>6, <1>7, <1>8, <1>9, <1>10
       DEF Next, SeatStep, PlaySome, Settled
<1>11. QED BY <1>9, <1>10

\* A small game is called, played and over once, in this order, and only its
\* end has a score, one of a landlord against two farmers (start_deal,
\* on_call, reveal, settle, seat_score).
THEOREM SmallGameKept == Spec => ImplementsSmallGame
<1>1. Init => Small!Init
    <2>1. Init => phase = "call" BY DEF Init
    <2>2. Init => score_of = Small!NoScore BY <2>1, NoScoreBefore
    <2>3. QED BY <2>1, <2>2 DEF Small!Init, score_of
<1>2. RInv /\ RInv' /\ [Next]_vars => [Small!Next]_(Small!vars)
    BY StepRefines
<1>3. IInv /\ DealingInCall /\ MultInv => RInv BY DEF RInv
<1>4. QED
    BY <1>1, <1>2, <1>3, Invariance, DealingHolds, MultHolds, PTL
       DEF Spec, ImplementsSmallGame, Small!Spec

=============================================================================
