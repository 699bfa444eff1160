---------------------------- MODULE SettleProofs ----------------------------
(***************************************************************************)
(* For any packs: a spring is told rightly.  settle goes by play counts;   *)
(* that they say who still holds the hand that was dealt, and who led      *)
(* first, takes the cards (CardInv), the turns and the counts together.    *)
(* Every field of the small game keeps its type.  And the scores: each rob *)
(* leaves a seat that was asked and each bomb four cards on the table, so  *)
(* the doublings are few, and a farmer's score is the base score doubled   *)
(* once for each.                                                          *)
(***************************************************************************)
EXTENDS GameProofs

\* Who has played nothing holds what was given, and only they do.
CountInv ==
    /\ play_count \in [Seat -> Nat]
    /\ phase \notin {"play", "settle"} => \A s \in Seat : play_count[s] = 0
    /\ \A s \in Seat : play_count[s] = 0 <=> hands[s] = Given(s)

\* The landlord leads first: until then nobody can pass or play.
LeadInv ==
    phase = "play" /\ play_count[landlord] = 0 => actor = landlord /\ last_play = NoPlay

\* What settle has made of the counts.
SpringInv ==
    phase = "settle" =>
        /\ play_count[landlord] >= 1
        /\ spring = "spring" <=> \A f \in Seat \ {landlord} : play_count[f] = 0
        /\ spring = "anti" <=> winner_side = "farmer" /\ play_count[landlord] = 1

SInv == CountInv /\ LeadInv /\ SpringInv

LEMMA InitSInv == Init => SInv
<1> SUFFICES ASSUME Init PROVE SInv
    OBVIOUS
<1>1. CountInv BY DEF Init, CountInv, Given
<1>2. LeadInv BY DEF Init, LeadInv
<1>3. SpringInv BY DEF Init, SpringInv
<1>4. QED BY <1>1, <1>2, <1>3 DEF SInv

\* Before the first play a step leaves the counts at nought, and every hand is
\* the one that was given, with the bottom for a landlord just revealed.
LEMMA AuctionCounts ==
    ASSUME SInv, IInv, phase \in Before, NEW from, NEW c, NEW l \in Seat, NEW done, NEW robbed,
           AskOrReveal(from, c, done, robbed, l), landlord' = l,
           bottom' = bottom, table' = table, dealt' = dealt, play_count' = play_count
    PROVE  SInv'
<1>1. phase' \in {"rob", "double"} /\ \A s \in Seat : play_count[s] = 0
    BY DEF AskOrReveal, Reveal, SInv, CountInv, Before
<1>2. \A s \in Seat : hands'[s] = Given(s)'
    <2>1. hands = dealt.hands /\ ~bottom_revealed /\ bottom = dealt.bottom
        BY DEF IInv, CardInv
    <2>2. dealt.hands \in [Seat -> SUBSET Card] /\ dealt.bottom \in SUBSET Card
        BY PackHands DEF IInv, CardInv
    <2>3. CASE UNCHANGED <<hands, bottom_revealed>>
        BY <2>1, <2>3 DEF Given
    <2>4. CASE Reveal(l)
        BY <2>1, <2>2, <2>4 DEF Given, Reveal
    <2>5. QED BY <2>3, <2>4 DEF AskOrReveal
<1>3. CountInv' BY <1>1, <1>2 DEF SInv, CountInv
<1>4. LeadInv' /\ SpringInv' BY <1>1 DEF LeadInv, SpringInv
<1>5. QED BY <1>3, <1>4 DEF SInv

\* Steps that touch neither cards nor counts, and do not start the play.
LEMMA CountsKept ==
    ASSUME SInv, UNCHANGED <<cardVars, landlord, play_count, endVars, dealt>>,
           phase' = phase, UNCHANGED <<actor, last_play>> \/ phase # "play"
    PROVE  SInv'
<1>1. CountInv' BY DEF SInv, CountInv, cardVars, Given
<1>2. LeadInv' BY DEF SInv, LeadInv
<1>3. SpringInv' BY DEF SInv, SpringInv, endVars
<1>4. QED BY <1>1, <1>2, <1>3 DEF SInv

LEMMA DoubleCounts ==
    ASSUME SInv, IInv, NEW s \in Seat, NEW yes \in BOOLEAN, Double(s, yes) PROVE SInv'
<1>1. /\ UNCHANGED <<cardVars, landlord, play_count, endVars, dealt>>
      /\ phase = "double" /\ phase' \in {"double", "play"}
      /\ phase' = "play" => actor' = landlord /\ last_play' = NoPlay
    BY DEF Double, dealVars
<1>2. CountInv' BY <1>1 DEF SInv, CountInv, cardVars, Given
<1>3. LeadInv' /\ SpringInv' BY <1>1 DEF LeadInv, SpringInv
<1>4. QED BY <1>2, <1>3 DEF SInv

LEMMA PassCounts == ASSUME SInv, IInv, NEW s \in Seat, Pass(s) PROVE SInv'
<1>1. /\ UNCHANGED <<cardVars, landlord, play_count, endVars, dealt>>
      /\ phase = "play" /\ phase' = "play" /\ last_play # NoPlay
    BY DEF Pass, dealVars
<1>2. CountInv' BY <1>1 DEF SInv, CountInv, cardVars, Given
<1>3. play_count[landlord] # 0 BY <1>1 DEF SInv, LeadInv
<1>4. LeadInv' /\ SpringInv' BY <1>1, <1>3 DEF LeadInv, SpringInv
<1>5. QED BY <1>2, <1>4 DEF SInv

\* A play takes a hand away from what was given, for good.
LEMMA PlayCounts ==
    ASSUME SInv, IInv, NEW s \in Seat, NEW cards, NEW hit, Play(s, cards, hit) PROVE SInv'
<1>1. /\ phase = "play" /\ s = actor
      /\ cards # {} /\ cards \subseteq hands[s]
      /\ hands' = [hands EXCEPT ![s] = @ \ cards]
      /\ play_count' = [play_count EXCEPT ![s] = @ + 1]
      /\ UNCHANGED <<landlord, bottom, bottom_revealed, dealt>>
    BY DEF Play, dealVars
<1>2. hands \in [Seat -> SUBSET Card] /\ play_count \in [Seat -> Nat] /\ landlord \in Seat
    BY <1>1 DEF IInv, CardInv, AuctionInv, SInv, CountInv
<1>3. \A t \in Seat : play_count'[t] = IF t = s THEN play_count[t] + 1 ELSE play_count[t]
    BY <1>1, <1>2
<1>4. play_count' \in [Seat -> Nat] BY <1>1, <1>2
<1>5. \/ phase' = "play" /\ actor' = next_seat(s)
      \/ phase' = "settle" /\ Settle(s, play_count')
    BY DEF Play, Settle
<1>6. CountInv'
    <2>1. ASSUME NEW t \in Seat PROVE play_count'[t] = 0 <=> hands'[t] = Given(t)'
        <3>1. Given(t)' = Given(t) BY <1>1 DEF Given
        <3>2. CASE t # s
            BY <1>1, <1>2, <1>3, <3>1, <3>2 DEF SInv, CountInv
        <3>3. CASE t = s
            <4>1. hands'[t] = hands[s] \ cards BY <1>1, <1>2, <3>3
            <4>2. hands[s] \subseteq Given(t) BY <3>3 DEF IInv, CardInv
            <4>3. hands'[t] # Given(t) BY <1>1, <4>1, <4>2
            <4>4. play_count'[t] # 0 BY <1>2, <1>3, <3>3
            <4>5. QED BY <3>1, <4>3, <4>4
        <3>4. QED BY <3>2, <3>3
    <2>2. phase' \in {"play", "settle"} BY <1>5
    <2>3. QED BY <1>4, <2>1, <2>2 DEF CountInv
<1>7. play_count'[landlord] >= 1
    <2>1. CASE s = landlord BY <1>2, <1>3, <2>1
    <2>2. CASE s # landlord
        <3>1. play_count[landlord] # 0 BY <1>1, <2>2 DEF SInv, LeadInv
        <3>2. QED BY <1>2, <1>3, <2>2, <3>1
    <2>3. QED BY <2>1, <2>2
<1>8. play_count'[s] # 0 BY <1>2, <1>3
<1>9. LeadInv' BY <1>1, <1>7 DEF LeadInv
<1>10. SpringInv'
    <2> SUFFICES ASSUME phase' = "settle" PROVE SpringInv'
        BY DEF SpringInv
    <2>1. Settle(s, play_count') BY <1>5
    <2>2. spring' = "spring" <=> s = landlord /\ \A f \in Seat \ {landlord} : play_count'[f] = 0
        BY <2>1 DEF Settle, landlord_win
    <2>3. spring' = "anti" <=> s # landlord /\ play_count'[landlord] = 1
        BY <2>1 DEF Settle, landlord_win
    <2>4. winner_side' = "farmer" <=> s # landlord
        BY <2>1 DEF Settle, landlord_win
    <2>5. (\A f \in Seat \ {landlord} : play_count'[f] = 0) => s = landlord
        BY <1>8
    <2>6. landlord' = landlord BY <1>1
    <2>7. QED BY <1>7, <2>2, <2>3, <2>4, <2>5, <2>6 DEF SpringInv
<1>11. QED BY <1>6, <1>9, <1>10 DEF SInv

LEMMA RedealCounts ==
    ASSUME NEW first \in Seat, NEW pack \in Packs, Redeal(first, pack) PROVE SInv'
<1>1. CountInv' BY DEF Redeal, CountInv, Given
<1>2. LeadInv' /\ SpringInv' BY DEF Redeal, LeadInv, SpringInv
<1>3. QED BY <1>1, <1>2 DEF SInv

LEMMA SInvStep == SInv /\ IInv /\ [Next]_vars => SInv'
<1> SUFFICES ASSUME SInv, IInv, [Next]_vars PROVE SInv'
    OBVIOUS
<1>1. ASSUME NEW s \in Seat, SeatStep(s) PROVE SInv'
    <2>1. CASE CallLandlord(s)
        BY <2>1, AuctionCounts DEF CallLandlord, Before, playVars, dealVars
    <2>2. CASE PassCall(s)
        BY <2>2, CountsKept DEF PassCall, playVars, dealVars
    <2>3. CASE CallRedeal(s)
        BY <2>3, CountsKept DEF CallRedeal, playVars
    <2>4. CASE Rob(s)
        BY <2>4, AuctionCounts DEF Rob, Before, playVars, dealVars
    <2>5. CASE PassRob(s)
        <3>1. landlord \in Seat /\ phase \in Before
            BY <2>5, RobAuction DEF PassRob
        <3>2. QED BY <2>5, <3>1, AuctionCounts DEF PassRob, playVars, dealVars
    <2>6. CASE \E yes \in BOOLEAN : Double(s, yes) BY <2>6, DoubleCounts
    <2>7. CASE PlaySome(s) BY <2>7, PlayCounts DEF PlaySome
    <2>8. CASE Pass(s) BY <2>8, PassCounts
    <2>9. QED
        BY <1>1, <2>1, <2>2, <2>3, <2>4, <2>5, <2>6, <2>7, <2>8 DEF SeatStep
<1>2. CASE UNCHANGED vars
    BY <1>2, CountsKept DEF vars, playVars, dealVars
<1>3. QED BY <1>1, <1>2, RedealCounts DEF Next, Settled

LEMMA SInvHolds == Spec => []SInv
    BY InitSInv, SInvStep, Invariance, PTL DEF Spec

\* settle calls a spring exactly if the farmers still hold what they were
\* dealt, and an anti-spring exactly if the landlord has led once and lost;
\* the landlord has always led.
THEOREM SpringsAreTold == Spec => []SpringMeansUntouched
<1>1. IInv /\ SInv => SpringMeansUntouched
    <2> SUFFICES ASSUME IInv, SInv, phase = "settle" PROVE SpringMeansUntouched
        BY DEF SpringMeansUntouched
    <2>1. \A f \in Seat \ {landlord} : Given(f) = dealt.hands[f]
        BY DEF Given
    <2>2. \A f \in Seat \ {landlord} : play_count[f] = 0 <=> hands[f] = dealt.hands[f]
        BY <2>1 DEF SInv, CountInv
    <2>3. QED BY <2>2 DEF SInv, SpringInv, SpringMeansUntouched
<1>2. QED BY <1>1, Invariance, SInvHolds, PTL

-----------------------------------------------------------------------------
(* Types *)

\* A new pack is picked only while another deal is allowed.
DealsInv == DealsOK /\ (dealing => deals < MaxDeals)

\* What PlayOK and AuctionOK say beyond the invariants above.
SeatsInv ==
    /\ {caller, actor, landlord} \subseteq Seat \cup {NoSeat}
    /\ anyone_robbed \in BOOLEAN

DoublesInv == double_chosen \subseteq Seat /\ double_yes \subseteq double_chosen

LastPlayInv == last_play # NoPlay => last_play.seat \in Seat /\ last_play.size \in Nat \ {0}

TalliesInv == consecutive_pass \in 0..1 /\ bomb_rocket_count \in Nat

EndInv ==
    /\ winner_side \in {"", "landlord", "farmer"}
    /\ spring \in {"none", "spring", "anti"}
    /\ bottom_revealed \in BOOLEAN

FieldsInv == DoublesInv /\ LastPlayInv /\ TalliesInv /\ EndInv

LEMMA DealsStep == DealsInv /\ [Next]_vars => DealsInv'
<1> SUFFICES ASSUME DealsInv, [Next]_vars PROVE DealsInv'
    OBVIOUS
<1> USE DEF DealsInv, DealsOK
<1>1. ASSUME NEW s \in Seat, SeatStep(s) PROVE DealsInv'
    <2>1. CASE CallRedeal(s)
        <3>1. deals' = deals /\ deals < MaxDeals BY <2>1 DEF CallRedeal
        <3>2. dealing' \in BOOLEAN
            BY <2>1, GameThreadMayFailAssumption DEF CallRedeal
        <3>3. QED BY <3>1, <3>2
    <2>2. CASE UNCHANGED dealVars
        BY <2>2 DEF dealVars
    <2>3. UNCHANGED dealVars \/ CallRedeal(s)
        <3>1. CASE PlaySome(s) BY <3>1 DEF PlaySome, Play
        <3>2. CASE \E yes \in BOOLEAN : Double(s, yes) BY <3>2 DEF Double
        <3>3. QED
            BY <1>1, <3>1, <3>2 DEF SeatStep, CallLandlord, PassCall, Rob, PassRob, Pass
    <2>4. QED BY <2>1, <2>2, <2>3
<1>2. ASSUME NEW first \in Seat, NEW pack \in Packs, Redeal(first, pack) PROVE DealsInv'
    <2>1. dealing /\ dealing' = FALSE /\ deals' = deals + 1 BY <1>2 DEF Redeal
    <2>2. deals \in 1..MaxDeals /\ deals < MaxDeals BY <2>1
    <2>3. deals' \in 1..MaxDeals BY <2>1, <2>2, MaxDealsAssumption
    <2>4. QED BY <2>1, <2>3
<1>3. CASE UNCHANGED vars BY <1>3 DEF vars, dealVars
<1>4. QED BY <1>1, <1>2, <1>3 DEF Next, Settled

LEMMA FieldsKept ==
    FieldsInv /\ UNCHANGED <<doubleVars, playVars, endVars, bottom_revealed>> => FieldsInv'
<1> SUFFICES ASSUME FieldsInv, UNCHANGED <<doubleVars, playVars, endVars, bottom_revealed>>
             PROVE  FieldsInv'
    OBVIOUS
<1> USE DEF FieldsInv, doubleVars, playVars, endVars
<1>1. DoublesInv' BY DEF DoublesInv
<1>2. LastPlayInv' BY DEF LastPlayInv
<1>3. TalliesInv' BY DEF TalliesInv
<1>4. EndInv' BY DEF EndInv
<1>5. QED BY <1>1, <1>2, <1>3, <1>4

\* Asking the next seat, or revealing the bottom, names seats only.
LEMMA AskSeats ==
    ASSUME SeatsInv, FieldsInv, NEW s \in Seat, NEW c \in Seat, NEW l \in Seat, NEW done,
           NEW robbed \in BOOLEAN, AskOrReveal(next_seat(s), c, done, robbed, l),
           caller' = c, landlord' = l, anyone_robbed' = robbed, UNCHANGED playVars,
           UNCHANGED endVars
    PROVE  SeatsInv' /\ FieldsInv'
<1>1. CASE NextRobActor(next_seat(s), c, done, robbed) # {}
    <2>1. actor' \in Seat BY <1>1, ThreeSeats, RobActorFound DEF AskOrReveal
    <2>2. UNCHANGED <<bottom_revealed, doubleVars>> BY <1>1 DEF AskOrReveal
    <2>3. QED
        BY <2>1, <2>2 DEF SeatsInv, FieldsInv, DoublesInv, LastPlayInv, TalliesInv, EndInv,
                          playVars, endVars, doubleVars
<1>2. CASE Reveal(l)
    BY <1>2 DEF Reveal, SeatsInv, FieldsInv, DoublesInv, LastPlayInv, TalliesInv, EndInv,
                playVars, endVars
<1>3. QED BY <1>1, <1>2 DEF AskOrReveal

LEMMA PlayFields ==
    ASSUME SeatsInv, FieldsInv, IInv, NEW s \in Seat, NEW cards, NEW hit, Play(s, cards, hit)
    PROVE  SeatsInv' /\ FieldsInv'
<1>1. Cardinality(cards) \in Nat \ {0}
    <2>1. cards \subseteq Card /\ cards # {} BY DEF Play, IInv, CardInv
    <2>2. IsFiniteSet(Card) BY FS_Interval, 0 \in Int, 53 \in Int DEF Card
    <2>3. IsFiniteSet(cards) BY <2>1, <2>2, FS_Subset
    <2>4. QED BY <2>1, <2>3, FS_CardinalityType, FS_EmptySet
<1>2. last_play'.seat = s /\ last_play'.size = Cardinality(cards) BY DEF Play
<1>3. /\ UNCHANGED <<caller, landlord, anyone_robbed, double_chosen, double_yes,
                     bottom_revealed>>
      /\ consecutive_pass' = 0
      /\ bomb_rocket_count' \in {bomb_rocket_count, bomb_rocket_count + 1}
    BY DEF Play, auctionVars, doubleVars
<1>4. actor' \in Seat \cup {NoSeat} BY ThreeSeats DEF Play, Settle
<1>5. /\ winner_side' \in {"", "landlord", "farmer"}
      /\ spring' \in {"none", "spring", "anti"}
    BY DEF Play, Settle, endVars, FieldsInv, EndInv
<1>6. SeatsInv' BY <1>3, <1>4 DEF SeatsInv
<1>7. DoublesInv' BY <1>3 DEF FieldsInv, DoublesInv
<1>8. LastPlayInv' BY <1>1, <1>2 DEF LastPlayInv
<1>9. TalliesInv' BY <1>3 DEF FieldsInv, TalliesInv
<1>10. EndInv' BY <1>3, <1>5 DEF FieldsInv, EndInv
<1>11. QED BY <1>6, <1>7, <1>8, <1>9, <1>10 DEF FieldsInv

LEMMA DoubleFields ==
    ASSUME SeatsInv, FieldsInv, NEW s \in Seat, NEW yes \in BOOLEAN, Double(s, yes)
    PROVE  SeatsInv' /\ FieldsInv'
<1>1. SeatsInv' BY DEF Double, SeatsInv, auctionVars
<1>2. DoublesInv'
    <2>1. double_yes' \subseteq double_yes \cup {s} BY DEF Double
    <2>2. double_chosen' = double_chosen \cup {s} BY DEF Double
    <2>3. double_yes \subseteq double_chosen /\ double_chosen \subseteq Seat
        BY DEF FieldsInv, DoublesInv
    <2>4. QED BY <2>1, <2>2, <2>3 DEF DoublesInv
<1>3. LastPlayInv'
    <2>1. last_play' \in {last_play, NoPlay} BY DEF Double
    <2>2. QED BY <2>1 DEF FieldsInv, LastPlayInv
<1>4. TalliesInv'
    <2>1. consecutive_pass' \in {consecutive_pass, 0} BY DEF Double
    <2>2. bomb_rocket_count' = bomb_rocket_count BY DEF Double
    <2>3. QED BY <2>1, <2>2 DEF FieldsInv, TalliesInv
<1>5. EndInv' BY DEF Double, endVars, cardVars, FieldsInv, EndInv
<1>6. QED BY <1>1, <1>2, <1>3, <1>4, <1>5 DEF FieldsInv

LEMMA PassFields ==
    ASSUME SeatsInv, FieldsInv, NEW s \in Seat, Pass(s)
    PROVE  SeatsInv' /\ FieldsInv'
<1>1. last_play.seat \in Seat BY DEF Pass, FieldsInv, LastPlayInv
<1>2. actor' \in Seat BY <1>1, ThreeSeats DEF Pass
<1>3. SeatsInv' BY <1>2 DEF Pass, SeatsInv, auctionVars
<1>4. DoublesInv' BY DEF Pass, doubleVars, FieldsInv, DoublesInv
<1>5. LastPlayInv'
    <2>1. last_play' \in {last_play, NoPlay} BY DEF Pass
    <2>2. QED BY <2>1 DEF FieldsInv, LastPlayInv
<1>6. TalliesInv'
    <2>1. consecutive_pass \in 0..1 /\ bomb_rocket_count \in Nat
        BY DEF FieldsInv, TalliesInv
    <2>2. \/ consecutive_pass' = 0
          \/ ~TrickOver /\ consecutive_pass' = consecutive_pass + 1
        BY DEF Pass
    <2>3. consecutive_pass' \in 0..1 BY <2>1, <2>2 DEF TrickOver
    <2>4. bomb_rocket_count' = bomb_rocket_count BY DEF Pass
    <2>5. QED BY <2>1, <2>3, <2>4 DEF TalliesInv
<1>7. EndInv' BY DEF Pass, endVars, cardVars, FieldsInv, EndInv
<1>8. QED BY <1>3, <1>4, <1>5, <1>6, <1>7 DEF FieldsInv

\* What start_deal empties is typed.
EmptyGame ==
    /\ actor \in Seat /\ caller = NoSeat /\ landlord = NoSeat /\ anyone_robbed = FALSE
    /\ double_chosen = {} /\ double_yes = {} /\ last_play = NoPlay
    /\ consecutive_pass = 0 /\ bomb_rocket_count = 0
    /\ winner_side = "" /\ spring = "none" /\ bottom_revealed = FALSE

LEMMA NoTallies == consecutive_pass = 0 /\ bomb_rocket_count = 0 => TalliesInv
    BY DEF TalliesInv

LEMMA EmptyTyped == EmptyGame => SeatsInv /\ FieldsInv
<1> SUFFICES ASSUME EmptyGame PROVE SeatsInv /\ FieldsInv
    OBVIOUS
<1> USE DEF EmptyGame
<1>1. SeatsInv BY DEF SeatsInv
<1>2. DoublesInv BY DEF DoublesInv
<1>3. LastPlayInv BY DEF LastPlayInv
<1>4. consecutive_pass = 0 /\ bomb_rocket_count = 0 OBVIOUS
<1>5. TalliesInv BY <1>4, NoTallies
<1>6. EndInv BY DEF EndInv
<1>7. QED BY <1>1, <1>2, <1>3, <1>4, <1>5, <1>6 DEF FieldsInv

LEMMA EmptyTypedNext == EmptyGame' => SeatsInv' /\ FieldsInv'
<1>1. (EmptyGame => SeatsInv /\ FieldsInv)' BY EmptyTyped, PTL
<1>2. QED BY <1>1

LEMMA FieldsStep == SeatsInv /\ FieldsInv /\ IInv /\ [Next]_vars => SeatsInv' /\ FieldsInv'
<1> SUFFICES ASSUME SeatsInv, FieldsInv, IInv, [Next]_vars PROVE SeatsInv' /\ FieldsInv'
    OBVIOUS
<1>1. ASSUME NEW s \in Seat, SeatStep(s) PROVE SeatsInv' /\ FieldsInv'
    <2>1. CASE CallLandlord(s) BY <2>1, AskSeats DEF CallLandlord
    <2>2. CASE Rob(s)
        <3>1. caller \in Seat BY <2>2, RobAuction DEF Rob
        <3>2. QED BY <2>2, <3>1, AskSeats DEF Rob
    <2>3. CASE PassRob(s)
        <3>1. caller \in Seat /\ landlord \in Seat BY <2>3, RobAuction DEF PassRob
        <3>2. anyone_robbed \in BOOLEAN BY DEF SeatsInv
        <3>3. QED BY <2>3, <3>1, <3>2, AskSeats DEF PassRob
    <2>4. CASE PassCall(s)
        <3>1. /\ UNCHANGED <<caller, landlord, anyone_robbed, doubleVars, playVars, endVars,
                             bottom_revealed>>
              /\ actor' = next_seat(s)
            BY <2>4 DEF PassCall, cardVars
        <3>2. QED BY <3>1, ThreeSeats, FieldsKept DEF SeatsInv
    <2>5. CASE CallRedeal(s)
        <3>1. UNCHANGED <<caller, actor, landlord, anyone_robbed, doubleVars, playVars,
                          endVars, bottom_revealed>>
            BY <2>5 DEF CallRedeal, cardVars
        <3>2. QED BY <3>1, FieldsKept DEF SeatsInv
    <2>6. CASE \E yes \in BOOLEAN : Double(s, yes) BY <2>6, DoubleFields
    <2>7. CASE PlaySome(s) BY <2>7, PlayFields DEF PlaySome
    <2>8. CASE Pass(s) BY <2>8, PassFields
    <2>9. QED BY <1>1, <2>1, <2>2, <2>3, <2>4, <2>5, <2>6, <2>7, <2>8 DEF SeatStep
<1>2. ASSUME NEW first \in Seat, NEW pack \in Packs, Redeal(first, pack)
      PROVE  SeatsInv' /\ FieldsInv'
    BY <1>2, EmptyTypedNext DEF Redeal, EmptyGame
<1>3. CASE UNCHANGED vars
    BY <1>3, FieldsKept DEF vars, SeatsInv, auctionVars, cardVars
<1>4. QED BY <1>1, <1>2, <1>3 DEF Next, Settled

TInv == DealsInv /\ SeatsInv /\ FieldsInv

LEMMA TInvHolds == Spec => []TInv
<1>1. Init => TInv
    <2>1. Init => DealsInv
        <3>1. Init => dealing = FALSE /\ deals = 1 BY DEF Init
        <3>2. deals = 1 => deals \in 1..MaxDeals BY MaxDealsAssumption
        <3>3. QED BY <3>1, <3>2 DEF DealsInv, DealsOK
    <2>2. Init => SeatsInv /\ FieldsInv BY EmptyTyped DEF Init, EmptyGame
    <2>3. QED BY <2>1, <2>2 DEF TInv
<1>2. TInv /\ IInv /\ [Next]_vars => TInv' BY DealsStep, FieldsStep DEF TInv
<1>3. QED BY <1>1, <1>2, Invariance, PTL DEF Spec

\* Whatever is dealt, called and played, the fields of a small game are typed:
\* seats are seats, cards are cards, and no counter goes below nought.
THEOREM TypeCorrect == Spec => []TypeOK
<1>1. IInv /\ SInv /\ MultInv /\ TInv /\ AnswerInv => TypeOK
    <2> SUFFICES ASSUME IInv, SInv, MultInv, TInv, AnswerInv PROVE TypeOK
        OBVIOUS
    <2>1. AuctionOK
        <3>1. public_mult \in Nat \ {0} BY BaseScorePositive DEF MultInv
        <3>2. answers \in Seq(Answer) BY DEF AnswerInv
        <3>3. QED BY <3>1, <3>2 DEF AuctionOK, IInv, AuctionInv, Before, After, TInv, SeatsInv
    <2>2. CardsOK
        <3>1. dealt \in Packs /\ bottom = dealt.bottom /\ hands \in [Seat -> SUBSET Card]
            BY DEF IInv, CardInv
        <3>2. bottom \subseteq Card BY <3>1, PackHands
        <3>3. \A s \in Seat : Given(s) \subseteq Card
            BY <3>1, PackHands DEF Given
        <3>4. table \subseteq UNION {Given(s) : s \in Seat} BY DEF IInv, CardInv
        <3>5. table \subseteq Card BY <3>3, <3>4
        <3>6. QED BY <3>1, <3>2, <3>5 DEF CardsOK, TInv, FieldsInv, EndInv
    <2>3. PlayOK
        BY DEF PlayOK, SInv, CountInv, TInv, FieldsInv, DoublesInv, LastPlayInv, TalliesInv,
               EndInv
    <2>4. DealsOK BY DEF TInv, DealsInv
    <2>5. QED BY <2>1, <2>2, <2>3, <2>4 DEF TypeOK
<1>2. QED BY <1>1, Invariance, SInvHolds, MultHolds, TInvHolds, AnswersHold, PTL

-----------------------------------------------------------------------------
(* Scores *)

\* The powers of two a small game can reach: three robs, thirteen bombs and
\* the rocket, a spring, and two choices to double.
LEMMA Powers ==
    ASSUME NEW n \in 0..20
    PROVE  2^(n + 1) = 2 * 2^n /\ 2^n \in Nat \ {0} /\ 2^n <= 2^20
<1>1. CASE n = 0 BY <1>1
<1>2. CASE n = 1 BY <1>2
<1>3. CASE n = 2 BY <1>3
<1>4. CASE n = 3 BY <1>4
<1>5. CASE n = 4 BY <1>5
<1>6. CASE n = 5 BY <1>6
<1>7. CASE n = 6 BY <1>7
<1>8. CASE n = 7 BY <1>8
<1>9. CASE n = 8 BY <1>9
<1>10. CASE n = 9 BY <1>10
<1>11. CASE n = 10 BY <1>11
<1>12. CASE n = 11 BY <1>12
<1>13. CASE n = 12 BY <1>13
<1>14. CASE n = 13 BY <1>14
<1>15. CASE n = 14 BY <1>15
<1>16. CASE n = 15 BY <1>16
<1>17. CASE n = 16 BY <1>17
<1>18. CASE n = 17 BY <1>18
<1>19. CASE n = 18 BY <1>19
<1>20. CASE n = 19 BY <1>20
<1>21. CASE n = 20 BY <1>21
<1>22. QED
    BY <1>1, <1>2, <1>3, <1>4, <1>5, <1>6, <1>7, <1>8, <1>9, <1>10, <1>11,
       <1>12, <1>13, <1>14, <1>15, <1>16, <1>17, <1>18, <1>19, <1>20, <1>21

\* Two different things are two.
LEMMA PairSize ==
    ASSUME NEW a, NEW b, a # b
    PROVE  Cardinality({a, b}) = 2
<1>1. IsFiniteSet({a}) /\ Cardinality({a}) = 1 BY FS_Singleton
<1>2. b \notin {a} OBVIOUS
<1>3. Cardinality({a} \cup {b}) = Cardinality({a}) + 1 BY <1>1, <1>2, FS_AddElement
<1>4. {a} \cup {b} = {a, b} OBVIOUS
<1>5. QED BY <1>1, <1>3, <1>4

\* A bomb takes four cards; the rocket the two jokers, which there are once.
LEMMA BombCards ==
    ASSUME NEW cards \in SUBSET Card, NEW hit \in all_hits(counts_of(cards)), IsBomb(hit)
    PROVE  \/ Cardinality(cards) >= 4
           \/ Cardinality(cards) >= 2 /\ 53 \in cards
<1> DEFINE cnt == counts_of(cards)
           of(r) == {c \in cards : rank_of(c) = r}
<1>1. IsFiniteSet(cards) BY FS_Interval, FS_Subset, 0 \in Int, 53 \in Int DEF Card
<1>2. \A r \in Rank : /\ cnt[r] = Cardinality(of(r))
                      /\ Cardinality(of(r)) <= Cardinality(cards)
    <2>1. \A r \in Rank : cnt[r] = Cardinality(of(r)) BY DEF counts_of
    <2>2. \A r : of(r) \in SUBSET cards OBVIOUS
    <2>3. QED BY <1>1, <2>1, <2>2, FS_Subset
<1>3. Cardinality(cards) \in Nat BY <1>1, FS_CardinalityType
<1>4. PICK p \in Pattern : hit.pattern = p /\ hit.key \in KeysAs(cnt)[p]
    BY DEF all_hits
<1>5. CASE p = "bomb"
    <2>1. hit.key \in match_bomb(cnt) BY <1>4, <1>5 DEF KeysAs
    <2>2. hit.key \in Rank /\ cnt[hit.key] = 4
        BY <2>1 DEF match_bomb, With, NumberRank, Rank, RANK_3, RANK_2, RANK_D
    <2>3. QED BY <1>2, <2>2
<1>6. CASE p = "rocket"
    <2>1. hit.key \in match_rocket(cnt) BY <1>4, <1>6 DEF KeysAs
    <2>2. cnt[RANK_X] = 1 /\ cnt[RANK_D] = 1 BY <2>1 DEF match_rocket
    <2>3. of(RANK_X) # {} /\ of(RANK_D) # {}
        <3>1. RANK_X \in Rank /\ RANK_D \in Rank
            BY DEF Rank, RANK_3, RANK_X, RANK_D
        <3>2. QED BY <1>2, <2>2, <3>1, FS_EmptySet
    <2>4. \A c \in cards : /\ rank_of(c) = RANK_X => c = 52
                           /\ rank_of(c) = RANK_D => c = 53
        BY DEF rank_of, RANK_X, RANK_D, Card
    <2>5. PICK x \in cards, y \in cards : x = 52 /\ y = 53 BY <2>3, <2>4
    <2>6. x # y BY <2>5
    <2>7. Cardinality({x, y}) = 2 BY <2>6, PairSize
    <2>8. Cardinality({x, y}) <= Cardinality(cards)
        <3>1. {x, y} \in SUBSET cards OBVIOUS
        <3>2. QED BY <1>1, <3>1, FS_Subset
    <2>9. Cardinality(cards) \in Nat BY <1>1, FS_CardinalityType
    <2>10. QED BY <2>5, <2>7, <2>8, <2>9
<1>7. QED BY <1>4, <1>5, <1>6 DEF IsBomb

\* Robs and bombs leave their traces, and each has doubled the multiplier.
RunInv ==
    /\ bomb_rocket_count \in Nat
    /\ rob_count <= Cardinality(rob_done)
    /\ 4 * bomb_rocket_count <= Cardinality(table) + (IF 53 \in table THEN 2 ELSE 0)
    /\ public_mult = base_score * 2^(rob_count + bomb_rocket_count)

LEMMA UpTo ==
    ASSUME NEW n \in Nat
    PROVE  IsFiniteSet(0..n) /\ Cardinality(0..n) = n + 1
<1>1. 0 \in Int /\ n \in Int /\ ~(0 > n) /\ n - 0 + 1 = n + 1 OBVIOUS
<1>2. IsFiniteSet(0..n) /\ Cardinality(0..n) = n - 0 + 1 BY <1>1, FS_Interval, Zenon
<1>3. QED BY <1>1, <1>2

LEMMA UnderUpTo ==
    ASSUME NEW n \in Nat, NEW T \in SUBSET (0..n)
    PROVE  IsFiniteSet(T) /\ Cardinality(T) \in Nat /\ Cardinality(T) <= n + 1
<1>1. IsFiniteSet(0..n) /\ Cardinality(0..n) = n + 1 BY UpTo
<1>2. IsFiniteSet(T) /\ Cardinality(T) <= Cardinality(0..n) BY <1>1, FS_Subset
<1>3. Cardinality(T) \in Nat BY <1>2, FS_CardinalityType
<1>4. QED BY <1>1, <1>2, <1>3

LEMMA Traces ==
    ASSUME IInv
    PROVE  /\ IsFiniteSet(rob_done) /\ Cardinality(rob_done) \in 0..3
           /\ table \in SUBSET Card /\ IsFiniteSet(table) /\ Cardinality(table) \in 0..54
           /\ rob_count \in Nat
<1>1. rob_done \in SUBSET (0..2) /\ rob_count \in Nat BY DEF IInv, AuctionInv, Seat
<1>2. table \in SUBSET (0..53)
    <2>1. \A s \in Seat : Given(s) \subseteq Card BY PackHands DEF IInv, CardInv, Given
    <2>2. table \subseteq UNION {Given(s) : s \in Seat} BY DEF IInv, CardInv
    <2>3. QED BY <2>1, <2>2 DEF Card
<1>3. /\ IsFiniteSet(rob_done) /\ Cardinality(rob_done) \in Nat
      /\ Cardinality(rob_done) <= 2 + 1
    BY ONLY <1>1, 2 \in Nat, UnderUpTo
<1>4. /\ IsFiniteSet(table) /\ Cardinality(table) \in Nat
      /\ Cardinality(table) <= 53 + 1
    BY ONLY <1>2, 53 \in Nat, UnderUpTo
<1>5. QED BY <1>1, <1>2, <1>3, <1>4 DEF Card

\* So there are three robs and fourteen bombs and rockets at most.
LEMMA DoublingsFew ==
    ASSUME IInv, RunInv
    PROVE  /\ rob_count + bomb_rocket_count \in 0..17
           /\ rob_count \in 0..3 /\ bomb_rocket_count \in 0..14
<1>1. rob_count \in 0..3 BY Traces DEF RunInv
<1>2. 4 * bomb_rocket_count <= 56 BY Traces DEF RunInv
<1>3. bomb_rocket_count \in 0..14 BY <1>2 DEF RunInv
<1>4. QED BY <1>1, <1>3

\* One more rob or bomb doubles the multiplier once more.
LEMMA OneMore ==
    ASSUME IInv, RunInv, public_mult' = public_mult * 2,
           NEW n \in Nat, n = rob_count + bomb_rocket_count,
           rob_count' + bomb_rocket_count' = n + 1
    PROVE  public_mult' = base_score' * 2^(rob_count' + bomb_rocket_count')
<1>1. n \in 0..20 BY DoublingsFew
<1>2. PICK p : p = 2^n OBVIOUS
<1>3. 2^(rob_count' + bomb_rocket_count') = 2 * p BY <1>1, <1>2, Powers
<1>4. public_mult = base_score * p BY <1>2 DEF RunInv
<1>5. base_score' = base_score /\ base_score \in Int BY BaseScorePositive DEF base_score
<1>6. p \in Int BY <1>1, <1>2, Powers
<1>7. (base_score * p) * 2 = base_score * (2 * p) BY <1>5, <1>6
<1>8. QED BY <1>3, <1>4, <1>5, <1>7

LEMMA RunKept ==
    ASSUME RunInv, UNCHANGED <<rob_count, bomb_rocket_count, rob_done, table, public_mult>>
    PROVE  RunInv'
BY DEF RunInv, base_score

LEMMA RobRun == ASSUME IInv, RunInv, NEW s \in Seat, Rob(s) PROVE RunInv'
<1>1. /\ s \notin rob_done /\ rob_done' = rob_done \cup {s}
      /\ rob_count' = rob_count + 1 /\ public_mult' = public_mult * 2
      /\ UNCHANGED <<bomb_rocket_count, table>>
    BY DEF Rob, IInv, AuctionInv, playVars
<1>2. Cardinality(rob_done') = Cardinality(rob_done) + 1 BY <1>1, Traces, FS_AddElement
<1>3. rob_count' <= Cardinality(rob_done') BY <1>1, <1>2, Traces DEF RunInv
<1>4. \E n \in Nat : n = rob_count + bomb_rocket_count
        /\ rob_count' + bomb_rocket_count' = n + 1
    BY <1>1, DoublingsFew
<1>5. public_mult' = base_score' * 2^(rob_count' + bomb_rocket_count')
    BY <1>1, <1>4, OneMore
<1>6. QED BY <1>1, <1>3, <1>5 DEF RunInv

LEMMA PassRobRun == ASSUME IInv, RunInv, NEW s \in Seat, PassRob(s) PROVE RunInv'
<1>1. /\ rob_done' = rob_done \cup {s}
      /\ UNCHANGED <<rob_count, bomb_rocket_count, table, public_mult>>
    BY DEF PassRob, playVars
<1>2. Cardinality(rob_done') \in {Cardinality(rob_done), Cardinality(rob_done) + 1}
    BY <1>1, Traces, FS_AddElement
<1>3. rob_count' <= Cardinality(rob_done') BY <1>1, <1>2, Traces DEF RunInv
<1>4. QED BY <1>1, <1>3 DEF RunInv, base_score

LEMMA PlayRun ==
    ASSUME IInv, RunInv, NEW s \in Seat, NEW cards, NEW hit \in all_hits(counts_of(cards)),
           Play(s, cards, hit)
    PROVE  RunInv'
<1>1. /\ cards \subseteq hands[s] /\ table' = table \cup cards
      /\ UNCHANGED <<rob_count, rob_done>>
    BY DEF Play, auctionVars
<1>2. cards \in SUBSET Card /\ cards \cap table = {} BY <1>1 DEF IInv, CardInv
<1>3. IsFiniteSet(cards) BY <1>2, UpTo, FS_Subset, 53 \in Nat DEF Card
<1>4. Cardinality(cards) \in Nat /\ Cardinality(table) \in Nat
    BY <1>3, Traces, FS_CardinalityType
<1>5. Cardinality(table') = Cardinality(table) + Cardinality(cards)
    <2>1. table \cap cards = {} /\ Cardinality({}) = 0 BY <1>2, FS_EmptySet
    <2>2. Cardinality(table \cup cards) = Cardinality(table) + Cardinality(cards) - 0
        BY <1>3, <2>1, Traces, FS_Union
    <2>3. QED BY <1>1, <1>4, <2>2
<1>6. 53 \in table' <=> 53 \in table \/ 53 \in cards BY <1>1
<1>7. CASE ~IsBomb(hit)
    <2>1. UNCHANGED <<bomb_rocket_count, public_mult>> BY <1>7 DEF Play
    <2>2. 4 * bomb_rocket_count' <= Cardinality(table') + (IF 53 \in table' THEN 2 ELSE 0)
        BY <1>4, <1>5, <1>6, <2>1 DEF RunInv
    <2>3. QED BY <1>1, <2>1, <2>2 DEF RunInv, base_score
<1>8. CASE IsBomb(hit)
    <2>1. bomb_rocket_count' = bomb_rocket_count + 1 /\ public_mult' = public_mult * 2
        BY <1>8 DEF Play
    <2>2. 4 * bomb_rocket_count' <= Cardinality(table') + (IF 53 \in table' THEN 2 ELSE 0)
        <3>1. CASE Cardinality(cards) >= 4
            BY <1>4, <1>5, <1>6, <2>1, <3>1 DEF RunInv
        <3>2. CASE Cardinality(cards) >= 2 /\ 53 \in cards
            <4>1. 53 \notin table BY <1>2, <3>2
            <4>2. QED BY <1>4, <1>5, <1>6, <2>1, <3>2, <4>1 DEF RunInv
        <3>3. QED BY <1>2, <1>8, <3>1, <3>2, BombCards
    <2>3. \E n \in Nat : n = rob_count + bomb_rocket_count
            /\ rob_count' + bomb_rocket_count' = n + 1
        BY <1>1, <2>1, DoublingsFew
    <2>4. public_mult' = base_score' * 2^(rob_count' + bomb_rocket_count')
        BY <2>1, <2>3, OneMore
    <2>5. QED BY <1>1, <2>1, <2>2, <2>4 DEF RunInv
<1>9. QED BY <1>7, <1>8

LEMMA FreshRun ==
    ASSUME NEW b \in Int
    PROVE  b = b * 2^(0 + 0)
<1>1. 2^0 = 1 OBVIOUS
<1>2. 0 + 0 = 0 OBVIOUS
<1>3. QED BY <1>1, <1>2

LEMMA RunStep == IInv /\ RunInv /\ [Next]_vars => RunInv'
<1> SUFFICES ASSUME IInv, RunInv, [Next]_vars PROVE RunInv' OBVIOUS
<1>1. ASSUME NEW s \in Seat, SeatStep(s) PROVE RunInv'
    <2>1. CASE CallLandlord(s)
        <3>1. phase = "call" /\ rob_done' = {} /\ rob_done = {}
            BY <2>1 DEF CallLandlord, IInv, AuctionInv
        <3>2. QED BY <2>1, <3>1, RunKept DEF CallLandlord, playVars
    <2>2. CASE PassCall(s) \/ CallRedeal(s) \/ (\E yes \in BOOLEAN : Double(s, yes)) \/ Pass(s)
        BY <2>2, RunKept
           DEF PassCall, CallRedeal, Double, Pass, cardVars, playVars, auctionVars
    <2>3. CASE Rob(s) BY <2>3, RobRun
    <2>4. CASE PassRob(s) BY <2>4, PassRobRun
    <2>5. CASE PlaySome(s)
        <3>1. PICK play \in LegalPlays : Play(s, play.cards, play.hit) BY <2>5 DEF PlaySome
        <3>2. play.hit \in all_hits(counts_of(play.cards)) BY DEF LegalPlays
        <3>3. QED BY <3>1, <3>2, PlayRun
    <2>6. QED BY <1>1, <2>1, <2>2, <2>3, <2>4, <2>5 DEF SeatStep
<1>2. ASSUME NEW first \in Seat, NEW pack \in Packs, Redeal(first, pack) PROVE RunInv'
    <2>1. /\ rob_count' = 0 /\ bomb_rocket_count' = 0 /\ rob_done' = {} /\ table' = {}
          /\ public_mult' = base_score /\ base_score' = base_score
        BY <1>2 DEF Redeal, base_score
    <2>2. QED BY <2>1, FreshRun, BaseScorePositive, FS_EmptySet DEF RunInv
<1>3. CASE UNCHANGED vars
    BY <1>3, RunKept DEF vars, auctionVars, cardVars, playVars
<1>4. QED BY <1>1, <1>2, <1>3 DEF Next, Settled

LEMMA RunHolds == Spec => []RunInv
<1>1. Init => RunInv
    <2>1. Init => /\ rob_count = 0 /\ bomb_rocket_count = 0 /\ rob_done = {} /\ table = {}
                  /\ public_mult = base_score
        BY DEF Init
    <2>2. QED BY <2>1, FreshRun, BaseScorePositive, FS_EmptySet DEF RunInv
<1>2. QED BY <1>1, RunStep, Invariance, PTL DEF Spec

WonInv == phase = "settle" => winner_side \in {"landlord", "farmer"}

LEMMA WonHolds == Spec => []WonInv
<1>1. Init => WonInv BY DEF Init, WonInv
<1>2. WonInv /\ [Next]_vars => WonInv'
    <2> SUFFICES ASSUME WonInv, [Next]_vars, phase' = "settle"
                 PROVE  winner_side' \in {"landlord", "farmer"}
        BY DEF WonInv
    <2>1. ASSUME NEW s \in Seat, SeatStep(s) PROVE winner_side' \in {"landlord", "farmer"}
        <3>1. CASE PlaySome(s) BY <3>1 DEF PlaySome, Play, Settle
        <3>2. CASE CallLandlord(s) \/ Rob(s) \/ PassRob(s)
            BY <3>2 DEF CallLandlord, Rob, PassRob, AskOrReveal, Reveal
        <3>3. CASE PassCall(s) \/ CallRedeal(s) \/ Pass(s)
            BY <3>3 DEF PassCall, CallRedeal, Pass
        <3>4. CASE \E yes \in BOOLEAN : Double(s, yes) BY <3>4 DEF Double
        <3>5. QED BY <2>1, <3>1, <3>2, <3>3, <3>4 DEF SeatStep
    <2>2. CASE UNCHANGED vars BY <2>2 DEF vars, endVars, WonInv
    <2>3. ASSUME NEW first \in Seat, NEW pack \in Packs, Redeal(first, pack) PROVE FALSE
        BY <2>3 DEF Redeal
    <2>4. QED BY <2>1, <2>2, <2>3 DEF Next, Settled
<1>3. QED BY <1>1, <1>2, PTL DEF Spec

\* What each of a farmer and the landlord has chosen to double.
LEMMA TwoFactors ==
    ASSUME landlord \in Seat, NEW f \in Seat \ {landlord}
    PROVE  LET c == Cardinality(double_yes \cap {landlord, f})
           IN  \/ c = 0 /\ Factor(landlord) = 1 /\ Factor(f) = 1
               \/ c = 1 /\ Factor(landlord) = 1 /\ Factor(f) = 2
               \/ c = 1 /\ Factor(landlord) = 2 /\ Factor(f) = 1
               \/ c = 2 /\ Factor(landlord) = 2 /\ Factor(f) = 2
<1> DEFINE both == double_yes \cap {landlord, f}
<1>1. /\ Cardinality({}) = 0 /\ Cardinality({landlord}) = 1 /\ Cardinality({f}) = 1
      /\ Cardinality({landlord, f}) = 2
    <2>1. IsFiniteSet({landlord}) /\ Cardinality({landlord}) = 1 /\ Cardinality({f}) = 1
        BY FS_Singleton
    <2>2. Cardinality({landlord} \cup {f}) = 2 BY <2>1, FS_AddElement
    <2>3. {landlord} \cup {f} = {landlord, f} OBVIOUS
    <2>4. QED BY <2>1, <2>2, <2>3, FS_EmptySet
<1>2. CASE landlord \notin double_yes /\ f \notin double_yes
    <2>1. both = {} BY <1>2
    <2>2. QED BY <1>1, <1>2, <2>1 DEF Factor
<1>3. CASE landlord \notin double_yes /\ f \in double_yes
    <2>1. both = {f} BY <1>3
    <2>2. QED BY <1>1, <1>3, <2>1 DEF Factor
<1>4. CASE landlord \in double_yes /\ f \notin double_yes
    <2>1. both = {landlord} BY <1>4
    <2>2. QED BY <1>1, <1>4, <2>1 DEF Factor
<1>5. CASE landlord \in double_yes /\ f \in double_yes
    <2>1. both = {landlord, f} BY <1>5
    <2>2. QED BY <1>1, <1>5, <2>1 DEF Factor
<1>6. QED BY <1>2, <1>3, <1>4, <1>5

LEMMA FarmerPaysPower ==
    ASSUME IInv, RunInv, phase = "settle", NEW f \in Seat \ {landlord}
    PROVE  /\ Doublings(f) \in 0..20
           /\ farmer_u(f) = base_score * 2^Doublings(f)
<1>1. landlord \in Seat BY DEF IInv, AuctionInv
<1>2. PICK n \in 0..17 : n = rob_count + bomb_rocket_count BY DoublingsFew
<1>3. PICK c \in 0..2 : c = Cardinality(double_yes \cap {landlord, f}) BY <1>1, TwoFactors
<1>4. PICK d \in 0..1 : d = IF spring # "none" THEN 1 ELSE 0 OBVIOUS
<1>5. Doublings(f) = n + c + d /\ n + c + d \in 0..20
    BY <1>2, <1>3, <1>4, DoublingsFew DEF Doublings
<1>6. PICK p \in Int : p = 2^n BY <1>2
<1>7. PICK b \in Int : b = base_score /\ b >= 1 BY BaseScorePositive
<1>8. public_mult = b * p BY <1>2, <1>6, <1>7 DEF RunInv
<1>9. /\ 2^(n + 1) = 2 * p /\ 2^(n + 2) = 4 * p /\ 2^(n + 3) = 8 * p
    <2>1. n \in 0..20 /\ n + 1 \in 0..20 /\ n + 2 \in 0..20 BY <1>2
    <2>2. (n + 1) + 1 = n + 2 /\ (n + 2) + 1 = n + 3 BY <1>2
    <2>3. 2^(n + 1) = 2 * p BY <1>6, <2>1, Powers
    <2>4. 2^(n + 2) = 2 * (2 * p) BY <2>1, <2>2, <2>3, Powers
    <2>5. 2^(n + 3) = 2 * (2 * (2 * p)) BY <2>1, <2>2, <2>4, Powers
    <2>6. QED BY <1>6, <2>3, <2>4, <2>5
<1>10. display_mult = IF d = 1 THEN (b * p) * 2 ELSE b * p
    BY <1>4, <1>8 DEF display_mult
<1>11. farmer_u(f) = display_mult * (IF c = 2 THEN 4 ELSE IF c = 1 THEN 2 ELSE 1)
    <2>1. display_mult \in Int BY <1>6, <1>7, <1>10
    <2>2. \/ c = 0 /\ Factor(landlord) = 1 /\ Factor(f) = 1
          \/ c = 1 /\ Factor(landlord) = 1 /\ Factor(f) = 2
          \/ c = 1 /\ Factor(landlord) = 2 /\ Factor(f) = 1
          \/ c = 2 /\ Factor(landlord) = 2 /\ Factor(f) = 2
        BY <1>1, <1>3, TwoFactors
    <2>3. QED BY <2>1, <2>2 DEF farmer_u
<1>12. farmer_u(f) = b * 2^(n + c + d)
    <2>1. CASE c = 0 /\ d = 0
        <3>1. n + c + d = n BY <2>1
        <3>2. QED BY <1>6, <1>7, <1>10, <1>11, <2>1, <3>1
    <2>2. CASE (c = 1 /\ d = 0) \/ (c = 0 /\ d = 1)
        <3>1. n + c + d = n + 1 BY <2>2
        <3>2. farmer_u(f) = (b * p) * 2 BY <1>6, <1>7, <1>10, <1>11, <2>2
        <3>3. QED BY <1>6, <1>7, <1>9, <3>1, <3>2
    <2>3. CASE (c = 2 /\ d = 0) \/ (c = 1 /\ d = 1)
        <3>1. n + c + d = n + 2 BY <2>3
        <3>2. farmer_u(f) = (b * p) * 4 BY <1>6, <1>7, <1>10, <1>11, <2>3
        <3>3. QED BY <1>6, <1>7, <1>9, <3>1, <3>2
    <2>4. CASE c = 2 /\ d = 1
        <3>1. n + c + d = n + 3 BY <2>4
        <3>2. farmer_u(f) = (b * p) * 8 BY <1>6, <1>7, <1>10, <1>11, <2>4
        <3>3. QED BY <1>6, <1>7, <1>9, <3>1, <3>2
    <2>5. QED BY <2>1, <2>2, <2>3, <2>4
<1>13. QED BY <1>5, <1>7, <1>12

LEMMA ScoreParts ==
    ASSUME IInv, RunInv, WonInv, phase = "settle"
    PROVE  /\ \A f \in Seat \ {landlord} :
                seat_score(f) = IF Wins(f) THEN farmer_u(f) ELSE -farmer_u(f)
           /\ \E f, g \in Seat \ {landlord} :
                /\ f # g /\ Seat = {landlord, f, g}
                /\ seat_score(landlord) = -(seat_score(f) + seat_score(g))
<1> DEFINE f == next_seat(landlord)
           g == second_seat(landlord)
<1>1. landlord \in Seat /\ landlord # NoSeat
    BY DEF IInv, AuctionInv, Seat, NoSeat
<1>2. /\ f \in Seat \ {landlord} /\ g \in Seat \ {landlord} /\ f # g
      /\ Seat = {landlord, f, g}
    BY <1>1, ThreeSeats
<1>3. winner_side \in {"landlord", "farmer"} BY DEF WonInv
<1>4. \A h \in Seat \ {landlord} :
        /\ seat_score(h) = IF Wins(h) THEN farmer_u(h) ELSE -farmer_u(h)
        /\ Wins(h) <=> ~Wins(landlord)
    BY <1>1, <1>3 DEF seat_score, seat_mult, Wins
<1>5. seat_score(landlord) =
        IF Wins(landlord) THEN farmer_u(f) + farmer_u(g) ELSE -(farmer_u(f) + farmer_u(g))
    BY <1>1, <1>3 DEF seat_score, seat_mult, second_seat
<1>6. farmer_u(f) \in Int /\ farmer_u(g) \in Int
    <2>1. ASSUME NEW h \in Seat \ {landlord} PROVE farmer_u(h) \in Int
        <3>1. PICK n \in 0..20 : farmer_u(h) = base_score * 2^n BY FarmerPaysPower
        <3>2. 2^n \in Int BY Powers
        <3>3. QED BY <3>1, <3>2, BaseScorePositive
    <2>2. QED BY <1>2, <2>1
<1>7. seat_score(landlord) = -(seat_score(f) + seat_score(g))
    <2>1. CASE Wins(landlord)
        <3>1. seat_score(f) = -farmer_u(f) /\ seat_score(g) = -farmer_u(g)
            BY <1>2, <1>4, <2>1
        <3>2. seat_score(landlord) = farmer_u(f) + farmer_u(g) BY <1>5, <2>1
        <3>3. QED BY <1>6, <3>1, <3>2
    <2>2. CASE ~Wins(landlord)
        <3>1. seat_score(f) = farmer_u(f) /\ seat_score(g) = farmer_u(g)
            BY <1>2, <1>4, <2>2
        <3>2. seat_score(landlord) = -(farmer_u(f) + farmer_u(g)) BY <1>5, <2>2
        <3>3. QED BY <3>1, <3>2
    <2>3. QED BY <2>1, <2>2
<1>8. QED BY <1>2, <1>4, <1>7

\* A settled game adds up to nothing, and each farmer wins or loses the base
\* score, doubled exactly as often as there were robs, bombs and rockets, a
\* spring, and choices to double of the two (settle, seat_mult, seat_score).
THEOREM ScoresAreSettled == Spec => []ScoresSettle
<1>1. IInv /\ RunInv /\ WonInv => ScoresSettle
    <2> SUFFICES ASSUME IInv, RunInv, WonInv, phase = "settle" PROVE ScoresSettle
        BY DEF ScoresSettle
    <2>1. ASSUME NEW f \in Seat \ {landlord}
          PROVE  /\ seat_score(f) = base_score * 2^Doublings(f) * (IF Wins(f) THEN 1 ELSE -1)
                 /\ seat_score(f) \in Int
        <3>1. PICK n \in 0..20 : n = Doublings(f) /\ farmer_u(f) = base_score * 2^n
            BY FarmerPaysPower
        <3>2. PICK p \in Int : p = 2^n BY Powers
        <3>3. PICK u \in Int : u = base_score * p BY <3>2, BaseScorePositive
        <3>4. seat_score(f) = IF Wins(f) THEN u ELSE -u
            BY <3>1, <3>2, <3>3, ScoreParts
        <3>5. seat_score(f) = u * (IF Wins(f) THEN 1 ELSE -1) BY <3>4
        <3>6. QED BY <3>1, <3>2, <3>3, <3>4, <3>5
    <2>2. seat_score(0) + seat_score(1) + seat_score(2) = 0
        <3>1. PICK f \in Seat \ {landlord}, g \in Seat \ {landlord} :
                /\ f # g /\ Seat = {landlord, f, g}
                /\ seat_score(landlord) = -(seat_score(f) + seat_score(g))
            BY ScoreParts
        <3>2. PICK x \in Int, y \in Int : x = seat_score(f) /\ y = seat_score(g) BY <2>1
        <3>3. seat_score(landlord) = -(x + y) BY <3>1, <3>2
        <3>4. {0, 1, 2} = {landlord, f, g} BY <3>1 DEF Seat
        <3>5. \/ landlord = 0 /\ f = 1 /\ g = 2
              \/ landlord = 0 /\ f = 2 /\ g = 1
              \/ landlord = 1 /\ f = 0 /\ g = 2
              \/ landlord = 1 /\ f = 2 /\ g = 0
              \/ landlord = 2 /\ f = 0 /\ g = 1
              \/ landlord = 2 /\ f = 1 /\ g = 0
            BY <3>1, <3>4
        <3>6. QED BY <3>2, <3>3, <3>5
    <2>3. QED BY <2>1, <2>2 DEF ScoresSettle
<1>2. QED BY <1>1, Invariance, RunHolds, WonHolds, PTL

\* public_mult_ and the scores are an int: three robs and fourteen bombs and
\* rockets are all there can be, so a multiplier stays within 2^17 base scores
\* and a score within 2^21, far from overflow with any sensible base score.
THEOREM DoublingsAreFew ==
    Spec => [](/\ public_mult <= base_score * 2^17
               /\ \A s \in Seat : /\ seat_score(s) <= base_score * 2^21
                                  /\ seat_score(s) >= -(base_score * 2^21))
<1>1. ASSUME NEW b \in Int, b >= 1, NEW p \in Int, NEW m \in Int, p >= 0, p <= m
      PROVE  b * p >= 0 /\ b * p <= b * m
    <2>1. m - p \in Nat /\ b * (m - p) >= 0 BY <1>1
    <2>2. b * m = b * (m - p) + b * p BY <1>1
    <2>3. QED BY <1>1, <2>1, <2>2
<1>2. IInv /\ RunInv => public_mult <= base_score * 2^17
    <2> SUFFICES ASSUME IInv, RunInv PROVE public_mult <= base_score * 2^17
        OBVIOUS
    <2>1. PICK n \in 0..17 : public_mult = base_score * 2^n BY DoublingsFew DEF RunInv
    <2>2. n \in 0..20 /\ n + 1 \in 0..20 /\ n + 2 \in 0..20 /\ n + 3 \in 0..20 OBVIOUS
    <2>3. PICK p \in Int : p = 2^n /\ p >= 0
        <3>1. 2^n \in Nat \ {0} BY <2>2, Powers
        <3>2. QED BY <3>1
    <2>4. 2^(n + 1) = 2 * p BY <2>2, <2>3, Powers
    <2>5. (n + 1) + 1 = n + 2 /\ (n + 2) + 1 = n + 3 OBVIOUS
    <2>6. 2^(n + 2) = 2 * (2 * p) BY <2>2, <2>4, <2>5, Powers
    <2>7. 2^(n + 3) = 2 * (2 * (2 * p)) BY <2>2, <2>5, <2>6, Powers
    <2>8. PICK q \in Int : q = 2^17 BY Powers
    <2>9. 2^20 = 2 * (2 * (2 * q))
        <3>1. /\ 17 \in 0..20 /\ 18 \in 0..20 /\ 19 \in 0..20
              /\ 17 + 1 = 18 /\ 18 + 1 = 19 /\ 19 + 1 = 20
            OBVIOUS
        <3>2. 2^18 = 2 * q BY <2>8, <3>1, Powers
        <3>3. 2^19 = 2 * (2 * q) BY <3>1, <3>2, Powers
        <3>4. QED BY <3>1, <3>3, Powers
    <2>10. 2^(n + 3) <= 2^20 BY <2>2, Powers
    <2>11. p <= q BY <2>3, <2>7, <2>9, <2>10
    <2>12. base_score * p <= base_score * q
        BY <1>1, <2>3, <2>11, BaseScorePositive
    <2>13. QED BY <2>1, <2>3, <2>8, <2>12
<1>3. IInv /\ RunInv /\ WonInv => \A s \in Seat :
        /\ seat_score(s) <= base_score * 2^21
        /\ seat_score(s) >= -(base_score * 2^21)
    <2> SUFFICES ASSUME IInv, RunInv, WonInv, NEW s \in Seat
                 PROVE  /\ seat_score(s) <= base_score * 2^21
                        /\ seat_score(s) >= -(base_score * 2^21)
        OBVIOUS
    <2> PICK b \in Int : b = base_score /\ b >= 1 BY BaseScorePositive
    <2> PICK m \in Int : m = 2^20 /\ 2^21 = 2 * m /\ m >= 0
        <3>1. 20 \in 0..20 /\ 20 + 1 = 21 OBVIOUS
        <3>2. QED BY <3>1, Powers
    <2>1. CASE phase # "settle"
        <3>1. seat_score(s) = 0 BY <2>1 DEF seat_score
        <3>2. QED BY <3>1
    <2>2. CASE phase = "settle"
        <3>1. ASSUME NEW f \in Seat \ {landlord}
              PROVE  /\ seat_score(f) \in Int
                     /\ seat_score(f) <= b * m /\ seat_score(f) >= -(b * m)
            <4>1. PICK n \in 0..20 : farmer_u(f) = b * 2^n BY <2>2, FarmerPaysPower
            <4>2. PICK p \in Int : p = 2^n /\ p >= 0 /\ p <= m
                <5>1. 2^n \in Nat \ {0} /\ 2^n <= 2^20 BY Powers
                <5>2. QED BY <5>1
            <4>3. PICK u \in Int : u = b * p /\ u >= 0 /\ u <= b * m BY <1>1, <4>2
            <4>4. seat_score(f) = IF Wins(f) THEN u ELSE -u
                BY <2>2, <4>1, <4>2, <4>3, ScoreParts
            <4>5. QED BY <4>3, <4>4
        <3>2. PICK f \in Seat \ {landlord}, g \in Seat \ {landlord} :
                /\ Seat = {landlord, f, g}
                /\ seat_score(landlord) = -(seat_score(f) + seat_score(g))
            BY <2>2, ScoreParts
        <3>3. CASE s = landlord
            <4>1. PICK x \in Int, y \in Int : x = seat_score(f) /\ y = seat_score(g) BY <3>1
            <4>2. seat_score(s) = -(x + y) BY <3>2, <3>3, <4>1
            <4>3. /\ x <= b * m /\ x >= -(b * m)
                  /\ y <= b * m /\ y >= -(b * m)
                BY <3>1, <4>1
            <4>4. QED BY <4>2, <4>3
        <3>4. CASE s # landlord BY <3>1, <3>4
        <3>5. QED BY <3>3, <3>4
    <2>3. QED BY <2>1, <2>2
<1>4. QED BY <1>2, <1>3, Invariance, RunHolds, WonHolds, PTL

=============================================================================
