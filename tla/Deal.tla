-------------------------------- MODULE Deal --------------------------------
(***************************************************************************)
(* From shuffled decks to hands in front of seats: DealEval::pick shuffles *)
(* five packs and takes the one the model's reply names, DealAssign::apply *)
(* gives its hands to the seats by their scores, and Table::finish_deal    *)
(* draws who calls first.  Pick models the request itself; here it is a    *)
(* reply or none.                                                          *)
(***************************************************************************)
EXTENDS Cards, Sequences, FiniteSetsExt

CONSTANTS
    HandSize,   \* cards of a hand; 17 in the code
    WordMax,    \* the largest word read from /dev/urandom; 2^32 - 1 in the code
    Inputs      \* what a deal may start from: <<what the model answers, the
                \* kChoices shuffled decks of a pick, the scores of the seats>>

kChoices == 5
kScoreCloseGap == 2
Seat == 0..2
Word == 0..WordMax

\* What parse_pick tells apart in a reply: the digits, "PICK" in any case, a
\* space, and everything else.
Space == 10
PickWord == 11
Other == 12

NoReply == <<>>     \* not configured, or the request failed

\* Different cards, enough for three hands.
IsDeck(deck) ==
    /\ deck \in Seq(Card)
    /\ Len(deck) >= 3 * HandSize
    /\ \A i, j \in DOMAIN deck : deck[i] = deck[j] => i = j

ASSUME HandSizeAssumption == HandSize \in Nat
ASSUME WordMaxAssumption == WordMax \in Nat
ASSUME InputsAssumption ==
    \A input \in Inputs :
        /\ input[1] \in Seq(0..Other)
        /\ \A n \in 1..kChoices : IsDeck(input[2][n])
        /\ input[3] \in [Seat -> Int]

VARIABLES
    step,       \* "pick", "assign", "place" or "done"
    reply, decks, scores,   \* the inputs
    pack,       \* DealtPack
    tiers,      \* in apply: the tiers that have no hands yet
    rest,       \* in apply: the hands not given yet, best first
    placed,     \* in apply: the hand of each seat, {} for none
    first       \* who calls first

inputs == <<reply, decks, scores>>
vars == <<step, inputs, pack, tiers, rest, placed, first>>

-----------------------------------------------------------------------------
(* Drawing *)

\* Words in the last, incomplete stretch are thrown away and read again.
Accepted_All(lo, hi) == Word
Accepted(lo, hi) ==
    LET span == hi - lo + 1 IN {x \in Word : x < (WordMax \div span) * span}

random_int(lo, hi, x) == lo + (x % (hi - lo + 1))

Swapped(v, a, b) == [v EXCEPT ![a] = v[b], ![b] = v[a]]

\* The words that shuffle_idx uses for k places: one for each but the first.
Draws(k) == {w \in [1..(k - 1) -> Word] : \A i \in DOMAIN w : w[i] \in Accepted(0, i)}

\* from[i] is v after the places above i have been shuffled.
shuffle_idx(v, w) ==
    LET from[i \in 1..Len(v)] ==
            IF i = Len(v) THEN v
            ELSE Swapped(from[i + 1], i + 1, random_int(0, i, w[i]) + 1)
    IN from[1]

-----------------------------------------------------------------------------
(* DealEval *)

Slice(deck, from, to) == {deck[i] : i \in from..to}

shuffle_one(deck) ==
    [hands |-> [s \in Seat |-> Slice(deck, s * HandSize + 1, (s + 1) * HandSize)],
     bottom |-> Slice(deck, 3 * HandSize + 1, Len(deck))]

\* The numbers parse_pick finds, by their places.
Named_Anywhere(text) == {i \in DOMAIN text : text[i] \in 1..kChoices}
Named(text) ==
    LET picks == {i \in DOMAIN text : text[i] = PickWord}
        from == IF picks = {} THEN 1 ELSE Min(picks) + 1
    IN {i \in from..Len(text) : text[i] \in 1..kChoices}

parse_pick(text) == text[Min(Named(text))]

\* The first pack stands in for a reply that names none.
scheme(text) == IF Named(text) = {} THEN 1 ELSE parse_pick(text)

-----------------------------------------------------------------------------
(* DealAssign *)

hand_power(hand) ==
    LET cnt == counts_of(hand)
    IN  (IF cnt[RANK_X] + cnt[RANK_D] = 2 THEN 80 ELSE 12 * cnt[RANK_X] + 18 * cnt[RANK_D])
        + 36 * Cardinality(With(cnt, 4)) + 6 * Cardinality(With(cnt, 3))
        + 2 * Cardinality(With(cnt, 2))
        + 8 * cnt[RANK_2] + 4 * cnt[RANK_A] + 2 * cnt[RANK_A - 1]

\* The seats in falling order of some value, equal ones by number.
Falling(value) ==
    [i \in 1..3 |-> CHOOSE s \in Seat :
        Cardinality({t \in Seat : value[t] > value[s] \/ (value[t] = value[s] /\ t < s)}) = i - 1]

hand_ord == Falling([h \in Seat |-> hand_power(pack.hands[h])])
seat_ord == Falling(scores)

\* By how much seat_ord[i] is behind the one before it.
Gap(i) == scores[seat_ord[i - 1]] - scores[seat_ord[i]]

\* Where a tier begins in seat_ord.
Begins == {1} \cup {i \in 2..3 : Gap(i) > kScoreCloseGap}

Tiers ==
    LET starts == Begins
        Begin(n) == CHOOSE b \in starts : Cardinality({c \in starts : c < b}) = n - 1
        End(n) == IF n = Cardinality(starts) THEN 3 ELSE Begin(n + 1) - 1
    IN [n \in 1..Cardinality(starts) |-> SubSeq(seat_ord, Begin(n), End(n))]

Init ==
    /\ step = "pick"
    /\ \E input \in Inputs : reply = input[1] /\ decks = input[2] /\ scores = input[3]
    /\ pack = [hands |-> [s \in Seat |-> {}], bottom |-> {}]
    /\ tiers = <<>> /\ rest = <<>>
    /\ placed = [s \in Seat |-> {}]
    /\ first = 0

Choose ==
    /\ step = "pick"
    /\ pack' = shuffle_one(decks[scheme(reply)])
    /\ step' = "assign"
    /\ UNCHANGED <<inputs, tiers, rest, placed, first>>

Assign ==
    /\ step = "assign"
    /\ tiers' = Tiers
    /\ rest' = hand_ord
    /\ step' = "place"
    /\ UNCHANGED <<inputs, pack, placed, first>>

\* A tier takes the hands from the front, the best ones.
Taken_Best(k) == SubSeq(rest, 1, k)

\* rest.back() k times: the weakest hands, and among the tier in any order.
Taken(k) == [i \in 1..k |-> rest[Len(rest) + 1 - i]]

Left_All(k) == rest
Left(k) == SubSeq(rest, 1, Len(rest) - k)

PlaceTier ==
    /\ step = "place" /\ tiers # <<>>
    /\ LET k == Len(Head(tiers)) IN
       /\ \E w \in Draws(k) :
            LET tier == shuffle_idx(Head(tiers), w)
            IN placed' = [s \in Seat |->
                   IF \E i \in 1..k : tier[i] = s
                   THEN pack.hands[Taken(k)[CHOOSE i \in 1..k : tier[i] = s]] ELSE placed[s]]
       /\ rest' = Left(k)
    /\ tiers' = Tail(tiers)
    /\ UNCHANGED <<step, inputs, pack, first>>

\* finish_deal: apply is done, the first caller is drawn.
FinishDeal ==
    /\ step = "place" /\ tiers = <<>>
    /\ pack' = [pack EXCEPT !.hands = placed]
    /\ \E x \in Accepted(0, 2) : first' = random_int(0, 2, x)
    /\ step' = "done"
    /\ UNCHANGED <<inputs, tiers, rest, placed>>

Next == Choose \/ Assign \/ PlaceTier \/ FinishDeal

Spec == Init /\ [][Next]_vars

-----------------------------------------------------------------------------
(* Properties *)

\* The reply deal_prompt.txt asks for, maybe with chatter around it.  Chatter
\* that says PICK before the choice does is left out: the code goes by the first
\* PICK, and takes the first digit behind it, whatever that belongs to.
Names(text, n) ==
    \E i \in 1..(Len(text) - 2) :
        /\ text[i] = PickWord /\ text[i + 1] = Space /\ text[i + 2] = n
        /\ \A j \in 1..(i - 1) : text[j] # PickWord

\* The pack that is dealt is the one the model named, whatever numbers are
\* around it, and one of the five in any case (DealEval::pick).
ReplyObeyed ==
    step = "assign" =>
        /\ \E n \in 1..kChoices : pack = shuffle_one(decks[n])
        /\ \A n \in 1..kChoices :
             Names(reply, n) => pack = shuffle_one(decks[n])

\* No card is lost, dealt twice or swapped between hands on the way from the
\* deck to the seats (shuffle_one, DealAssign::apply).
HandsAllDealt ==
    step = "done" =>
        LET deck == decks[scheme(reply)]
            before == shuffle_one(deck)
        IN  /\ {pack.hands[s] : s \in Seat} = {before.hands[s] : s \in Seat}
            /\ (UNION {pack.hands[s] : s \in Seat}) \cup pack.bottom = {deck[i] : i \in DOMAIN deck}
            /\ \A s \in Seat : pack.hands[s] \cap pack.bottom = {}

Close(s, t) == scores[s] - scores[t] \in -kScoreCloseGap..kScoreCloseGap

\* deal_assign.h: players whose scores are close draw their hands together.
CloseShareTier ==
    step = "place" =>
        \A n, m \in DOMAIN tiers : n # m =>
            \A i \in DOMAIN tiers[n], j \in DOMAIN tiers[m] : ~Close(tiers[n][i], tiers[m][j])

\* deal_assign.h: a higher tier gets the weaker hands.  Two players are in one
\* tier only if their scores are close or a third is close to both, so who
\* leads otherwise never gets the stronger hand of the two.
LeadersGetWeaker ==
    step = "done" =>
        \A s, t \in Seat :
            /\ scores[s] > scores[t]
            /\ ~Close(s, t)
            /\ ~\E u \in Seat : Close(s, u) /\ Close(u, t)
            => hand_power(pack.hands[s]) <= hand_power(pack.hands[t])

\* A lead costs cards, closeness does not: DealAssign::apply as its header
\* promises it.
ScoresDecideHands == CloseShareTier /\ LeadersGetWeaker

\* Every order of a tier comes from equally many draws: no seat is favoured
\* by the shuffle nor by the words that random_int throws away.
ShuffleIsEven ==
    step = "place" /\ tiers # <<>> =>
        LET tier == Head(tiers)
            k == Len(tier)
            Orders == {v \in [1..k -> Seat] : {v[i] : i \in 1..k} = {tier[i] : i \in 1..k}}
            Ways(v) == Cardinality({w \in Draws(k) : shuffle_idx(tier, w) = v})
        IN \A v \in Orders : Ways(v) * Cardinality(Orders) = Cardinality(Draws(k))

=============================================================================
