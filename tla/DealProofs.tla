----------------------------- MODULE DealProofs -----------------------------
(***************************************************************************)
(* For any decks, replies, scores and words drawn: the pack the model      *)
(* named is dealt, every card of it once, a lead in scores never gets the  *)
(* stronger hand, and no order of a tier is likelier than another.  The    *)
(* heart of it is which hand of the pack each seat has got when some tiers *)
(* have been served.                                                       *)
(***************************************************************************)
EXTENDS Deal, FiniteSetTheorems, FunctionTheorems, WellFoundedInduction, TLAPS

-----------------------------------------------------------------------------
(* Choosing a pack *)

Least(S, m) == m \in S /\ \A i \in S : m <= i

LEMMA MinIsLeast ==
    ASSUME NEW S \in SUBSET Int, NEW m, Least(S, m)
    PROVE  Min(S) = m
<1>1. \A x \in S : (\A y \in S : x <= y) => x = m BY DEF Least
<1>2. QED BY <1>1 DEF Min, Least

\* A set of places has a first one, < being well-founded.
LessThan == {p \in Nat \X Nat : p[1] < p[2]}

LEMMA LeastExists ==
    ASSUME NEW S \in SUBSET Nat, S # {}
    PROVE  \E m \in S : Least(S, m)
<1>1. IsWellFoundedOn(LessThan, Nat)
    BY NatLessThanWellFounded DEF LessThan, OpToRel
<1>2. PICK m \in S : \A y \in S : ~(<<y, m>> \in LessThan) BY <1>1, WFMin
<1>3. ASSUME NEW y \in S PROVE m <= y
    <2>1. SUFFICES ASSUME y < m PROVE FALSE OBVIOUS
    <2>2. <<y, m>> \in LessThan BY <2>1 DEF LessThan
    <2>3. QED BY <1>2, <2>2, Zenon
<1>4. QED BY <1>3 DEF Least

\* A reply that names a pack as it is asked to is understood.
LEMMA NamedFound ==
    ASSUME NEW text \in Seq(0..Other), NEW n \in 1..kChoices, Names(text, n)
    PROVE  scheme(text) = n
<1> DEFINE picks == {i \in DOMAIN text : text[i] = PickWord}
<1> USE DEF kChoices, Space, PickWord, Other
<1>1. PICK i \in 1..(Len(text) - 2) :
        /\ text[i] = PickWord /\ text[i + 1] = Space /\ text[i + 2] = n
        /\ \A j \in 1..(i - 1) : text[j] # PickWord
    BY DEF Names
<1>2. DOMAIN text = 1..Len(text) /\ Len(text) \in Nat OBVIOUS
<1>3. Least(picks, i) /\ picks \in SUBSET Int BY <1>1, <1>2 DEF Least
<1>4. Min(picks) = i /\ picks # {} BY <1>3, MinIsLeast DEF Least
<1>5. Named(text) = {j \in (i + 1)..Len(text) : text[j] \in 1..kChoices}
    BY <1>4 DEF Named
<1>6. Least(Named(text), i + 2) /\ Named(text) \in SUBSET Int
    BY <1>1, <1>2, <1>5 DEF Least
<1>7. Min(Named(text)) = i + 2 BY <1>6, MinIsLeast
<1>8. QED BY <1>1, <1>6, <1>7 DEF scheme, parse_pick, Least

LEMMA SchemeOfFive ==
    ASSUME NEW text \in Seq(0..Other)
    PROVE  scheme(text) \in 1..kChoices
<1>1. CASE Named(text) = {} BY <1>1 DEF scheme, kChoices
<1>2. CASE Named(text) # {}
    <2> DEFINE picks == {i \in DOMAIN text : text[i] = PickWord}
    <2>1. DOMAIN text = 1..Len(text) /\ Len(text) \in Nat OBVIOUS
    <2>2. picks # {} => Min(picks) \in Nat
        <3>1. picks \in SUBSET Nat /\ picks \in SUBSET Int BY <2>1
        <3> HIDE DEF picks
        <3>2. HAVE picks # {}
        <3>3. PICK m \in picks : Least(picks, m) BY <3>1, <3>2, LeastExists
        <3>4. QED BY <3>1, <3>3, MinIsLeast
    <2>3. /\ Named(text) \in SUBSET Nat /\ Named(text) \in SUBSET Int
          /\ \A i \in Named(text) : text[i] \in 1..kChoices
        <3> DEFINE from == IF picks = {} THEN 1 ELSE Min(picks) + 1
        <3>1. from \in Nat BY <2>2
        <3>2. Named(text) = {i \in from..Len(text) : text[i] \in 1..kChoices} BY DEF Named
        <3> HIDE DEF from
        <3>3. QED BY <2>1, <3>1, <3>2
    <2>4. PICK m \in Named(text) : Least(Named(text), m) BY <1>2, <2>3, LeastExists
    <2>5. QED BY <1>2, <2>3, <2>4, MinIsLeast DEF scheme, parse_pick
<1>3. QED BY <1>1, <1>2

-----------------------------------------------------------------------------
(* Orders of the seats *)

IsOrder(o) ==
    /\ o \in [1..3 -> Seat]
    /\ o[1] # o[2] /\ o[2] # o[3] /\ o[1] # o[3]

FallsAlong(value, o) ==
    /\ IsOrder(o)
    /\ value[o[1]] >= value[o[2]] /\ value[o[2]] >= value[o[3]]

\* t comes before s in the falling order of value.
Before(value, t, s) == value[t] > value[s] \/ (value[t] = value[s] /\ t < s)

LEMMA FallingFalls ==
    ASSUME NEW value \in [Seat -> Int]
    PROVE  FallsAlong(value, Falling(value))
<1> DEFINE B(t, s) == Before(value, t, s)
           Ahead(s) == {t \in Seat : Before(value, t, s)}
<1>1. \A s, t \in Seat : s # t => (B(s, t) <=> ~B(t, s))
    BY DEF Before, Seat
<1>2. \A s, t, u \in Seat : B(s, t) /\ B(t, u) => B(s, u)
    BY DEF Before, Seat
<1>3. \A s \in Seat : ~B(s, s)
    BY DEF Before, Seat
<1>4. \A s \in Seat : s = 0 \/ s = 1 \/ s = 2 BY DEF Seat
<1>5. \E x, y, z \in Seat : x # y /\ y # z /\ x # z /\ B(x, y) /\ B(y, z) /\ B(x, z)
    <2>1. 0 \in Seat /\ 1 \in Seat /\ 2 \in Seat BY DEF Seat
    <2> HIDE DEF B
    <2>2. QED BY <1>1, <1>2, <2>1
<1>6. PICK x, y, z \in Seat : x # y /\ y # z /\ x # z /\ B(x, y) /\ B(y, z) /\ B(x, z)
    BY <1>5
<1>7. \A s \in Seat : s = x \/ s = y \/ s = z BY <1>4, <1>6
<1>8. Ahead(x) = {} /\ Ahead(y) = {x} /\ Ahead(z) = {x, y}
    <2> HIDE DEF B
    <2>1. \A s, t \in Seat : t \in Ahead(s) <=> B(t, s) BY DEF B
    <2> HIDE DEF Ahead
    <2>2. \A s \in Seat : Ahead(s) \subseteq Seat BY DEF Ahead
    <2>3. QED BY <1>1, <1>3, <1>6, <1>7, <2>1, <2>2
<1>9. Cardinality(Ahead(x)) = 0 /\ Cardinality(Ahead(y)) = 1 /\ Cardinality(Ahead(z)) = 2
    <2>1. Cardinality({}) = 0 BY FS_EmptySet
    <2>2. Cardinality({x}) = 1 /\ IsFiniteSet({x}) BY FS_Singleton
    <2>3. Cardinality({x} \cup {y}) = 2
        <3>1. ~(y \in {x}) BY <1>6
        <3>2. Cardinality({x} \cup {y}) = Cardinality({x}) + 1 BY ONLY <2>2, <3>1, FS_AddElement
        <3>3. QED BY <2>2, <3>2
    <2>4. {x} \cup {y} = {x, y} OBVIOUS
    <2> HIDE DEF Ahead
    <2>5. QED BY <1>8, <2>1, <2>2, <2>3, <2>4
<1>10. Falling(value) = [i \in 1..3 |-> CHOOSE s \in Seat : Cardinality(Ahead(s)) = i - 1]
    BY DEF Falling, Before
<1> HIDE DEF Ahead, B
<1>11. Falling(value)[1] = x /\ Falling(value)[2] = y /\ Falling(value)[3] = z
    <2>1. \A s \in Seat : Cardinality(Ahead(s)) = 0 => s = x BY <1>7, <1>9
    <2>2. \A s \in Seat : Cardinality(Ahead(s)) = 1 => s = y BY <1>7, <1>9
    <2>3. \A s \in Seat : Cardinality(Ahead(s)) = 2 => s = z BY <1>7, <1>9
    <2>4. (CHOOSE s \in Seat : Cardinality(Ahead(s)) = 0) = x BY <1>9, <2>1
    <2>5. (CHOOSE s \in Seat : Cardinality(Ahead(s)) = 1) = y BY <1>9, <2>2
    <2>6. (CHOOSE s \in Seat : Cardinality(Ahead(s)) = 2) = z BY <1>9, <2>3
    <2>7. QED BY <1>10, <2>4, <2>5, <2>6
<1>12. IsOrder(Falling(value))
    <2>1. \A i \in 1..3 : i = 1 \/ i = 2 \/ i = 3 OBVIOUS
    <2>2. \A i \in 1..3 : Falling(value)[i] \in Seat BY <1>11, <2>1
    <2>3. Falling(value) \in [1..3 -> Seat] BY <1>10, <2>2
    <2>4. QED BY <1>6, <1>11, <2>3 DEF IsOrder
<1>13. value[x] >= value[y] /\ value[y] >= value[z]
    BY <1>6 DEF B, Before
<1>14. QED BY <1>11, <1>12, <1>13 DEF FallsAlong

\* The strength of a hand is a number.
LEMMA PowerIsInt ==
    ASSUME NEW hand \in SUBSET Card
    PROVE  hand_power(hand) \in Int
<1> DEFINE cnt == counts_of(hand)
<1>1. IsFiniteSet(Card) /\ IsFiniteSet(Rank)
    <2>1. \A a, b \in Int : IsFiniteSet(a..b) BY FS_Interval
    <2>2. 0 \in Int /\ 3 \in Int /\ 17 \in Int /\ 53 \in Int OBVIOUS
    <2>3. QED BY <2>1, <2>2, Zenon DEF Card, Rank, RANK_3, RANK_D
<1>2. \A r \in Rank : cnt[r] \in Int
    <2>1. \A r : {c \in hand : rank_of(c) = r} \subseteq Card OBVIOUS
    <2>2. \A r : Cardinality({c \in hand : rank_of(c) = r}) \in Nat
        BY <1>1, <2>1, FS_Subset, FS_CardinalityType
    <2>3. QED BY <2>2 DEF counts_of
<1>3. \A n : Cardinality(With(cnt, n)) \in Int
    <2>1. \A n : With(cnt, n) \subseteq Rank
        BY DEF With, NumberRank, Rank, RANK_3, RANK_D, RANK_2
    <2>2. QED BY <1>1, <2>1, FS_Subset, FS_CardinalityType
<1>4. {RANK_X, RANK_D, RANK_2, RANK_A, RANK_A - 1} \subseteq Rank
    BY DEF Rank, RANK_X, RANK_D, RANK_2, RANK_A, RANK_3
<1> HIDE DEF cnt
<1>5. QED BY <1>2, <1>3, <1>4 DEF hand_power, cnt

-----------------------------------------------------------------------------
(* shuffle_idx *)

\* u has the entries of v at other places: place j of v is place to[j] of u.
Moved(u, v, n, to, of) ==
    /\ to \in [1..n -> 1..n] /\ of \in [1..n -> 1..n]
    /\ \A i \in 1..n : to[of[i]] = i /\ of[to[i]] = i
    /\ DOMAIN u = 1..n /\ \A i \in 1..n : u[i] = v[of[i]]

Permuted(u, v, n) == \E to, of : Moved(u, v, n, to, of)

LEMMA SwapPermutes ==
    ASSUME NEW n \in Nat, NEW u, NEW v, Permuted(u, v, n), NEW a \in 1..n, NEW b \in 1..n
    PROVE  Permuted(Swapped(u, a, b), v, n)
<1>1. PICK to, of : Moved(u, v, n, to, of) BY DEF Permuted
<1> DEFINE of2 == [i \in 1..n |-> IF i = a THEN of[b] ELSE IF i = b THEN of[a] ELSE of[i]]
           to2 == [j \in 1..n |-> IF to[j] = a THEN b ELSE IF to[j] = b THEN a ELSE to[j]]
           u2 == Swapped(u, a, b)
<1>2. /\ to \in [1..n -> 1..n] /\ of \in [1..n -> 1..n]
      /\ \A i \in 1..n : to[of[i]] = i /\ of[to[i]] = i
    BY <1>1 DEF Moved
<1>3. of2 \in [1..n -> 1..n] /\ to2 \in [1..n -> 1..n] BY <1>2
<1>4. \A i \in 1..n : to2[of2[i]] = i /\ of2[to2[i]] = i BY <1>2
<1>5. DOMAIN u2 = 1..n /\ \A i \in 1..n : u2[i] = v[of2[i]]
    <2>1. DOMAIN u = 1..n /\ \A i \in 1..n : u[i] = v[of[i]] BY <1>1 DEF Moved
    <2>2. DOMAIN u2 = 1..n BY <2>1 DEF Swapped
    <2>3. \A i \in 1..n : u2[i] = IF i = b THEN u[a] ELSE IF i = a THEN u[b] ELSE u[i]
        BY <2>1 DEF Swapped
    <2>4. QED BY <1>2, <2>1, <2>2, <2>3
<1> HIDE DEF of2, to2, u2
<1>6. Moved(u2, v, n, to2, of2) BY <1>3, <1>4, <1>5 DEF Moved
<1>7. QED BY <1>6 DEF Permuted, u2

\* One swap for each place but the first, from the last one down.
Swaps(g, v, n, w) ==
    /\ g[n] = v
    /\ \A i \in 1..(n - 1) : g[i] = Swapped(g[i + 1], i + 1, random_int(0, i, w[i]) + 1)
    /\ shuffle_idx(v, w) = g[1]

LEMMA Unrolled ==
    ASSUME NEW v \in Seq(Seat), Len(v) \in 1..3, NEW w
    PROVE  \E g : Swaps(g, v, Len(v), w)
<1> DEFINE n == Len(v)
           Down(u, i) == Swapped(u, i + 1, random_int(0, i, w[i]) + 1)
           Rec(g) == [i \in 1..n |-> IF i = n THEN v ELSE Down(g[i + 1], i)]
           gg == [i \in 1..n |-> IF i = n THEN v
                                 ELSE IF i = n - 1 THEN Down(v, n - 1)
                                 ELSE Down(Down(v, n - 1), n - 2)]
<1>1. \E g : g = Rec(g)
    <2> HIDE DEF Down
    <2>1. n = 1 \/ n = 2 \/ n = 3 OBVIOUS
    <2> HIDE DEF n
    <2>2. ASSUME NEW i \in 1..n PROVE gg[i] = IF i = n THEN v ELSE Down(gg[i + 1], i)
        <3>1. CASE i = n BY <3>1
        <3>2. CASE i = n - 1
            <4>1. i + 1 = n /\ i # n /\ i + 1 \in 1..n BY <2>1, <3>2
            <4>2. gg[i + 1] = v BY <4>1
            <4>3. gg[i] = Down(v, n - 1) BY <3>2, <4>1
            <4>4. QED BY <3>2, <4>1, <4>2, <4>3
        <3>3. CASE i = n - 2
            <4>1. i + 1 = n - 1 /\ i # n /\ i # n - 1 /\ i + 1 \in 1..n /\ i + 1 # n
                BY <2>1, <3>3
            <4>2. gg[i + 1] = Down(v, n - 1) BY <4>1
            <4>3. gg[i] = Down(Down(v, n - 1), n - 2) BY <4>1
            <4>4. QED BY <3>3, <4>1, <4>2, <4>3
        <3>4. i = n \/ i = n - 1 \/ i = n - 2 BY <2>1
        <3>5. QED BY <3>1, <3>2, <3>3, <3>4
    <2> HIDE DEF gg
    <2>3. DOMAIN gg = 1..n /\ gg = [i \in 1..n |-> gg[i]] BY DEF gg
    <2>4. gg = Rec(gg) BY <2>2, <2>3
    <2>5. QED BY <2>4
<1> DEFINE from == CHOOSE g : g = Rec(g)
<1>2. from = Rec(from) BY <1>1
<1>3. shuffle_idx(v, w) = from[1] BY DEF shuffle_idx
<1> HIDE DEF from, Down
<1>4. from[n] = v /\ \A i \in 1..(n - 1) : from[i] = Down(from[i + 1], i)
    <2>1. n \in Nat /\ n >= 1 OBVIOUS
    <2> HIDE DEF n
    <2>2. \A i \in 1..n : from[i] = IF i = n THEN v ELSE Down(from[i + 1], i) BY <1>2
    <2>3. \A i \in 1..(n - 1) : i \in 1..n /\ i # n BY <2>1
    <2>4. n \in 1..n BY <2>1
    <2>5. QED BY <2>2, <2>3, <2>4
<1>5. QED BY <1>3, <1>4 DEF Down, Swaps

LEMMA ShufflePermutes ==
    ASSUME NEW v \in Seq(Seat), Len(v) \in 1..3, NEW w \in Draws(Len(v))
    PROVE  Permuted(shuffle_idx(v, w), v, Len(v))
<1> DEFINE n == Len(v)
<1>1. PICK g : /\ g[n] = v
               /\ \A i \in 1..(n - 1) :
                    g[i] = Swapped(g[i + 1], i + 1, random_int(0, i, w[i]) + 1)
               /\ shuffle_idx(v, w) = g[1]
    BY Unrolled DEF Swaps
<1>2. n \in Nat /\ (n = 1 \/ n = 2 \/ n = 3) OBVIOUS
<1>3. \A i \in 1..(n - 1) : random_int(0, i, w[i]) + 1 \in 1..(i + 1)
    <2>1. \A i \in 1..(n - 1) : w[i] \in Int BY DEF Draws, Word
    <2>2. ASSUME NEW i \in 1..(n - 1) PROVE random_int(0, i, w[i]) + 1 \in 1..(i + 1)
        <3>1. i + 1 \in Nat /\ i + 1 > 0 /\ w[i] \in Int BY <1>2, <2>1
        <3>2. w[i] % (i + 1) \in 0..i BY <3>1
        <3>3. QED BY <3>1, <3>2 DEF random_int
    <2>3. QED BY <2>2
<1>4. Permuted(g[n], v, n)
    <2> DEFINE id == [i \in 1..n |-> i]
    <2>1. Moved(v, v, n, id, id) BY DEF Moved
    <2>2. QED BY <1>1, <2>1 DEF Permuted
<1>5. \A i \in 1..(n - 1) : Permuted(g[i + 1], v, n) => Permuted(g[i], v, n)
    <2>1. ASSUME NEW i \in 1..(n - 1), Permuted(g[i + 1], v, n) PROVE Permuted(g[i], v, n)
        <3> DEFINE b == random_int(0, i, w[i]) + 1
        <3>1. i + 1 \in 1..n /\ b \in 1..n BY <1>2, <1>3
        <3>2. Permuted(Swapped(g[i + 1], i + 1, b), v, n)
            BY <1>2, <2>1, <3>1, SwapPermutes
        <3>3. QED BY <1>1, <3>2
    <2>2. QED BY <2>1
<1>6. Permuted(g[1], v, n)
    <2> HIDE DEF n
    <2>1. CASE n = 1 BY <1>4, <2>1
    <2>2. CASE n = 2
        <3>1. 1 \in 1..(n - 1) /\ 1 + 1 = n BY <2>2
        <3>2. QED BY <1>4, <1>5, <3>1
    <2>3. CASE n = 3
        <3>1. 1 \in 1..(n - 1) /\ 2 \in 1..(n - 1) /\ 1 + 1 = 2 /\ 2 + 1 = n BY <2>3
        <3>2. QED BY <1>4, <1>5, <3>1
    <2>4. QED BY <1>2, <2>1, <2>2, <2>3
<1>7. QED BY <1>1, <1>6

-----------------------------------------------------------------------------
(* Tiers *)

Tier(i, j) == SubSeq(seat_ord, i, j)

\* The tiers from place n of seat_ord on, where a tier begins at n.
CutFrom(n) ==
    IF n = 4 THEN <<>>
    ELSE IF n = 3 THEN <<Tier(3, 3)>>
    ELSE IF n = 2
         THEN IF 3 \in Begins THEN <<Tier(2, 2), Tier(3, 3)>> ELSE <<Tier(2, 3)>>
    ELSE IF 2 \in Begins
         THEN IF 3 \in Begins THEN <<Tier(1, 1), Tier(2, 2), Tier(3, 3)>>
              ELSE <<Tier(1, 1), Tier(2, 3)>>
         ELSE IF 3 \in Begins THEN <<Tier(1, 2), Tier(3, 3)>> ELSE <<Tier(1, 3)>>

LEMMA SmallCardinalities ==
    /\ Cardinality({}) = 0 /\ Cardinality({1}) = 1
    /\ Cardinality({1, 2}) = 2 /\ Cardinality({1, 3}) = 2 /\ Cardinality({1, 2, 3}) = 3
<1>1. Cardinality({}) = 0 /\ Cardinality({1}) = 1 /\ IsFiniteSet({1})
    BY FS_EmptySet, FS_Singleton
<1>2. IsFiniteSet({1} \cup {2}) /\ Cardinality({1} \cup {2}) = 2
    <2>1. ~(2 \in {1}) OBVIOUS
    <2>2. QED BY <1>1, <2>1, FS_AddElement
<1>3. Cardinality({1} \cup {3}) = 2
    <2>1. ~(3 \in {1}) OBVIOUS
    <2>2. QED BY <1>1, <2>1, FS_AddElement
<1>4. Cardinality(({1} \cup {2}) \cup {3}) = 3
    <2>1. ~(3 \in {1} \cup {2}) OBVIOUS
    <2>2. QED BY <1>2, <2>1, FS_AddElement
<1>5. {1} \cup {2} = {1, 2} /\ {1} \cup {3} = {1, 3} /\ ({1} \cup {2}) \cup {3} = {1, 2, 3}
    OBVIOUS
<1>6. QED BY <1>1, <1>2, <1>3, <1>4, <1>5

\* The n-th of the places where a tier begins.
Begin(n) == CHOOSE b \in Begins : Cardinality({c \in Begins : c < b}) = n - 1

LEMMA TiersCut == Tiers = CutFrom(1)
<1> DEFINE Behind(b) == {c \in Begins : c < b}
           End(n) == IF n = Cardinality(Begins) THEN 3 ELSE Begin(n + 1) - 1
<1>1. Tiers = [n \in 1..Cardinality(Begins) |-> Tier(Begin(n), End(n))]
    BY DEF Tiers, Tier, Begin
<1>2. \A b : Begin(b) = CHOOSE c \in Begins : Cardinality(Behind(c)) = b - 1
    BY DEF Begin
<1>3. Begins \subseteq {1, 2, 3} /\ 1 \in Begins BY DEF Begins
<1> HIDE DEF Behind
<1>4. /\ Behind(1) = {} /\ Behind(2) = {1}
       /\ Behind(3) = IF 2 \in Begins THEN {1, 2} ELSE {1}
    <2>1. \A c \in Begins : ~(c < 1) /\ (c < 2 <=> c = 1) /\ (c < 3 <=> c # 3)
        <3>1. TAKE c \in Begins
        <3>2. c = 1 \/ c = 2 \/ c = 3 BY <1>3
        <3>3. QED BY <3>2
    <2>2. Behind(1) = {} /\ Behind(2) = {1} /\ Behind(3) = Begins \ {3}
        BY <1>3, <2>1, Zenon DEF Behind
    <2>3. \A c : c \in Begins \ {3} <=> c = 1 \/ (c = 2 /\ 2 \in Begins)
        <3>1. \A c \in Begins : c = 1 \/ c = 2 \/ c = 3 BY <1>3
        <3>2. 1 # 3 /\ 2 # 3 OBVIOUS
        <3>3. QED BY <1>3, <3>1, <3>2, Zenon
    <2>4. Begins \ {3} = IF 2 \in Begins THEN {1, 2} ELSE {1} BY <2>3
    <2>5. QED BY <2>2, <2>4
<1>5. Cardinality(Behind(1)) = 0
    BY <1>4, SmallCardinalities
<1>6. Begin(1) = 1 /\ Cardinality(Behind(2)) = 1 /\ Cardinality(Behind(3)) \in 1..2
    <2>1. Behind(3) = {1} \/ Behind(3) = {1, 2} BY <1>3, <1>4
    <2>2. Cardinality(Behind(2)) = 1 /\ Cardinality(Behind(3)) \in 1..2
        BY <1>4, <2>1, SmallCardinalities
    <2>3. \A b \in Begins : Cardinality(Behind(b)) = 1 - 1 => b = 1 BY <1>3, <2>2
    <2>4. (CHOOSE c \in Begins : Cardinality(Behind(c)) = 1 - 1) = 1
        BY <1>3, <1>5, <2>3
    <2>5. QED BY <1>2, <2>2, <2>4
<1> HIDE DEF End
<1>7. CASE ~(2 \in Begins) /\ ~(3 \in Begins)
    <2>1. Begins = {1} BY <1>3, <1>7
    <2>2. Cardinality(Begins) = 1 BY <2>1, SmallCardinalities
    <2>3. End(1) = 3 BY <2>2 DEF End
    <2>4. Tiers = <<Tier(1, 3)>> BY <1>1, <1>6, <2>2, <2>3
    <2>5. QED BY <1>7, <2>4 DEF CutFrom
<1>8. CASE 2 \in Begins /\ ~(3 \in Begins)
    <2>1. Begins = {1, 2} BY <1>3, <1>8
    <2>2. Cardinality(Begins) = 2 BY <2>1, SmallCardinalities
    <2>3. \A b \in Begins : Cardinality(Behind(b)) = 2 - 1 => b = 2 BY <1>5, <2>1
    <2>4. (CHOOSE c \in Begins : Cardinality(Behind(c)) = 2 - 1) = 2 BY <1>6, <1>8, <2>3
    <2>5. Begin(2) = 2 BY <1>2, <2>4
    <2>6. End(1) = 1 /\ End(2) = 3
        <3>1. End(1) = Begin(1 + 1) - 1 BY <2>2 DEF End
        <3>2. QED BY <2>2, <2>5, <3>1 DEF End
    <2>7. Tiers = <<Tier(1, 1), Tier(2, 3)>> BY <1>1, <1>6, <2>2, <2>5, <2>6
    <2>8. QED BY <1>8, <2>7 DEF CutFrom
<1>9. CASE ~(2 \in Begins) /\ 3 \in Begins
    <2>1. Begins = {1, 3} /\ Behind(3) = {1} BY <1>3, <1>4, <1>9
    <2>2. Cardinality(Begins) = 2 /\ Cardinality(Behind(3)) = 1
        BY <2>1, SmallCardinalities
    <2>3. \A b \in Begins : Cardinality(Behind(b)) = 2 - 1 => b = 3 BY <1>5, <2>1
    <2>4. (CHOOSE c \in Begins : Cardinality(Behind(c)) = 2 - 1) = 3 BY <1>9, <2>2, <2>3
    <2>5. Begin(2) = 3 BY <1>2, <2>4
    <2>6. End(1) = 2 /\ End(2) = 3
        <3>1. End(1) = Begin(1 + 1) - 1 BY <2>2 DEF End
        <3>2. QED BY <2>2, <2>5, <3>1 DEF End
    <2>7. Tiers = <<Tier(1, 2), Tier(3, 3)>> BY <1>1, <1>6, <2>2, <2>5, <2>6
    <2>8. QED BY <1>9, <2>7 DEF CutFrom
<1>10. CASE 2 \in Begins /\ 3 \in Begins
    <2>1. Begins = {1, 2, 3} /\ Behind(3) = {1, 2} BY <1>3, <1>4, <1>10
    <2>2. Cardinality(Begins) = 3 /\ Cardinality(Behind(3)) = 2
        BY <2>1, SmallCardinalities
    <2>3. /\ \A b \in Begins : Cardinality(Behind(b)) = 2 - 1 => b = 2
          /\ \A b \in Begins : Cardinality(Behind(b)) = 3 - 1 => b = 3
        BY <1>5, <1>6, <2>1, <2>2
    <2>4. (CHOOSE c \in Begins : Cardinality(Behind(c)) = 2 - 1) = 2 BY <1>6, <1>10, <2>3
    <2>5. (CHOOSE c \in Begins : Cardinality(Behind(c)) = 3 - 1) = 3 BY <1>10, <2>2, <2>3
    <2>6. Begin(2) = 2 /\ Begin(3) = 3 BY <1>2, <2>4, <2>5
    <2>7. End(1) = 1 /\ End(2) = 2 /\ End(3) = 3
        <3>1. End(1) = Begin(1 + 1) - 1 /\ End(2) = Begin(2 + 1) - 1 BY <2>2 DEF End
        <3>2. QED BY <2>2, <2>6, <3>1 DEF End
    <2>8. Tiers = <<Tier(1, 1), Tier(2, 2), Tier(3, 3)>>
        BY <1>1, <1>6, <2>2, <2>6, <2>7
    <2>9. QED BY <1>10, <2>8 DEF CutFrom
<1>11. QED BY <1>7, <1>8, <1>9, <1>10

LEMMA TupleParts ==
    ASSUME NEW a, NEW b, NEW c
    PROVE  /\ <<a>> # <<>> /\ Head(<<a>>) = a /\ Tail(<<a>>) = <<>>
           /\ <<a, b>> # <<>> /\ Head(<<a, b>>) = a /\ Tail(<<a, b>>) = <<b>>
           /\ <<a, b, c>> # <<>> /\ Head(<<a, b, c>>) = a /\ Tail(<<a, b, c>>) = <<b, c>>
<1>1. <<a>> # <<>> /\ Head(<<a>>) = a /\ Tail(<<a>>) = <<>> OBVIOUS
<1>2. <<a, b>> # <<>> /\ Head(<<a, b>>) = a OBVIOUS
<1>3. Tail(<<a, b>>) = <<b>> OBVIOUS
<1>4. <<a, b, c>> # <<>> /\ Head(<<a, b, c>>) = a OBVIOUS
<1>5. Tail(<<a, b, c>>) = <<b, c>> OBVIOUS
<1>6. QED BY <1>1, <1>2, <1>3, <1>4, <1>5

\* What the next tier to be served is, where one begins at n.
LEMMA NextTier ==
    ASSUME NEW n \in 1..3, IsOrder(seat_ord)
    PROVE  \E w \in 1..(4 - n) :
             /\ CutFrom(n) # <<>> /\ Tail(CutFrom(n)) = CutFrom(n + w)
             /\ Head(CutFrom(n)) = Tier(n, n + w - 1)
             /\ n + w <= 3 => n + w \in Begins
             /\ \A m \in (n + 1)..(n + w - 1) : ~(m \in Begins)
<1> DEFINE Ok(t, w) ==
             /\ t # <<>> /\ Tail(t) = CutFrom(n + w)
             /\ Head(t) = Tier(n, n + w - 1)
<1>1. n = 1 \/ n = 2 \/ n = 3 OBVIOUS
<1>2. CutFrom(4) = <<>> /\ CutFrom(3) = <<Tier(3, 3)>> BY DEF CutFrom
<1>3. CutFrom(2) = IF 3 \in Begins THEN <<Tier(2, 2), Tier(3, 3)>> ELSE <<Tier(2, 3)>>
    BY DEF CutFrom
<1>4. CASE n = 3
    <2>1. n + 1 = 4 /\ n + 1 - 1 = 3 BY <1>4
    <2>2. Ok(CutFrom(n), 1) BY <1>2, <1>4, <2>1, TupleParts, Zenon
    <2>3. QED BY <1>4, <2>2
<1>5. CASE n = 2
    <2>1. n + 1 = 3 /\ n + 1 - 1 = 2 /\ n + 2 = 4 /\ n + 2 - 1 = 3 BY <1>5
    <2>2. CASE 3 \in Begins
        <3>1. CutFrom(n) = <<Tier(2, 2), Tier(3, 3)>> BY <1>3, <1>5, <2>2, Zenon
        <3>2. Ok(CutFrom(n), 1)
            <4>1. /\ CutFrom(n) # <<>> /\ Head(CutFrom(n)) = Tier(2, 2)
                  /\ Tail(CutFrom(n)) = <<Tier(3, 3)>>
                BY <3>1, TupleParts
            <4>2. QED BY <1>2, <1>5, <2>1, <4>1
        <3>3. QED BY <1>5, <2>2, <3>2
    <2>3. CASE ~(3 \in Begins)
        <3>1. Ok(CutFrom(n), 2) BY <1>2, <1>3, <1>5, <2>1, <2>3, TupleParts, Zenon
        <3>2. \A m \in (n + 1)..(n + 2 - 1) : ~(m \in Begins) BY <1>5, <2>3
        <3>3. QED BY <1>5, <3>1, <3>2
    <2>4. QED BY <2>2, <2>3
<1>6. CASE n = 1
    <2>1. /\ n + 1 = 2 /\ n + 1 - 1 = 1 /\ n + 2 = 3 /\ n + 2 - 1 = 2
          /\ n + 3 = 4 /\ n + 3 - 1 = 3
        BY <1>6
    <2>2. CASE 2 \in Begins
        <3>1. CutFrom(n) = IF 3 \in Begins THEN <<Tier(1, 1), Tier(2, 2), Tier(3, 3)>>
                           ELSE <<Tier(1, 1), Tier(2, 3)>>
            BY <1>6, <2>2 DEF CutFrom
        <3>2. Ok(CutFrom(n), 1)
            <4>1. CutFrom(n) # <<>> /\ Head(CutFrom(n)) = Tier(1, 1)
                BY <3>1, TupleParts
            <4>2. CASE 3 \in Begins
                <5>1. Tail(CutFrom(n)) = <<Tier(2, 2), Tier(3, 3)>>
                    BY <3>1, <4>2, TupleParts
                <5>2. QED BY <1>3, <1>6, <2>1, <4>1, <4>2, <5>1
            <4>3. CASE ~(3 \in Begins)
                <5>1. Tail(CutFrom(n)) = <<Tier(2, 3)>> BY <3>1, <4>3, TupleParts
                <5>2. QED BY <1>3, <1>6, <2>1, <4>1, <4>3, <5>1
            <4>4. QED BY <4>2, <4>3
        <3>3. QED BY <1>6, <2>2, <3>2
    <2>3. CASE ~(2 \in Begins) /\ 3 \in Begins
        <3>1. CutFrom(n) = <<Tier(1, 2), Tier(3, 3)>> BY <1>6, <2>3 DEF CutFrom
        <3>2. Ok(CutFrom(n), 2)
            <4>1. /\ CutFrom(n) # <<>> /\ Head(CutFrom(n)) = Tier(1, 2)
                  /\ Tail(CutFrom(n)) = <<Tier(3, 3)>>
                BY <3>1, TupleParts
            <4>2. QED BY <1>2, <1>6, <2>1, <4>1
        <3>3. \A m \in (n + 1)..(n + 2 - 1) : ~(m \in Begins) BY <1>6, <2>3
        <3>4. QED BY <1>6, <2>3, <3>2, <3>3
    <2>4. CASE ~(2 \in Begins) /\ ~(3 \in Begins)
        <3>1. CutFrom(n) = <<Tier(1, 3)>> BY <1>6, <2>4 DEF CutFrom
        <3>2. Ok(CutFrom(n), 3) BY <1>2, <1>6, <2>1, <3>1, TupleParts, Zenon
        <3>3. \A m \in (n + 1)..(n + 3 - 1) : ~(m \in Begins)
            <4>1. \A m \in (n + 1)..(n + 3 - 1) : m = 2 \/ m = 3 BY <1>6
            <4>2. QED BY <2>4, <4>1
        <3>4. QED BY <1>6, <3>2, <3>3
    <2>5. QED BY <2>2, <2>3, <2>4
<1>7. QED BY <1>1, <1>4, <1>5, <1>6

LEMMA TierFields ==
    ASSUME IsOrder(seat_ord), NEW n \in 1..3, NEW w \in 1..(4 - n)
    PROVE  /\ Tier(n, n + w - 1) \in Seq(Seat) /\ Len(Tier(n, n + w - 1)) = w
           /\ \A j \in 1..w : Tier(n, n + w - 1)[j] = seat_ord[n + j - 1]
<1>1. seat_ord \in Seq(Seat) /\ Len(seat_ord) = 3
    <2>1. DOMAIN seat_ord = 1..3 BY DEF IsOrder
    <2>2. 3 \in Nat /\ \A n2 \in Nat : [1..n2 -> Seat] \subseteq Seq(Seat) OBVIOUS
    <2>3. seat_ord \in Seq(Seat) BY <2>2 DEF IsOrder
    <2>4. DOMAIN seat_ord = 1..Len(seat_ord) /\ Len(seat_ord) \in Nat BY <2>3
    <2>5. QED BY <2>1, <2>3, <2>4
<1>2. n \in 1..4 /\ n + w - 1 \in (n - 1)..3 OBVIOUS
<1> HIDE DEF Tier
<1>3. QED BY <1>1, <1>2 DEF Tier

\* A tier that was shuffled into u: place n + j - 1 of o is at to[j] in it, and
\* nobody of an earlier tier is in it.
TierOrder(o, u, n, w, to) ==
    /\ to \in [1..w -> 1..w]
    /\ \A i, j \in 1..w : to[i] = to[j] => i = j
    /\ \A j \in 1..w, s \in Seat : s = o[n + j - 1] =>
           /\ \E i \in 1..w : u[i] = s
           /\ (CHOOSE i \in 1..w : u[i] = s) = to[j]
    /\ \A i \in 1..(n - 1) : ~\E m \in 1..w : u[m] = o[i]

LEMMA TierGets ==
    ASSUME NEW o, IsOrder(o), NEW n \in 1..3, NEW w \in 1..(4 - n),
           NEW v, \A j \in 1..w : v[j] = o[n + j - 1], NEW u, Permuted(u, v, w)
    PROVE  \E to : TierOrder(o, u, n, w, to)
<1>1. PICK to, of : Moved(u, v, w, to, of) BY DEF Permuted
<1>2. /\ to \in [1..w -> 1..w] /\ of \in [1..w -> 1..w]
      /\ \A i \in 1..w : to[of[i]] = i /\ of[to[i]] = i
      /\ \A i \in 1..w : u[i] = v[of[i]]
    BY <1>1 DEF Moved
<1>3. \A i, j \in 1..3 : o[i] = o[j] => i = j
    <2>1. \A i \in 1..3 : i = 1 \/ i = 2 \/ i = 3 OBVIOUS
    <2>2. QED BY <2>1 DEF IsOrder
<1>4. \A i, j \in 1..w : to[i] = to[j] => i = j BY <1>2
<1>5. \A i \in 1..w : u[i] = o[n + of[i] - 1] /\ n + of[i] - 1 \in n..3
    <2>1. ASSUME NEW i \in 1..w PROVE u[i] = o[n + of[i] - 1] /\ n + of[i] - 1 \in n..3
        <3>1. of[i] \in 1..w /\ u[i] = v[of[i]] BY <1>2
        <3>2. v[of[i]] = o[n + of[i] - 1] BY <3>1
        <3>3. n + of[i] - 1 \in n..3 BY <3>1
        <3>4. QED BY <3>1, <3>2, <3>3
    <2>2. QED BY <2>1
<1>6. ASSUME NEW j \in 1..w, NEW s \in Seat, s = o[n + j - 1]
      PROVE  /\ \E i \in 1..w : u[i] = s
             /\ (CHOOSE i \in 1..w : u[i] = s) = to[j]
    <2>1. to[j] \in 1..w /\ u[to[j]] = s BY <1>2, <1>5, <1>6
    <2>2. \A i \in 1..w : u[i] = s => i = to[j]
        <3>1. ASSUME NEW i \in 1..w, u[i] = s PROVE i = to[j]
            <4>1. n + of[i] - 1 \in 1..3 /\ n + j - 1 \in 1..3 BY <1>5
            <4>2. n + of[i] - 1 = n + j - 1 BY <1>3, <1>5, <1>6, <3>1, <4>1
            <4>3. of[i] \in 1..w BY <1>2
            <4>4. of[i] = j BY <4>2, <4>3
            <4>5. QED BY <1>2, <4>4
        <3>2. QED BY <3>1
    <2>3. QED BY <2>1, <2>2
<1>7. ASSUME NEW i \in 1..(n - 1), NEW m \in 1..w, u[m] = o[i] PROVE FALSE
    <2>1. n + of[m] - 1 \in 1..3 /\ i \in 1..3 /\ n + of[m] - 1 # i BY <1>5
    <2>2. QED BY <1>3, <1>5, <1>7, <2>1
<1>8. QED BY <1>2, <1>4, <1>6, <1>7 DEF TierOrder

-----------------------------------------------------------------------------
(* Hands for places *)

\* A tier begins somewhere after place i, at j at the latest.
Apart(begins, i, j) == \E m \in (i + 1)..j : m \in begins

\* The places before n have their hands, the last ones of hd: g says which.
GivenOut(o, hd, hands, begins, got, n, g) ==
    /\ g \in [1..(n - 1) -> (5 - n)..3]
    /\ \A i, j \in 1..(n - 1) : g[i] = g[j] => i = j
    /\ \A i, j \in 1..(n - 1) : Apart(begins, i, j) => g[i] > g[j]
    /\ \A i \in 1..(n - 1) : got[o[i]] = hands[hd[g[i]]]

\* One tier more: the w places from n on, whose order in the tier is to.
Serves(o, hd, hands, begins, got, got2, n, w, to) ==
    /\ \A m \in (n + 1)..(n + w - 1) : ~(m \in begins)
    /\ \A i, j \in 1..w : to[i] = to[j] => i = j
    /\ \A i \in 1..(n - 1) : got2[o[i]] = got[o[i]]
    /\ \A j \in 1..w : got2[o[n + j - 1]] = hands[hd[5 - n - to[j]]]

LEMMA Serve ==
    ASSUME NEW o, NEW hd, NEW hands, NEW begins, NEW got, NEW got2, NEW g,
           NEW n \in 1..3, NEW w \in 1..(4 - n), NEW to \in [1..w -> 1..w],
           GivenOut(o, hd, hands, begins, got, n, g),
           Serves(o, hd, hands, begins, got, got2, n, w, to)
    PROVE  \E g2 : GivenOut(o, hd, hands, begins, got2, n + w, g2)
<1> DEFINE last == n + w - 1
           g2 == [i \in 1..last |-> IF i < n THEN g[i] ELSE 5 - n - to[i - n + 1]]
<1>1. /\ g \in [1..(n - 1) -> (5 - n)..3]
      /\ \A i, j \in 1..(n - 1) : g[i] = g[j] => i = j
      /\ \A i, j \in 1..(n - 1) : Apart(begins, i, j) => g[i] > g[j]
      /\ \A i \in 1..(n - 1) : got[o[i]] = hands[hd[g[i]]]
    BY DEF GivenOut
<1>2. n \in Int /\ w \in Int /\ last \in Int /\ last = n + w - 1 OBVIOUS
<1>3. \A i \in n..last : i - n + 1 \in 1..w /\ to[i - n + 1] \in 1..w OBVIOUS
<1>4. \A i \in 1..(n - 1) : g2[i] = g[i] /\ g2[i] \in Int /\ g2[i] >= 5 - n /\ g2[i] <= 3
    BY <1>1
<1>5. \A i \in n..last : g2[i] = 5 - n - to[i - n + 1]
    OBVIOUS
<1>6. \A i \in n..last : g2[i] \in Int /\ g2[i] >= 5 - n - w /\ g2[i] <= 4 - n
    <2> HIDE DEF g2
    <2>1. TAKE i \in n..last
    <2>2. PICK t \in 1..w : g2[i] = 5 - n - t BY <1>3, <1>5
    <2>3. t \in Int /\ 1 <= t /\ t <= w OBVIOUS
    <2>4. QED BY <1>2, <2>2, <2>3
<1>7. \A i \in 1..last : i \in 1..(n - 1) \/ i \in n..last OBVIOUS
<1>8. DOMAIN g2 = 1..last /\ g2 = [i \in 1..last |-> g2[i]] OBVIOUS
<1> HIDE DEF g2, last
<1>9. g2 \in [1..last -> (5 - (n + w))..3]
    <2>1. \A i \in 1..last : g2[i] \in (5 - (n + w))..3
        <3>1. TAKE i \in 1..last
        <3>2. CASE i \in 1..(n - 1)
            <4>1. g2[i] \in Int /\ g2[i] >= 5 - n /\ g2[i] <= 3 BY <1>4, <3>2
            <4>2. PICK lo \in Int : lo = 5 - (n + w) BY <1>2
            <4>3. lo <= 5 - n BY <1>2, <4>2
            <4>4. PICK x \in Int : x = g2[i] BY <4>1
            <4>5. x \in lo..3 BY <1>2, <4>1, <4>3, <4>4
            <4>6. QED BY <4>2, <4>4, <4>5, Zenon
        <3>3. CASE i \in n..last BY <1>2, <1>6, <3>3
        <3>4. QED BY <1>7, <3>2, <3>3
    <2>2. QED BY <1>8, <2>1
<1>10. ASSUME NEW i \in 1..last, NEW j \in 1..last, g2[i] = g2[j] PROVE i = j
    <2>1. CASE i \in 1..(n - 1) /\ j \in 1..(n - 1) BY <1>1, <1>4, <1>10, <2>1
    <2>2. CASE i \in n..last /\ j \in n..last
        <3>1. /\ i - n + 1 \in 1..w /\ j - n + 1 \in 1..w
              /\ to[i - n + 1] \in 1..w /\ to[j - n + 1] \in 1..w
            BY <1>3, <2>2
        <3>2. 5 - n - to[i - n + 1] = 5 - n - to[j - n + 1] BY <1>5, <1>10, <2>2
        <3>3. to[i - n + 1] = to[j - n + 1] BY <1>2, <3>1, <3>2
        <3>4. i - n + 1 = j - n + 1 BY <3>1, <3>3 DEF Serves
        <3>5. QED BY <1>2, <3>4
    <2>3. CASE i \in 1..(n - 1) /\ j \in n..last
        <3>1. g2[i] >= 5 - n /\ g2[j] <= 4 - n /\ g2[i] \in Int BY <1>4, <1>6, <2>3
        <3>2. QED BY <1>2, <1>10, <3>1
    <2>4. CASE i \in n..last /\ j \in 1..(n - 1)
        <3>1. g2[j] >= 5 - n /\ g2[i] <= 4 - n /\ g2[i] \in Int BY <1>4, <1>6, <2>4
        <3>2. QED BY <1>2, <1>10, <3>1
    <2>5. QED BY <1>7, <2>1, <2>2, <2>3, <2>4
<1>11. ASSUME NEW i \in 1..last, NEW j \in 1..last, Apart(begins, i, j)
      PROVE  g2[i] > g2[j]
    <2>1. PICK m \in (i + 1)..j : m \in begins BY <1>11 DEF Apart
    <2>2. i < j BY <2>1
    <2>3. CASE j \in 1..(n - 1)
        <3>1. i \in 1..(n - 1) BY <2>2, <2>3
        <3>2. QED BY <1>1, <1>4, <1>11, <2>3, <3>1
    <2>4. CASE i \in 1..(n - 1) /\ j \in n..last
        <3>1. /\ g2[i] >= 5 - n /\ g2[j] <= 4 - n /\ g2[i] \in Int /\ g2[j] \in Int
            BY <1>4, <1>6, <2>4
        <3>2. QED BY <1>2, <3>1
    <2>5. CASE i \in n..last /\ j \in n..last
        <3>1. m \in (n + 1)..(n + w - 1) BY <1>2, <2>1, <2>5
        <3>2. QED BY <2>1, <3>1 DEF Serves
    <2>6. CASE i \in n..last /\ j \in 1..(n - 1) BY <1>2, <2>2, <2>6
    <2>7. QED BY <1>7, <2>3, <2>4, <2>5, <2>6
<1>12. ASSUME NEW i \in 1..last PROVE got2[o[i]] = hands[hd[g2[i]]]
    <2>1. CASE i \in 1..(n - 1) BY <1>1, <1>4, <2>1 DEF Serves
    <2>2. CASE i \in n..last
        <3>1. got2[o[n + (i - n + 1) - 1]] = hands[hd[5 - n - to[i - n + 1]]]
            BY <1>3, <2>2 DEF Serves
        <3>2. n + (i - n + 1) - 1 = i BY <1>2, <2>2
        <3>3. QED BY <1>5, <2>2, <3>1, <3>2
    <2>3. QED BY <1>7, <2>1, <2>2
<1>13. GivenOut(o, hd, hands, begins, got2, n + w, g2)
    <2>1. n + w - 1 = last BY <1>2
    <2>2. PICK n2 : n2 = n + w OBVIOUS
    <2>3. n2 - 1 = last /\ g2 \in [1..last -> (5 - n2)..3] BY <1>9, <2>1, <2>2
    <2>4. \A i, j \in 1..last : g2[i] = g2[j] => i = j BY <1>10
    <2>5. \A i, j \in 1..last : Apart(begins, i, j) => g2[i] > g2[j] BY <1>11, Zenon
    <2>6. \A i \in 1..last : got2[o[i]] = hands[hd[g2[i]]] BY <1>12, Zenon
    <2>7. GivenOut(o, hd, hands, begins, got2, n2, g2)
        BY ONLY <2>3, <2>4, <2>5, <2>6, Zenon DEF GivenOut
    <2>8. QED BY <2>2, <2>7
<1>14. QED BY <1>13

\* Who leads, and is not close to the other even through the third seat, is in
\* an earlier tier.
LEMMA LeadersApart ==
    ASSUME scores \in [Seat -> Int], NEW s \in Seat, NEW t \in Seat,
           scores[s] > scores[t], ~Close(s, t), ~\E u \in Seat : Close(s, u) /\ Close(u, t)
    PROVE  \E i, j \in 1..3 : s = seat_ord[i] /\ t = seat_ord[j] /\ Apart(Begins, i, j)
<1>1. FallsAlong(scores, seat_ord) BY FallingFalls DEF seat_ord
<1>2. PICK a, b, c \in Seat : /\ a = seat_ord[1] /\ b = seat_ord[2] /\ c = seat_ord[3]
                              /\ a # b /\ b # c /\ a # c
                              /\ scores[a] >= scores[b] /\ scores[b] >= scores[c]
    BY <1>1 DEF FallsAlong, IsOrder
<1>3. /\ 2 \in Begins <=> scores[a] - scores[b] > 2
      /\ 3 \in Begins <=> scores[b] - scores[c] > 2
    BY <1>2 DEF Begins, Gap, kScoreCloseGap
<1>4. (s = a \/ s = b \/ s = c) /\ (t = a \/ t = b \/ t = c) BY <1>2 DEF Seat
<1>5. \A x, y \in Seat : Close(x, y) <=> scores[x] - scores[y] <= 2 /\ scores[y] - scores[x] <= 2
    BY DEF Close, kScoreCloseGap
<1>6. scores[a] \in Int /\ scores[b] \in Int /\ scores[c] \in Int OBVIOUS
<1>7. CASE s = a /\ t = b
    <2>1. 2 \in Begins BY <1>2, <1>3, <1>5, <1>6, <1>7
    <2>2. Apart(Begins, 1, 2) BY <2>1 DEF Apart
    <2>3. QED BY <1>2, <1>7, <2>2
<1>8. CASE s = b /\ t = c
    <2>1. 3 \in Begins BY <1>2, <1>3, <1>5, <1>6, <1>8
    <2>2. Apart(Begins, 2, 3) BY <2>1 DEF Apart
    <2>3. QED BY <1>2, <1>8, <2>2
<1>9. CASE s = a /\ t = c
    <2>1. ~(Close(a, b) /\ Close(b, c)) BY <1>9
    <2>2. 2 \in Begins \/ 3 \in Begins BY <1>2, <1>3, <1>5, <1>6, <2>1
    <2>3. Apart(Begins, 1, 3) BY <2>2 DEF Apart
    <2>4. QED BY <1>2, <1>9, <2>3
<1>10. QED BY <1>2, <1>4, <1>6, <1>7, <1>8, <1>9

\* What a pack is made of.
LEMMA PackOfDeck ==
    ASSUME NEW deck, IsDeck(deck)
    PROVE  LET before == shuffle_one(deck) IN
           /\ before.hands \in [Seat -> SUBSET Card]
           /\ (UNION {before.hands[s] : s \in Seat}) \cup before.bottom
                = {deck[i] : i \in DOMAIN deck}
           /\ \A s \in Seat : before.hands[s] \cap before.bottom = {}
<1> DEFINE H == HandSize
           before == shuffle_one(deck)
<1>1. /\ H \in Nat /\ deck \in Seq(Card) /\ DOMAIN deck = 1..Len(deck) /\ Len(deck) \in Nat
      /\ 3 * H <= Len(deck)
      /\ \A i, j \in DOMAIN deck : deck[i] = deck[j] => i = j
    BY HandSizeAssumption DEF IsDeck
<1>2. /\ before.hands = [s \in Seat |-> Slice(deck, s * H + 1, (s + 1) * H)]
      /\ before.bottom = Slice(deck, 3 * H + 1, Len(deck))
    BY DEF shuffle_one
<1>3. /\ before.hands[0] = Slice(deck, 1, H)
      /\ before.hands[1] = Slice(deck, H + 1, 2 * H)
      /\ before.hands[2] = Slice(deck, 2 * H + 1, 3 * H)
    <2>1. 0 \in Seat /\ 1 \in Seat /\ 2 \in Seat BY DEF Seat
    <2>2. /\ 0 * H + 1 = 1 /\ (0 + 1) * H = H /\ 1 * H + 1 = H + 1
          /\ (1 + 1) * H = 2 * H /\ (2 + 1) * H = 3 * H
        BY <1>1
    <2>3. /\ before.hands[0] = Slice(deck, 0 * H + 1, (0 + 1) * H)
          /\ before.hands[1] = Slice(deck, 1 * H + 1, (1 + 1) * H)
          /\ before.hands[2] = Slice(deck, 2 * H + 1, (2 + 1) * H)
        BY <1>2, <2>1
    <2>4. QED BY <2>2, <2>3
<1>4. \A s \in Seat : s = 0 \/ s = 1 \/ s = 2 BY DEF Seat
<1>5. \A x, lo, hi : x \in Slice(deck, lo, hi) <=> \E i \in lo..hi : x = deck[i]
    BY DEF Slice
<1>6. ASSUME NEW s \in Seat
      PROVE  /\ before.hands[s] \in SUBSET Card
             /\ before.hands[s] \subseteq {deck[i] : i \in DOMAIN deck}
             /\ before.hands[s] \cap before.bottom = {}
    <2>1. \E lo \in 1..(3 * H + 1), hi \in 0..(3 * H) : before.hands[s] = Slice(deck, lo, hi)
        BY <1>1, <1>3, <1>4
    <2>2. \A x \in before.hands[s] : \E i \in 1..(3 * H) : x = deck[i]
        BY <1>1, <1>5, <2>1
    <2>3. \A i \in 1..(3 * H) : i \in DOMAIN deck /\ deck[i] \in Card BY <1>1
    <2>4. before.hands[s] \in SUBSET Card BY <2>2, <2>3
    <2>5. before.hands[s] \subseteq {deck[i] : i \in DOMAIN deck} BY <2>2, <2>3
    <2>6. ASSUME NEW x \in before.hands[s], x \in before.bottom PROVE FALSE
        <3>1. PICK i \in 1..(3 * H) : x = deck[i] BY <2>2
        <3>2. PICK j \in (3 * H + 1)..Len(deck) : x = deck[j] BY <1>2, <1>5, <2>6
        <3>3. i \in DOMAIN deck /\ j \in DOMAIN deck /\ i # j BY <1>1
        <3>4. QED BY <1>1, <3>1, <3>2, <3>3
    <2>7. QED BY <2>4, <2>5, <2>6
<1>7. before.hands \in [Seat -> SUBSET Card] BY <1>2, <1>6
<1>8. before.bottom \subseteq {deck[i] : i \in DOMAIN deck}
    <2>1. \A j \in (3 * H + 1)..Len(deck) : j \in DOMAIN deck BY <1>1
    <2>2. QED BY <1>2, <1>5, <2>1
<1>9. ASSUME NEW i \in DOMAIN deck
      PROVE  deck[i] \in (UNION {before.hands[s] : s \in Seat}) \cup before.bottom
    <2>1. i \in 1..H \/ i \in (H + 1)..(2 * H) \/ i \in (2 * H + 1)..(3 * H)
             \/ i \in (3 * H + 1)..Len(deck)
        BY <1>1
    <2>2. \/ deck[i] \in before.hands[0] \/ deck[i] \in before.hands[1]
          \/ deck[i] \in before.hands[2] \/ deck[i] \in before.bottom
        BY <1>2, <1>3, <1>5, <2>1
    <2>3. 0 \in Seat /\ 1 \in Seat /\ 2 \in Seat BY DEF Seat
    <2>4. QED BY <2>2, <2>3, Zenon
<1> HIDE DEF before
<1>10. (UNION {before.hands[s] : s \in Seat}) \cup before.bottom = {deck[i] : i \in DOMAIN deck}
    BY <1>6, <1>8, <1>9
<1>11. QED BY <1>6, <1>7, <1>10 DEF before

-----------------------------------------------------------------------------
(* The invariant *)

InputsOK ==
    /\ reply \in Seq(0..Other)
    /\ \A n \in 1..kChoices : IsDeck(decks[n])
    /\ scores \in [Seat -> Int]

PackChosen == pack = shuffle_one(decks[scheme(reply)])

\* The places before n are served, with the last hands of hand_ord.
ServedTo(n) ==
    /\ tiers = CutFrom(n)
    /\ rest \in Seq(Seat) /\ Len(rest) = 4 - n
    /\ \A i \in 1..(4 - n) : rest[i] = hand_ord[i]
    /\ \E g : GivenOut(seat_ord, hand_ord, pack.hands, Begins, placed, n, g)

StageInv ==
    /\ step \in {"pick", "assign", "place", "done"}
    /\ InputsOK
    /\ step \in {"assign", "place"} => PackChosen
    /\ step = "place" => \E n \in 1..4 : ServedTo(n)
    /\ HandsAllDealt
    /\ LeadersGetWeaker

LEMMA InitStage == Init => StageInv
<1> SUFFICES ASSUME Init PROVE StageInv
    OBVIOUS
<1>1. step = "pick" BY DEF Init
<1>2. PICK input \in Inputs : reply = input[1] /\ decks = input[2] /\ scores = input[3]
    BY DEF Init
<1>3. InputsOK BY <1>2, InputsAssumption DEF InputsOK
<1>4. QED BY <1>1, <1>3 DEF StageInv, HandsAllDealt, LeadersGetWeaker

LEMMA OrdersOfPack ==
    ASSUME StageInv, PackChosen
    PROVE  /\ IsDeck(decks[scheme(reply)])
           /\ pack.hands \in [Seat -> SUBSET Card]
           /\ FallsAlong([h \in Seat |-> hand_power(pack.hands[h])], hand_ord)
           /\ FallsAlong(scores, seat_ord)
<1>1. IsDeck(decks[scheme(reply)]) BY SchemeOfFive DEF StageInv, InputsOK
<1>2. pack.hands \in [Seat -> SUBSET Card] BY <1>1, PackOfDeck DEF PackChosen
<1>3. [h \in Seat |-> hand_power(pack.hands[h])] \in [Seat -> Int]
    BY <1>2, PowerIsInt
<1>4. FallsAlong([h \in Seat |-> hand_power(pack.hands[h])], hand_ord)
    BY <1>3, FallingFalls DEF hand_ord
<1>5. FallsAlong(scores, seat_ord)
    BY FallingFalls DEF seat_ord, StageInv, InputsOK
<1>6. QED BY <1>1, <1>2, <1>4, <1>5

LEMMA ChooseStage == ASSUME StageInv, Choose PROVE StageInv'
<1>1. /\ PackChosen' /\ step' = "assign" /\ UNCHANGED inputs
    BY DEF Choose, PackChosen, inputs
<1>2. InputsOK' BY <1>1 DEF StageInv, InputsOK, inputs
<1>3. QED BY <1>1, <1>2 DEF StageInv, HandsAllDealt, LeadersGetWeaker

LEMMA AssignStage == ASSUME StageInv, Assign PROVE StageInv'
<1>1. /\ step = "assign" /\ step' = "place" /\ UNCHANGED inputs /\ pack' = pack
      /\ tiers' = Tiers /\ rest' = hand_ord
    BY DEF Assign
<1>2. PackChosen /\ PackChosen' BY <1>1 DEF StageInv, PackChosen, inputs
<1>3. hand_ord' = hand_ord /\ seat_ord' = seat_ord /\ Begins' = Begins
    BY <1>1 DEF hand_ord, seat_ord, Begins, Gap, inputs
<1>4. tiers' = CutFrom(1)'
    <2>1. CutFrom(1)' = CutFrom(1) BY <1>3 DEF CutFrom, Tier
    <2>2. QED BY <1>1, <2>1, TiersCut
<1>5. rest' \in Seq(Seat) /\ Len(rest') = 3
    <2>1. hand_ord \in [1..3 -> Seat] BY <1>2, OrdersOfPack DEF FallsAlong, IsOrder
    <2>2. DOMAIN hand_ord = 1..3 BY <2>1
    <2>3. 3 \in Nat /\ \A n \in Nat : [1..n -> Seat] \subseteq Seq(Seat) OBVIOUS
    <2>4. hand_ord \in Seq(Seat) BY <2>1, <2>3
    <2>5. DOMAIN hand_ord = 1..Len(hand_ord) /\ Len(hand_ord) \in Nat BY <2>4
    <2>6. QED BY <1>1, <2>2, <2>4, <2>5
<1>6. GivenOut(seat_ord', hand_ord', pack'.hands, Begins', placed', 1, <<>>)
    BY DEF GivenOut
<1>7. ServedTo(1)' BY <1>1, <1>3, <1>4, <1>5, <1>6 DEF ServedTo
<1>8. InputsOK' BY <1>1 DEF StageInv, InputsOK, inputs
<1>9. QED BY <1>1, <1>2, <1>7, <1>8 DEF StageInv, HandsAllDealt, LeadersGetWeaker

\* The hands after a tier of k that was shuffled into u.
PlacedAfter(u, k) ==
    [s \in Seat |-> IF \E i \in 1..k : u[i] = s
                    THEN pack.hands[Taken(k)[CHOOSE i \in 1..k : u[i] = s]]
                    ELSE placed[s]]

LEMMA PlaceStage == ASSUME StageInv, PlaceTier PROVE StageInv'
<1>1. /\ step = "place" /\ step' = "place" /\ tiers # <<>> /\ tiers' = Tail(tiers)
      /\ UNCHANGED inputs /\ pack' = pack
    BY DEF PlaceTier
<1>2. PackChosen /\ PackChosen' BY <1>1 DEF StageInv, PackChosen, inputs
<1>3. hand_ord' = hand_ord /\ seat_ord' = seat_ord /\ Begins' = Begins
    BY <1>1 DEF hand_ord, seat_ord, Begins, Gap, inputs
<1>4. \A m : CutFrom(m)' = CutFrom(m) BY <1>3 DEF CutFrom, Tier
<1>5. IsOrder(seat_ord) BY <1>2, OrdersOfPack DEF FallsAlong
<1>6. PICK n \in 1..4 : ServedTo(n) BY <1>1 DEF StageInv
<1>7. PICK g : GivenOut(seat_ord, hand_ord, pack.hands, Begins, placed, n, g)
    BY <1>6 DEF ServedTo
<1>8. /\ tiers = CutFrom(n) /\ rest \in Seq(Seat) /\ Len(rest) = 4 - n
      /\ \A i \in 1..(4 - n) : rest[i] = hand_ord[i]
    BY <1>6 DEF ServedTo
<1>9. n \in 1..3
    <2>1. CutFrom(4) = <<>> BY DEF CutFrom
    <2>2. n # 4 BY <1>1, <1>8, <2>1, Zenon
    <2>3. QED BY <2>2
<1>10. PICK w \in 1..(4 - n) :
           /\ Tail(CutFrom(n)) = CutFrom(n + w)
           /\ Head(CutFrom(n)) = Tier(n, n + w - 1)
           /\ \A m \in (n + 1)..(n + w - 1) : ~(m \in Begins)
    BY <1>5, <1>9, NextTier
<1>11. PICK v : v = Tier(n, n + w - 1) OBVIOUS
<1>12. v \in Seq(Seat) /\ Len(v) = w /\ \A j \in 1..w : v[j] = seat_ord[n + j - 1]
    BY <1>5, <1>9, <1>11, TierFields
<1>13. Head(tiers) = v BY <1>8, <1>10, <1>11
<1>14. PICK d \in Draws(w) : placed' = PlacedAfter(shuffle_idx(v, d), w)
    <2>1. \E d \in Draws(Len(Head(tiers))) :
             placed' = PlacedAfter(shuffle_idx(Head(tiers), d), Len(Head(tiers)))
        BY DEF PlaceTier, PlacedAfter
    <2>2. QED BY <1>12, <1>13, <2>1, Zenon
<1>15. PICK u : u = shuffle_idx(v, d) OBVIOUS
<1>16. placed' = PlacedAfter(u, w) BY <1>14, <1>15
<1>17. w \in 1..3 BY <1>9
<1>18. Permuted(u, v, w) BY <1>12, <1>15, <1>17, ShufflePermutes
<1>19. PICK to : TierOrder(seat_ord, u, n, w, to)
    BY <1>5, <1>9, <1>12, <1>18, TierGets
<1>20. \A i \in 1..3 : seat_ord[i] \in Seat BY <1>5 DEF IsOrder
<1>21. ASSUME NEW i \in 1..(n - 1) PROVE placed'[seat_ord[i]] = placed[seat_ord[i]]
    <2>1. seat_ord[i] \in Seat
        <3>1. i \in 1..3 BY ONLY <1>9, i \in 1..(n - 1)
        <3>2. QED BY <1>20, <3>1
    <2>2. ~\E m \in 1..w : u[m] = seat_ord[i] BY <1>19 DEF TierOrder
    <2>3. QED BY <1>16, <2>1, <2>2, Zenon DEF PlacedAfter
<1>22. ASSUME NEW j \in 1..w
       PROVE  placed'[seat_ord[n + j - 1]] = pack.hands[hand_ord[5 - n - to[j]]]
    <2>1. PICK s \in Seat : s = seat_ord[n + j - 1]
        <3>1. n + j - 1 \in 1..3 BY ONLY <1>9, w \in 1..(4 - n), j \in 1..w
        <3>2. QED BY <1>20, <3>1
    <2>2. (\E i \in 1..w : u[i] = s) /\ (CHOOSE i \in 1..w : u[i] = s) = to[j]
        BY <1>19, <2>1, Zenon DEF TierOrder
    <2>3. placed'[s] = pack.hands[Taken(w)[to[j]]] BY <1>16, <2>2, Zenon DEF PlacedAfter
    <2>4. PICK t \in 1..w : t = to[j] BY <1>19 DEF TierOrder
    <2>5. Taken(w)[t] = rest[Len(rest) + 1 - t] BY DEF Taken
    <2>6. Len(rest) + 1 - t = 5 - n - t /\ 5 - n - t \in 1..(4 - n)
        BY <1>8, <1>9
    <2>7. Taken(w)[t] = hand_ord[5 - n - t] BY <1>8, <2>5, <2>6, Zenon
    <2>8. QED BY <2>1, <2>3, <2>4, <2>7, Zenon
<1>23. \E g2 : GivenOut(seat_ord, hand_ord, pack.hands, Begins, placed', n + w, g2)
    <2>1. Serves(seat_ord, hand_ord, pack.hands, Begins, placed, placed', n, w, to)
        BY <1>10, <1>19, <1>21, <1>22, Zenon DEF Serves, TierOrder
    <2>2. to \in [1..w -> 1..w] BY <1>19 DEF TierOrder
    <2>3. QED BY <1>7, <1>9, <2>1, <2>2, Serve
<1>24. /\ rest' \in Seq(Seat) /\ Len(rest') = 4 - (n + w)
       /\ \A i \in 1..(4 - (n + w)) : rest'[i] = hand_ord[i]
    <2>1. rest' = SubSeq(rest, 1, Len(rest) - w)
        BY <1>12, <1>13 DEF PlaceTier, Left
    <2>2. Len(rest) - w = 4 - (n + w) /\ 4 - (n + w) \in 0..3 BY <1>8, <1>9
    <2>3. PICK k \in 0..3 : k = 4 - (n + w) BY <2>2
    <2>4. k <= Len(rest) /\ rest' = SubSeq(rest, 1, k) BY <1>8, <1>9, <2>1, <2>2, <2>3
    <2>5. /\ rest' \in Seq(Seat) /\ Len(rest') = k
          /\ \A i \in 1..k : rest'[i] = rest[i]
        BY ONLY <2>4, <1>8
    <2>6. \A i \in 1..k : i \in 1..(4 - n) BY <1>9, <2>3
    <2>7. QED BY <1>8, <2>3, <2>5, <2>6
<1>25. ServedTo(n + w)'
    <2>1. PICK m : m = n + w OBVIOUS
    <2>2. tiers' = CutFrom(m)' BY <1>1, <1>4, <1>8, <1>10, <2>1
    <2>3. \E g2 : GivenOut(seat_ord', hand_ord', pack'.hands, Begins', placed', m, g2)
        BY <1>1, <1>3, <1>23, <2>1
    <2>4. /\ rest' \in Seq(Seat) /\ Len(rest') = 4 - m
          /\ \A i \in 1..(4 - m) : rest'[i] = hand_ord'[i]
        BY <1>3, <1>24, <2>1
    <2>5. ServedTo(m)' BY <2>2, <2>3, <2>4 DEF ServedTo
    <2>6. QED BY <2>1, <2>5
<1>26. n + w \in 1..4 BY <1>9
<1>27. InputsOK' BY <1>1 DEF StageInv, InputsOK, inputs
<1>28. QED BY <1>1, <1>2, <1>25, <1>26, <1>27 DEF StageInv, HandsAllDealt, LeadersGetWeaker

\* Every seat is somewhere in an order of the seats.
LEMMA OrderCovers ==
    ASSUME NEW o, IsOrder(o)
    PROVE  /\ \A s \in Seat : \E i \in 1..3 : o[i] = s
           /\ \A i \in 1..3 : o[i] \in Seat
<1>1. \A s \in Seat : s = 0 \/ s = 1 \/ s = 2 BY DEF Seat
<1>2. /\ o[1] \in Seat /\ o[2] \in Seat /\ o[3] \in Seat
      /\ o[1] # o[2] /\ o[2] # o[3] /\ o[1] # o[3]
    BY DEF IsOrder
<1>3. \A s \in Seat : s = o[1] \/ s = o[2] \/ s = o[3] BY <1>1, <1>2
<1>4. \A i \in 1..3 : i = 1 \/ i = 2 \/ i = 3 OBVIOUS
<1>5. 1 \in 1..3 /\ 2 \in 1..3 /\ 3 \in 1..3 OBVIOUS
<1>6. QED BY <1>2, <1>3, <1>4, <1>5, Zenon

SameHands(got, hands) == {got[s] : s \in Seat} = {hands[s] : s \in Seat}

\* When all are served, the seats have the three hands of the pack.
LEMMA AllGiven ==
    ASSUME NEW o, NEW hd, NEW hands, NEW begins, NEW got, NEW g,
           IsOrder(o), IsOrder(hd), GivenOut(o, hd, hands, begins, got, 4, g)
    PROVE  SameHands(got, hands)
<1>1. /\ g \in [1..3 -> 1..3] /\ \A i, j \in 1..3 : g[i] = g[j] => i = j
      /\ \A i \in 1..3 : got[o[i]] = hands[hd[g[i]]]
    <2>1. 4 - 1 = 3 /\ 5 - 4 = 1 OBVIOUS
    <2>2. QED BY <2>1, Zenon DEF GivenOut
<1>2. \A s \in Seat : \E h \in Seat : got[s] = hands[h]
    <2>1. TAKE s \in Seat
    <2>2. PICK i \in 1..3 : o[i] = s BY OrderCovers
    <2>3. g[i] \in 1..3 BY <1>1
    <2>4. hd[g[i]] \in Seat BY <2>3, OrderCovers
    <2>5. QED BY <1>1, <2>2, <2>4
<1>3. \A h \in Seat : \E s \in Seat : got[s] = hands[h]
    <2>1. TAKE h \in Seat
    <2>2. PICK m \in 1..3 : hd[m] = h BY OrderCovers
    <2>3. \E i \in 1..3 : g[i] = m
        <3>1. g[1] \in 1..3 /\ g[2] \in 1..3 /\ g[3] \in 1..3 BY <1>1
        <3>2. g[1] # g[2] /\ g[2] # g[3] /\ g[1] # g[3]
            <4>1. 1 \in 1..3 /\ 2 \in 1..3 /\ 3 \in 1..3 /\ 1 # 2 /\ 2 # 3 /\ 1 # 3 OBVIOUS
            <4>2. QED BY <1>1, <4>1
        <3>3. m = g[1] \/ m = g[2] \/ m = g[3] BY <3>1, <3>2
        <3>4. QED BY <3>3
    <2>4. PICK i \in 1..3 : g[i] = m BY <2>3
    <2>5. o[i] \in Seat BY OrderCovers
    <2>6. QED BY <1>1, <2>2, <2>4, <2>5
<1>4. {got[s] : s \in Seat} = {hands[s] : s \in Seat} BY <1>2, <1>3
<1>5. QED BY <1>4 DEF SameHands

\* HandsAllDealt for the hands that are out.
DealtFrom(deck, hands, bottom) ==
    /\ {hands[s] : s \in Seat} = {shuffle_one(deck).hands[s] : s \in Seat}
    /\ (UNION {hands[s] : s \in Seat}) \cup bottom = {deck[i] : i \in DOMAIN deck}
    /\ \A s \in Seat : hands[s] \cap bottom = {}

LEMMA DealtNow ==
    HandsAllDealt <=> (step = "done" => DealtFrom(decks[scheme(reply)], pack.hands, pack.bottom))
BY DEF HandsAllDealt, DealtFrom

LEMMA DealtNext ==
    HandsAllDealt' <=>
        (step' = "done" => DealtFrom(decks'[scheme(reply')], pack'.hands, pack'.bottom))
BY DEF HandsAllDealt, DealtFrom, scheme, parse_pick, Named

LEMMA FinishStage == ASSUME StageInv, FinishDeal PROVE StageInv'
<1>1. /\ step = "place" /\ step' = "done" /\ tiers = <<>>
      /\ UNCHANGED inputs /\ pack' = [pack EXCEPT !.hands = placed]
    BY DEF FinishDeal
<1>2. PackChosen BY <1>1 DEF StageInv
<1>3. pack'.hands = placed /\ pack'.bottom = pack.bottom
    BY <1>1, <1>2 DEF PackChosen, shuffle_one
<1>4. /\ IsOrder(seat_ord) /\ IsOrder(hand_ord)
      /\ FallsAlong([h \in Seat |-> hand_power(pack.hands[h])], hand_ord)
    BY <1>2, OrdersOfPack DEF FallsAlong
<1>5. ServedTo(4)
    <2>1. PICK n \in 1..4 : ServedTo(n) BY <1>1 DEF StageInv
    <2>2. CASE n \in 1..3
        <3>1. CutFrom(n) # <<>> BY <1>4, <2>2, NextTier
        <3>2. QED BY <1>1, <2>1, <3>1 DEF ServedTo
    <2>3. CASE n = 4 BY <2>1, <2>3
    <2>4. QED BY <2>2, <2>3
<1>6. PICK g : GivenOut(seat_ord, hand_ord, pack.hands, Begins, placed, 4, g)
    BY <1>5 DEF ServedTo
<1>7. HandsAllDealt'
    <2>1. PICK deck : deck = decks[scheme(reply)] OBVIOUS
    <2>2. IsDeck(deck) /\ pack = shuffle_one(deck)
        BY <1>2, <2>1, OrdersOfPack DEF PackChosen
    <2>3. {placed[s] : s \in Seat} = {pack.hands[s] : s \in Seat}
        <3>1. SameHands(placed, pack.hands) BY <1>4, <1>6, AllGiven
        <3>2. QED BY <3>1 DEF SameHands
    <2>4. /\ (UNION {pack.hands[s] : s \in Seat}) \cup pack.bottom = {deck[i] : i \in DOMAIN deck}
          /\ \A s \in Seat : pack.hands[s] \cap pack.bottom = {}
        BY <2>2, PackOfDeck
    <2>5. (UNION {placed[s] : s \in Seat}) \cup pack.bottom = {deck[i] : i \in DOMAIN deck}
        BY <2>3, <2>4, Zenon
    <2>6. \A s \in Seat : placed[s] \cap pack.bottom = {}
        <3>1. TAKE s \in Seat
        <3>2. placed[s] \in {pack.hands[h] : h \in Seat} BY <2>3
        <3>3. PICK h \in Seat : placed[s] = pack.hands[h] BY <3>2
        <3>4. QED BY <2>4, <3>3
    <2>7. DealtFrom(deck, placed, pack.bottom)
        <3>1. {placed[s] : s \in Seat} = {shuffle_one(deck).hands[s] : s \in Seat}
            BY ONLY <2>2, <2>3
        <3>2. QED BY ONLY <2>5, <2>6, <3>1 DEF DealtFrom
    <2>8. decks' = decks /\ reply' = reply BY <1>1 DEF inputs
    <2>9. QED BY <1>3, <2>1, <2>7, <2>8, DealtNext, Zenon
<1>8. LeadersGetWeaker'
    <2>1. SUFFICES ASSUME NEW s \in Seat, NEW t \in Seat, scores[s] > scores[t], ~Close(s, t),
                          ~\E u \in Seat : Close(s, u) /\ Close(u, t)
                   PROVE  hand_power(placed[s]) <= hand_power(placed[t])
        BY <1>1, <1>3 DEF LeadersGetWeaker, Close, inputs
    <2>2. scores \in [Seat -> Int] BY DEF StageInv, InputsOK
    <2>3. PICK i \in 1..3, j \in 1..3 :
            s = seat_ord[i] /\ t = seat_ord[j] /\ Apart(Begins, i, j)
        BY <2>1, <2>2, LeadersApart
    <2>4. /\ g \in [1..3 -> 1..3] /\ g[i] > g[j]
          /\ placed[s] = pack.hands[hand_ord[g[i]]] /\ placed[t] = pack.hands[hand_ord[g[j]]]
        <3>1. 4 - 1 = 3 /\ 5 - 4 = 1 OBVIOUS
        <3>2. QED BY <1>6, <2>3, <3>1, Zenon DEF GivenOut
    <2>5. PICK a \in 1..3, b \in 1..3 : a = g[i] /\ b = g[j] BY <2>4
    <2>6. PICK p \in [1..3 -> Int] : \A m \in 1..3 : p[m] = hand_power(pack.hands[hand_ord[m]])
        <3>1. \A m \in 1..3 : hand_power(pack.hands[hand_ord[m]]) \in Int
            <4>1. pack.hands \in [Seat -> SUBSET Card] BY <1>2, OrdersOfPack
            <4>2. \A m \in 1..3 : hand_ord[m] \in Seat BY <1>4, OrderCovers
            <4>3. QED BY <4>1, <4>2, PowerIsInt
        <3>2. [m \in 1..3 |-> hand_power(pack.hands[hand_ord[m]])] \in [1..3 -> Int] BY <3>1
        <3>3. QED BY <3>2
    <2>7. p[1] >= p[2] /\ p[2] >= p[3]
        <3>1. hand_ord[1] \in Seat /\ hand_ord[2] \in Seat /\ hand_ord[3] \in Seat
            BY <1>4, OrderCovers
        <3>2. /\ p[1] = hand_power(pack.hands[hand_ord[1]])
              /\ p[2] = hand_power(pack.hands[hand_ord[2]])
              /\ p[3] = hand_power(pack.hands[hand_ord[3]])
            BY <2>6
        <3>3. QED BY <1>4, <3>1, <3>2 DEF FallsAlong
    <2>8. p[a] <= p[b]
        <3>1. a > b BY <2>4, <2>5
        <3>2. QED BY ONLY <2>7, <3>1, a \in 1..3, b \in 1..3, p \in [1..3 -> Int]
    <2>9. QED BY <2>4, <2>5, <2>6, <2>8
<1>9. InputsOK' BY <1>1 DEF StageInv, InputsOK, inputs
<1>10. QED BY <1>1, <1>7, <1>8, <1>9 DEF StageInv

LEMMA StutterStage == ASSUME StageInv, UNCHANGED vars PROVE StageInv'
<1>1. UNCHANGED <<step, reply, decks, scores, pack, tiers, rest, placed>>
    BY DEF vars, inputs
<1>2. InputsOK' /\ (PackChosen' <=> PackChosen)
    BY <1>1 DEF StageInv, InputsOK, PackChosen
<1>3. \A n : ServedTo(n)' <=> ServedTo(n)
    <2>1. hand_ord' = hand_ord /\ seat_ord' = seat_ord /\ Begins' = Begins
        BY <1>1 DEF hand_ord, seat_ord, Begins, Gap
    <2>2. \A n : CutFrom(n)' = CutFrom(n) BY <2>1 DEF CutFrom, Tier
    <2>3. QED BY <1>1, <2>1, <2>2 DEF ServedTo
<1>4. HandsAllDealt'
    <2>1. HandsAllDealt BY DEF StageInv
    <2>2. QED BY <1>1, <2>1, DealtNow, DealtNext, Zenon
<1>5. LeadersGetWeaker'
    BY <1>1 DEF StageInv, LeadersGetWeaker, Close
<1>6. QED BY <1>1, <1>2, <1>3, <1>4, <1>5 DEF StageInv

LEMMA StageHolds == Spec => []StageInv
<1>1. StageInv /\ [Next]_vars => StageInv'
    <2> SUFFICES ASSUME StageInv, [Next]_vars PROVE StageInv'
        OBVIOUS
    <2>1. CASE Choose BY <2>1, ChooseStage
    <2>2. CASE Assign BY <2>2, AssignStage
    <2>3. CASE PlaceTier BY <2>3, PlaceStage
    <2>4. CASE FinishDeal BY <2>4, FinishStage
    <2>5. CASE UNCHANGED vars BY <2>5, StutterStage
    <2>6. QED BY <2>1, <2>2, <2>3, <2>4, <2>5 DEF Next
<1>2. QED BY <1>1, InitStage, PTL DEF Spec

-----------------------------------------------------------------------------
(* Theorems *)

\* DealEval::pick: whatever the reply says, one of the five packs is taken, and
\* the one that is named where a pack is named as it should be.
THEOREM RepliesAreObeyed == Spec => []ReplyObeyed
<1>1. StageInv => ReplyObeyed
    <2> SUFFICES ASSUME StageInv, step = "assign" PROVE
            /\ \E n \in 1..kChoices : pack = shuffle_one(decks[n])
            /\ \A n \in 1..kChoices : Names(reply, n) => pack = shuffle_one(decks[n])
        BY DEF ReplyObeyed
    <2>1. PackChosen /\ reply \in Seq(0..Other) BY DEF StageInv, InputsOK
    <2>2. scheme(reply) \in 1..kChoices BY <2>1, SchemeOfFive
    <2>3. \A n \in 1..kChoices : Names(reply, n) => scheme(reply) = n
        BY <2>1, NamedFound
    <2>4. QED BY <2>1, <2>2, <2>3 DEF PackChosen
<1>2. QED BY <1>1, StageHolds, PTL

\* DealAssign::apply loses no card and swaps none between hands.
THEOREM AllHandsAreDealt == Spec => []HandsAllDealt
<1>1. StageInv => HandsAllDealt BY DEF StageInv
<1>2. QED BY <1>1, StageHolds, PTL

\* The seats of two of the tiers that CutFrom tells apart are places in a row
\* each, and a tier begins between them.
TwoTiers(t, x, y) ==
    \E i, j, k, l \in 1..3 :
        /\ t[x] = Tier(i, j) /\ t[y] = Tier(k, l)
        /\ i <= j /\ j < k /\ k <= l /\ k \in Begins

LEMMA TwoOfPair ==
    ASSUME NEW a, NEW b
    PROVE  /\ DOMAIN <<a>> = {1} /\ DOMAIN <<a, b>> = {1, 2}
           /\ <<a, b>>[1] = a /\ <<a, b>>[2] = b
OBVIOUS

LEMMA TwoOfThree ==
    ASSUME NEW a, NEW b, NEW c
    PROVE  /\ DOMAIN <<a, b, c>> = {1, 2, 3}
           /\ <<a, b, c>>[1] = a /\ <<a, b, c>>[2] = b /\ <<a, b, c>>[3] = c
OBVIOUS

LEMMA CutApart ==
    ASSUME NEW n \in 1..4, NEW x \in DOMAIN CutFrom(n), NEW y \in DOMAIN CutFrom(n), x < y
    PROVE  TwoTiers(CutFrom(n), x, y)
<1> DEFINE t == CutFrom(n)
<1>1. ASSUME NEW a, t = <<a>> PROVE FALSE
    <2>1. x \in {1} /\ y \in {1} BY <1>1, TwoOfPair
    <2>2. QED BY <2>1
<1>2. ASSUME NEW a, NEW b, t = <<a, b>> PROVE x = 1 /\ y = 2 /\ t[x] = a /\ t[y] = b
    <2>1. x \in {1, 2} /\ y \in {1, 2} BY <1>2, TwoOfPair
    <2>2. x = 1 /\ y = 2 BY <2>1
    <2>3. QED BY <1>2, <2>2, TwoOfPair
<1>3. ASSUME NEW a, NEW b, NEW c, t = <<a, b, c>>
      PROVE  /\ (x = 1 /\ y = 2) \/ (x = 1 /\ y = 3) \/ (x = 2 /\ y = 3)
             /\ t[1] = a /\ t[2] = b /\ t[3] = c
    <2>1. x \in {1, 2, 3} /\ y \in {1, 2, 3} BY <1>3, TwoOfThree
    <2>2. (x = 1 /\ y = 2) \/ (x = 1 /\ y = 3) \/ (x = 2 /\ y = 3) BY <2>1
    <2>3. QED BY <1>3, <2>2, TwoOfThree
<1>4. t # <<>> OBVIOUS
<1>5. \/ t = <<Tier(3, 3)>> \/ t = <<Tier(2, 3)>> \/ t = <<Tier(1, 3)>>
      \/ 3 \in Begins /\ t = <<Tier(2, 2), Tier(3, 3)>>
      \/ 3 \in Begins /\ t = <<Tier(1, 2), Tier(3, 3)>>
      \/ 2 \in Begins /\ t = <<Tier(1, 1), Tier(2, 3)>>
      \/ 2 \in Begins /\ 3 \in Begins /\ t = <<Tier(1, 1), Tier(2, 2), Tier(3, 3)>>
    BY <1>4 DEF CutFrom
<1> HIDE DEF t
<1> SUFFICES TwoTiers(t, x, y) BY DEF t
<1>6. 1 \in 1..3 /\ 2 \in 1..3 /\ 3 \in 1..3 /\ 1 <= 1 /\ 1 <= 2 /\ 2 <= 2 /\ 2 <= 3 /\ 3 <= 3
      /\ 1 < 2 /\ 1 < 3 /\ 2 < 3
    OBVIOUS
<1>7. CASE 3 \in Begins /\ t = <<Tier(2, 2), Tier(3, 3)>>
    BY <1>2, <1>6, <1>7, Zenon DEF TwoTiers
<1>8. CASE 3 \in Begins /\ t = <<Tier(1, 2), Tier(3, 3)>>
    BY <1>2, <1>6, <1>8, Zenon DEF TwoTiers
<1>9. CASE 2 \in Begins /\ t = <<Tier(1, 1), Tier(2, 3)>>
    BY <1>2, <1>6, <1>9, Zenon DEF TwoTiers
<1>10. CASE 2 \in Begins /\ 3 \in Begins /\ t = <<Tier(1, 1), Tier(2, 2), Tier(3, 3)>>
    <2>1. t[1] = Tier(1, 1) /\ t[2] = Tier(2, 2) /\ t[3] = Tier(3, 3) BY <1>3, <1>10, Zenon
    <2>2. TwoTiers(t, 1, 2) BY <1>6, <1>10, <2>1, Zenon DEF TwoTiers
    <2>3. TwoTiers(t, 1, 3) BY <1>6, <1>10, <2>1, Zenon DEF TwoTiers
    <2>4. TwoTiers(t, 2, 3) BY <1>6, <1>10, <2>1, Zenon DEF TwoTiers
    <2>5. QED BY <1>3, <1>10, <2>2, <2>3, <2>4, Zenon
<1>11. QED BY <1>1, <1>5, <1>7, <1>8, <1>9, <1>10, Zenon

\* Seats on two sides of where a tier begins are not close.
LEMMA FarApart ==
    ASSUME scores \in [Seat -> Int], NEW a \in 1..3, NEW b \in 1..3, Apart(Begins, a, b)
    PROVE  ~Close(seat_ord[a], seat_ord[b]) /\ ~Close(seat_ord[b], seat_ord[a])
<1>1. FallsAlong(scores, seat_ord) BY FallingFalls DEF seat_ord
<1>2. PICK p \in Int, q \in Int, r \in Int :
        p = scores[seat_ord[1]] /\ q = scores[seat_ord[2]] /\ r = scores[seat_ord[3]]
    BY <1>1 DEF FallsAlong, IsOrder
<1>3. p >= q /\ q >= r BY <1>1, <1>2 DEF FallsAlong
<1>4. (2 \in Begins => p - q > 2) /\ (3 \in Begins => q - r > 2)
    BY <1>2 DEF Begins, Gap, kScoreCloseGap
<1>5. PICK m \in (a + 1)..b : m \in Begins BY DEF Apart
<1>6. \/ a = 1 /\ b = 2 /\ m = 2
      \/ a = 2 /\ b = 3 /\ m = 3
      \/ a = 1 /\ b = 3 /\ (m = 2 \/ m = 3)
    BY <1>5
<1>7. scores[seat_ord[a]] - scores[seat_ord[b]] > 2
    <2>1. CASE a = 1 /\ b = 2 /\ m = 2 BY <1>2, <1>4, <1>5, <2>1
    <2>2. CASE a = 2 /\ b = 3 /\ m = 3 BY <1>2, <1>4, <1>5, <2>2
    <2>3. CASE a = 1 /\ b = 3 /\ (m = 2 \/ m = 3)
        <3>1. p - r > 2 BY <1>3, <1>4, <1>5, <2>3
        <3>2. QED BY <1>2, <2>3, <3>1
    <2>4. QED BY <1>6, <2>1, <2>2, <2>3
<1>8. PICK u \in Int, v \in Int : u = scores[seat_ord[a]] /\ v = scores[seat_ord[b]]
    BY <1>1 DEF FallsAlong, IsOrder
<1>9. u - v > 2 BY <1>7, <1>8
<1>10. ~(u - v \in -2..2) /\ ~(v - u \in -2..2) BY <1>9
<1>11. QED BY <1>8, <1>10 DEF Close, kScoreCloseGap

\* deal_assign.h: seats whose scores are close are in one tier, and who leads
\* clearly gets no stronger hand.
THEOREM ScoresDecide == Spec => []ScoresDecideHands
<1>1. StageInv => CloseShareTier
    <2> SUFFICES ASSUME StageInv, step = "place",
                        NEW x \in DOMAIN tiers, NEW y \in DOMAIN tiers, x # y,
                        NEW p \in DOMAIN tiers[x], NEW q \in DOMAIN tiers[y]
                 PROVE  ~Close(tiers[x][p], tiers[y][q])
        BY DEF CloseShareTier
    <2>1. PICK n \in 1..4 : ServedTo(n) BY DEF StageInv
    <2>2. tiers = CutFrom(n) BY <2>1 DEF ServedTo
    <2>3. IsOrder(seat_ord) /\ scores \in [Seat -> Int]
        BY OrdersOfPack DEF StageInv, InputsOK, FallsAlong
    <2>4. ASSUME NEW c \in DOMAIN tiers, NEW d \in DOMAIN tiers, TwoTiers(tiers, c, d),
                 NEW e \in DOMAIN tiers[c], NEW f \in DOMAIN tiers[d]
          PROVE  ~Close(tiers[c][e], tiers[d][f]) /\ ~Close(tiers[d][f], tiers[c][e])
        <3>1. PICK i \in 1..3, j \in 1..3, k \in 1..3, l \in 1..3 :
                /\ tiers[c] = Tier(i, j) /\ tiers[d] = Tier(k, l)
                /\ i <= j /\ j < k /\ k <= l /\ k \in Begins
            BY <2>4 DEF TwoTiers
        <3>2. \E a \in i..j : tiers[c][e] = seat_ord[a]
            <4>1. PICK w \in 1..(4 - i) : w = j - i + 1 BY <3>1
            <4>2. i + w - 1 = j BY <4>1
            <4>3. /\ Tier(i, j) \in Seq(Seat) /\ Len(Tier(i, j)) = w
                  /\ \A m \in 1..w : Tier(i, j)[m] = seat_ord[i + m - 1]
                BY <2>3, <4>2, TierFields
            <4>4. e \in 1..w
                <5>1. tiers[c] \in Seq(Seat) /\ Len(tiers[c]) = w BY <3>1, <4>3
                <5>2. QED BY ONLY <5>1, e \in DOMAIN tiers[c]
            <4>5. e \in 1..w /\ tiers[c][e] = seat_ord[i + e - 1] BY <3>1, <4>3, <4>4
            <4>6. i + e - 1 \in i..j BY <4>2, <4>5
            <4>7. QED BY <4>5, <4>6
        <3>3. \E b \in k..l : tiers[d][f] = seat_ord[b]
            <4>1. PICK w \in 1..(4 - k) : w = l - k + 1 BY <3>1
            <4>2. k + w - 1 = l BY <4>1
            <4>3. /\ Tier(k, l) \in Seq(Seat) /\ Len(Tier(k, l)) = w
                  /\ \A m \in 1..w : Tier(k, l)[m] = seat_ord[k + m - 1]
                BY <2>3, <4>2, TierFields
            <4>4. f \in 1..w
                <5>1. tiers[d] \in Seq(Seat) /\ Len(tiers[d]) = w BY <3>1, <4>3
                <5>2. QED BY ONLY <5>1, f \in DOMAIN tiers[d]
            <4>5. f \in 1..w /\ tiers[d][f] = seat_ord[k + f - 1] BY <3>1, <4>3, <4>4
            <4>6. k + f - 1 \in k..l BY <4>2, <4>5
            <4>7. QED BY <4>5, <4>6
        <3>4. PICK a \in i..j, b \in k..l : tiers[c][e] = seat_ord[a] /\ tiers[d][f] = seat_ord[b]
            BY <3>2, <3>3
        <3>5. a \in 1..3 /\ b \in 1..3 /\ k \in (a + 1)..b BY <3>1
        <3>6. Apart(Begins, a, b) BY <3>1, <3>5 DEF Apart
        <3>7. QED BY <2>3, <3>4, <3>5, <3>6, FarApart
    <2>5. x \in Int /\ y \in Int
        <3>1. \A z \in DOMAIN CutFrom(n) : z \in Int BY DEF CutFrom
        <3>2. QED BY <2>2, <3>1
    <2>6. CASE x < y
        <3>1. TwoTiers(tiers, x, y) BY <2>2, <2>6, CutApart
        <3>2. QED BY <2>4, <3>1
    <2>7. CASE y < x
        <3>1. TwoTiers(tiers, y, x) BY <2>2, <2>7, CutApart
        <3>2. QED BY <2>4, <3>1
    <2>8. QED BY <2>5, <2>6, <2>7
<1>2. StageInv => ScoresDecideHands BY <1>1 DEF StageInv, ScoresDecideHands
<1>3. QED BY <1>2, StageHolds, PTL

-----------------------------------------------------------------------------
(* No order of a tier is favoured *)

\* Draws that split into an order and something independent of it are even.
Splits(D, O, F, s, q) ==
    /\ IsFiniteSet(O) /\ IsFiniteSet(F)
    /\ s \in [D -> O] /\ q \in [D -> F]
    /\ \A w, x \in D : s[w] = s[x] /\ q[w] = q[x] => w = x
    /\ \A v \in O, f \in F : \E w \in D : s[w] = v /\ q[w] = f

LEMMA EvenFibres ==
    ASSUME NEW D, NEW O, NEW F, NEW s, NEW q, Splits(D, O, F, s, q), NEW v \in O
    PROVE  Cardinality({w \in D : s[w] = v}) * Cardinality(O) = Cardinality(D)
<1> DEFINE W == {w \in D : s[w] = v}
           both == [w \in D |-> <<s[w], q[w]>>]
           part == [w \in W |-> q[w]]
<1> USE DEF Splits
<1>1. IsFiniteSet(O \X F) /\ Cardinality(O \X F) = Cardinality(O) * Cardinality(F)
    BY FS_Product
<1>2. both \in Bijection(D, O \X F)
    <2>1. both \in [D -> O \X F] OBVIOUS
    <2>2. \A w, x \in D : both[w] = both[x] => w = x OBVIOUS
    <2>3. \A y \in O \X F : \E w \in D : both[w] = y
        <3>1. TAKE y \in O \X F
        <3>2. PICK a \in O, f \in F : y = <<a, f>> OBVIOUS
        <3>3. PICK w \in D : s[w] = a /\ q[w] = f BY Zenon
        <3>4. QED BY <3>2, <3>3
    <2> HIDE DEF both
    <2>4. QED BY <2>1, <2>2, <2>3, Fun_IsBij
<1>3. Cardinality(D) = Cardinality(O) * Cardinality(F)
    <2>1. ExistsBijection(O \X F, D)
        BY <1>2, Fun_ExistsBijSymmetric, Zenon DEF ExistsBijection
    <2>2. QED BY <1>1, <2>1, FS_Bijection
<1>4. part \in Bijection(W, F)
    <2>1. part \in [W -> F] OBVIOUS
    <2>2. \A w, x \in W : part[w] = part[x] => w = x OBVIOUS
    <2>3. \A f \in F : \E w \in W : part[w] = f
        <3>1. TAKE f \in F
        <3>2. PICK w \in D : s[w] = v /\ q[w] = f BY Zenon
        <3>3. w \in W BY <3>2
        <3>4. QED BY <3>2, <3>3
    <2> HIDE DEF part, W
    <2>4. QED BY <2>1, <2>2, <2>3, Fun_IsBij
<1>5. Cardinality(W) = Cardinality(F)
    <2>1. ExistsBijection(F, W)
        BY <1>4, Fun_ExistsBijSymmetric, Zenon DEF ExistsBijection
    <2>2. QED BY <2>1, FS_Bijection
<1>6. Cardinality(O) \in Nat /\ Cardinality(F) \in Nat BY FS_CardinalityType
<1>7. QED BY <1>3, <1>5, <1>6

\* A word is a quotient and a remainder, and all pairs of them are accepted.
Quotients(i) == 0..((WordMax \div (i + 1)) - 1)

LEMMA Words ==
    ASSUME NEW i \in {1, 2}
    PROVE  /\ \A x \in Accepted(0, i) :
                /\ x \in Word /\ x \div (i + 1) \in Quotients(i) /\ x % (i + 1) \in 0..i
                /\ x = (i + 1) * (x \div (i + 1)) + (x % (i + 1))
           /\ \A a \in Quotients(i), r \in 0..i :
                LET x == (i + 1) * a + r IN
                x \in Accepted(0, i) /\ x \div (i + 1) = a /\ x % (i + 1) = r
<1> USE WordMaxAssumption DEF Accepted, Quotients, Word
<1>1. CASE i = 1
    <2>1. PICK m \in Nat : m = WordMax \div 2 /\ m * 2 <= WordMax OBVIOUS
    <2>2. ASSUME NEW x \in Accepted(0, i)
          PROVE  /\ x \in Word /\ x \div (i + 1) \in Quotients(i) /\ x % (i + 1) \in 0..i
                 /\ x = (i + 1) * (x \div (i + 1)) + (x % (i + 1))
        BY <1>1, <2>1
    <2>3. ASSUME NEW a \in Quotients(i), NEW r \in 0..i, NEW x, x = (i + 1) * a + r
          PROVE  x \in Accepted(0, i) /\ x \div (i + 1) = a /\ x % (i + 1) = r
        BY <1>1, <2>1, <2>3
    <2>4. QED BY <2>2, <2>3
<1>2. CASE i = 2
    <2>1. PICK m \in Nat : m = WordMax \div 3 /\ m * 3 <= WordMax OBVIOUS
    <2>2. ASSUME NEW x \in Accepted(0, i)
          PROVE  /\ x \in Word /\ x \div (i + 1) \in Quotients(i) /\ x % (i + 1) \in 0..i
                 /\ x = (i + 1) * (x \div (i + 1)) + (x % (i + 1))
        BY <1>2, <2>1
    <2>3. ASSUME NEW a \in Quotients(i), NEW r \in 0..i, NEW x, x = (i + 1) * a + r
          PROVE  x \in Accepted(0, i) /\ x \div (i + 1) = a /\ x % (i + 1) = r
        BY <1>2, <2>1, <2>3
    <2>4. QED BY <2>2, <2>3
<1>3. QED BY <1>1, <1>2

\* A tier of w different seats, and its orders.
IsTier(t, w) ==
    /\ t \in Seq(Seat) /\ Len(t) = w
    /\ \A i, j \in 1..w : t[i] = t[j] => i = j

OrdersOf(t, w) == {v \in [1..w -> Seat] : {v[i] : i \in 1..w} = {t[i] : i \in 1..w}}

\* Two and three seats after the swaps for remainders a and b.
Pair(t, a) == Swapped(t, 2, a + 1)
Trio(t, a, b) == Swapped(Swapped(t, 3, b + 1), 2, a + 1)

LEMMA ShuffledOne ==
    ASSUME NEW t, IsTier(t, 1), NEW w
    PROVE  shuffle_idx(t, w) = t
<1>1. t \in Seq(Seat) /\ Len(t) \in 1..3 /\ Len(t) = 1 BY DEF IsTier
<1>2. QED BY <1>1, Unrolled DEF Swaps

LEMMA ShuffledTwo ==
    ASSUME NEW t, IsTier(t, 2), NEW w, w[1] \in Int
    PROVE  shuffle_idx(t, w) = Pair(t, w[1] % 2)
<1>1. t \in Seq(Seat) /\ Len(t) \in 1..3 /\ Len(t) = 2 BY DEF IsTier
<1>2. PICK g : Swaps(g, t, 2, w)
    <2>1. \E g : Swaps(g, t, Len(t), w) BY <1>1, Unrolled
    <2>2. QED BY <1>1, <2>1, Zenon
<1>3. 1 \in 1..(2 - 1) /\ 1 + 1 = 2 OBVIOUS
<1>4. g[1] = Swapped(g[2], 2, random_int(0, 1, w[1]) + 1) BY <1>2, <1>3 DEF Swaps
<1>5. random_int(0, 1, w[1]) = w[1] % 2 BY DEF random_int
<1>6. QED BY <1>2, <1>4, <1>5 DEF Pair, Swaps

LEMMA ShuffledThree ==
    ASSUME NEW t, IsTier(t, 3), NEW w, w[1] \in Int, w[2] \in Int
    PROVE  shuffle_idx(t, w) = Trio(t, w[1] % 2, w[2] % 3)
<1>1. t \in Seq(Seat) /\ Len(t) \in 1..3 /\ Len(t) = 3 BY DEF IsTier
<1>2. PICK g : Swaps(g, t, 3, w)
    <2>1. \E g : Swaps(g, t, Len(t), w) BY <1>1, Unrolled
    <2>2. QED BY <1>1, <2>1, Zenon
<1>3. 1 \in 1..(3 - 1) /\ 2 \in 1..(3 - 1) /\ 1 + 1 = 2 /\ 2 + 1 = 3 OBVIOUS
<1>4. /\ g[1] = Swapped(g[2], 2, random_int(0, 1, w[1]) + 1)
      /\ g[2] = Swapped(g[3], 3, random_int(0, 2, w[2]) + 1)
    BY <1>2, <1>3 DEF Swaps
<1>5. random_int(0, 1, w[1]) = w[1] % 2 /\ random_int(0, 2, w[2]) = w[2] % 3
    BY DEF random_int
<1>6. QED BY <1>2, <1>4, <1>5 DEF Trio, Swaps

\* The remainders choose the order, each order once.
LEMMA PairOrders ==
    ASSUME NEW t, IsTier(t, 2)
    PROVE  /\ \A a \in 0..1 : Pair(t, a) \in OrdersOf(t, 2)
           /\ \A a, c \in 0..1 : Pair(t, a) = Pair(t, c) => a = c
           /\ \A v \in OrdersOf(t, 2) : \E a \in 0..1 : Pair(t, a) = v
<1>1. /\ t \in [1..2 -> Seat] /\ t[1] # t[2] /\ DOMAIN t = 1..2
    BY DEF IsTier
<1>2. \A a \in 0..1 : a = 0 \/ a = 1 OBVIOUS
<1>3. \A a \in 0..1 : Pair(t, a) \in [1..2 -> Seat] BY <1>1, <1>2 DEF Pair, Swapped
<1>4. /\ Pair(t, 0)[1] = t[2] /\ Pair(t, 0)[2] = t[1]
      /\ Pair(t, 1)[1] = t[1] /\ Pair(t, 1)[2] = t[2]
    BY <1>1 DEF Pair, Swapped
<1>5. \A v \in [1..2 -> Seat] :
        v \in OrdersOf(t, 2) <=> \/ v[1] = t[1] /\ v[2] = t[2]
                                 \/ v[1] = t[2] /\ v[2] = t[1]
    <2>1. \A v : {v[i] : i \in 1..2} = {v[1], v[2]} OBVIOUS
    <2>2. QED BY <1>1, <2>1 DEF OrdersOf
<1>6. \A u, v \in [1..2 -> Seat] : u[1] = v[1] /\ u[2] = v[2] => u = v OBVIOUS
<1>7. \A a \in 0..1 : Pair(t, a) \in OrdersOf(t, 2) BY <1>2, <1>3, <1>4, <1>5
<1>8. \A a, c \in 0..1 : Pair(t, a) = Pair(t, c) => a = c BY <1>1, <1>2, <1>4
<1>9. ASSUME NEW v \in OrdersOf(t, 2) PROVE \E a \in 0..1 : Pair(t, a) = v
    <2>1. v \in [1..2 -> Seat] BY DEF OrdersOf
    <2>2. 0 \in 0..1 /\ 1 \in 0..1 OBVIOUS
    <2>3. QED BY <1>3, <1>4, <1>5, <1>6, <2>1, <2>2
<1>10. QED BY <1>7, <1>8, <1>9

LEMMA TrioOrders ==
    ASSUME NEW t, IsTier(t, 3)
    PROVE  /\ \A a \in 0..1, b \in 0..2 : Trio(t, a, b) \in OrdersOf(t, 3)
           /\ \A a, c \in 0..1, b, d \in 0..2 : Trio(t, a, b) = Trio(t, c, d) => a = c /\ b = d
           /\ \A v \in OrdersOf(t, 3) : \E a \in 0..1, b \in 0..2 : Trio(t, a, b) = v
<1> DEFINE Is(v, x, y, z) == v[1] = x /\ v[2] = y /\ v[3] = z
<1>1. /\ t \in [1..3 -> Seat] /\ DOMAIN t = 1..3
      /\ t[1] # t[2] /\ t[2] # t[3] /\ t[1] # t[3]
    BY DEF IsTier
<1>2. (\A a \in 0..1 : a = 0 \/ a = 1) /\ (\A b \in 0..2 : b = 0 \/ b = 1 \/ b = 2) OBVIOUS
<1>3. \A a \in 0..1, b \in 0..2 : Trio(t, a, b) \in [1..3 -> Seat]
    <2>1. ASSUME NEW u \in [1..3 -> Seat], NEW i \in 1..3, NEW j \in 1..3
          PROVE  Swapped(u, i, j) \in [1..3 -> Seat]
        BY DEF Swapped
    <2>2. ASSUME NEW a \in 0..1, NEW b \in 0..2 PROVE Trio(t, a, b) \in [1..3 -> Seat]
        <3>1. a + 1 \in 1..3 /\ b + 1 \in 1..3 /\ 2 \in 1..3 /\ 3 \in 1..3 OBVIOUS
        <3>2. QED BY <1>1, <2>1, <3>1 DEF Trio
    <2>3. QED BY <2>2
<1>4. /\ Is(Trio(t, 0, 0), t[2], t[3], t[1]) /\ Is(Trio(t, 1, 0), t[3], t[2], t[1])
      /\ Is(Trio(t, 0, 1), t[3], t[1], t[2]) /\ Is(Trio(t, 1, 1), t[1], t[3], t[2])
      /\ Is(Trio(t, 0, 2), t[2], t[1], t[3]) /\ Is(Trio(t, 1, 2), t[1], t[2], t[3])
    <2>1. ASSUME NEW u, DOMAIN u = 1..3
          PROVE  /\ Is(Swapped(u, 3, 1), u[3], u[2], u[1]) /\ Is(Swapped(u, 3, 2), u[1], u[3], u[2])
                 /\ Is(Swapped(u, 3, 3), u[1], u[2], u[3]) /\ Is(Swapped(u, 2, 1), u[2], u[1], u[3])
                 /\ Is(Swapped(u, 2, 2), u[1], u[2], u[3])
                 /\ \A i, j : DOMAIN Swapped(u, i, j) = 1..3
        BY <2>1 DEF Swapped
    <2> HIDE DEF Is
    <2>2. 0 + 1 = 1 /\ 1 + 1 = 2 /\ 2 + 1 = 3 OBVIOUS
    <2>3. QED BY <1>1, <2>1, <2>2 DEF Trio, Is
<1>5. \A v \in [1..3 -> Seat] :
        v \in OrdersOf(t, 3) <=> \/ Is(v, t[1], t[2], t[3]) \/ Is(v, t[1], t[3], t[2])
                                 \/ Is(v, t[2], t[1], t[3]) \/ Is(v, t[2], t[3], t[1])
                                 \/ Is(v, t[3], t[1], t[2]) \/ Is(v, t[3], t[2], t[1])
    <2>1. \A v : {v[i] : i \in 1..3} = {v[1], v[2], v[3]}
        <3>1. 1..3 = {1, 2, 3} OBVIOUS
        <3>2. QED BY <3>1
    <2>2. QED BY <1>1, <2>1 DEF OrdersOf
<1>6. \A u, v \in [1..3 -> Seat] : u[1] = v[1] /\ u[2] = v[2] /\ u[3] = v[3] => u = v OBVIOUS
<1>7. \A a \in 0..1, b \in 0..2 : Trio(t, a, b) \in OrdersOf(t, 3)
    BY <1>2, <1>3, <1>4, <1>5
<1>8. \A a, c \in 0..1, b, d \in 0..2 : Trio(t, a, b) = Trio(t, c, d) => a = c /\ b = d
    BY <1>1, <1>2, <1>4
<1>9. ASSUME NEW v \in OrdersOf(t, 3) PROVE \E a \in 0..1, b \in 0..2 : Trio(t, a, b) = v
    <2>1. v \in [1..3 -> Seat] BY DEF OrdersOf
    <2>2. 0 \in 0..1 /\ 1 \in 0..1 /\ 0 \in 0..2 /\ 1 \in 0..2 /\ 2 \in 0..2 OBVIOUS
    <2>3. QED BY <1>3, <1>4, <1>5, <1>6, <2>1, <2>2
<1>10. QED BY <1>7, <1>8, <1>9

\* A shuffle of a tier favours none of its orders.
Even(t, w) ==
    \A v \in OrdersOf(t, w) :
        Cardinality({d \in Draws(w) : shuffle_idx(t, d) = v}) * Cardinality(OrdersOf(t, w))
            = Cardinality(Draws(w))

LEMMA ImageFinite ==
    ASSUME NEW R, IsFiniteSet(R), NEW O, NEW f \in [R -> O],
           \A v \in O : \E r \in R : f[r] = v
    PROVE  IsFiniteSet(O)
<1>1. f \in Surjection(R, O) BY Fun_IsSurj
<1>2. QED BY <1>1, FS_Surjection

LEMMA SmallIntervals == IsFiniteSet(0..1) /\ IsFiniteSet(0..2) /\ IsFiniteSet({0})
<1>1. \A a, b \in Int : IsFiniteSet(a..b) BY FS_Interval
<1>2. 0 \in Int /\ 1 \in Int /\ 2 \in Int OBVIOUS
<1>3. IsFiniteSet(0..1) /\ IsFiniteSet(0..2) BY <1>1, <1>2, Zenon
<1>4. QED BY <1>3, FS_Singleton

\* The draws split into the order they give and the quotients of their words.
LEMMA EvenBy ==
    ASSUME NEW t, NEW w \in 1..3, NEW F, NEW q,
           IsFiniteSet(OrdersOf(t, w)), IsFiniteSet(F),
           \A d \in Draws(w) : shuffle_idx(t, d) \in OrdersOf(t, w) /\ q[d] \in F,
           \A d, e \in Draws(w) :
               shuffle_idx(t, d) = shuffle_idx(t, e) /\ q[d] = q[e] => d = e,
           \A v \in OrdersOf(t, w), f \in F :
               \E d \in Draws(w) : shuffle_idx(t, d) = v /\ q[d] = f
    PROVE  Even(t, w)
<1> DEFINE D == Draws(w)
           O == OrdersOf(t, w)
           s == [d \in D |-> shuffle_idx(t, d)]
           p == [d \in D |-> q[d]]
<1>1. IsFiniteSet(O) OBVIOUS
<1>2. Splits(D, O, F, s, p)
    <2>1. s \in [D -> O] /\ p \in [D -> F] OBVIOUS
    <2>2. \A d \in D : s[d] = shuffle_idx(t, d) /\ p[d] = q[d] OBVIOUS
    <2> HIDE DEF s, p
    <2>3. ASSUME NEW d \in D, NEW e \in D, s[d] = s[e], p[d] = p[e] PROVE d = e
        <3>1. shuffle_idx(t, d) = shuffle_idx(t, e) /\ q[d] = q[e] BY <2>2, <2>3
        <3>2. QED BY <3>1, Zenon
    <2>4. ASSUME NEW v \in O, NEW f \in F PROVE \E d \in D : s[d] = v /\ p[d] = f
        <3>1. PICK d \in D : shuffle_idx(t, d) = v /\ q[d] = f BY Zenon
        <3>2. QED BY <2>2, <3>1
    <2>5. QED BY <1>1, <2>1, <2>3, <2>4, Zenon DEF Splits
<1>3. ASSUME NEW v \in O
      PROVE  Cardinality({d \in D : shuffle_idx(t, d) = v}) * Cardinality(O) = Cardinality(D)
    <2>1. {d \in D : shuffle_idx(t, d) = v} = {d \in D : s[d] = v} OBVIOUS
    <2> HIDE DEF D, O, s, p
    <2>2. Cardinality({d \in D : s[d] = v}) * Cardinality(O) = Cardinality(D)
        BY <1>2, EvenFibres
    <2>3. QED BY <2>1, <2>2
<1>4. QED BY <1>3 DEF Even

LEMMA WordsOf ==
    ASSUME NEW w \in 1..3, NEW d \in Draws(w)
    PROVE  /\ \A i \in 1..(w - 1) : d[i] \in Accepted(0, i)
           /\ DOMAIN d = 1..(w - 1)
BY DEF Draws

LEMMA EvenOne ==
    ASSUME NEW t, IsTier(t, 1)
    PROVE  Even(t, 1)
<1> DEFINE q == [d \in Draws(1) |-> 0]
<1>1. \A d : shuffle_idx(t, d) = t BY ShuffledOne
<1>2. t \in OrdersOf(t, 1) /\ \A v \in OrdersOf(t, 1) : v = t
    <2>1. t \in [1..1 -> Seat] BY DEF IsTier
    <2>2. \A v : {v[i] : i \in 1..1} = {v[1]} OBVIOUS
    <2>3. \A v \in [1..1 -> Seat] : v[1] = t[1] => v = t BY <2>1
    <2>4. QED BY <2>1, <2>2, <2>3 DEF OrdersOf
<1>3. OrdersOf(t, 1) = {t} BY <1>2
<1>4. IsFiniteSet(OrdersOf(t, 1)) /\ IsFiniteSet({0}) BY <1>3, FS_Singleton
<1>5. 1..(1 - 1) = {} OBVIOUS
<1>6. \A d, e \in Draws(1) : d = e
    <2>1. \A d \in Draws(1) : d \in [1..(1 - 1) -> Word] BY DEF Draws
    <2>2. QED BY <1>5, <2>1
<1>7. \E d : d \in Draws(1)
    <2>1. [i \in 1..(1 - 1) |-> 0] \in Draws(1) BY <1>5 DEF Draws
    <2>2. QED BY <2>1
<1>8. \A d \in Draws(1) : q[d] \in {0} OBVIOUS
<1>9. \A v \in OrdersOf(t, 1), f \in {0} :
        \E d \in Draws(1) : shuffle_idx(t, d) = v /\ q[d] = f
    <2>1. PICK d : d \in Draws(1) BY <1>7
    <2>2. shuffle_idx(t, d) = t /\ q[d] = 0 BY <1>1, <2>1
    <2>3. QED BY <1>2, <2>1, <2>2
<1> HIDE DEF q
<1>10. 1 \in 1..3 OBVIOUS
<1>11. QED BY <1>1, <1>2, <1>4, <1>6, <1>8, <1>9, <1>10, EvenBy

LEMMA EvenTwo ==
    ASSUME NEW t, IsTier(t, 2)
    PROVE  Even(t, 2)
<1> DEFINE q == [d \in Draws(2) |-> d[1] \div 2]
           F == Quotients(1)
<1>1. 2 \in 1..3 /\ 1..(2 - 1) = {1} /\ 1 \in {1, 2} /\ 1 + 1 = 2 OBVIOUS
<1>2. ASSUME NEW d \in Draws(2)
      PROVE  /\ d[1] \in Int /\ d[1] \div 2 \in F /\ d[1] % 2 \in 0..1
             /\ d[1] = 2 * (d[1] \div 2) + (d[1] % 2)
             /\ shuffle_idx(t, d) = Pair(t, d[1] % 2)
    <2>1. d[1] \in Accepted(0, 1) BY <1>1, WordsOf
    <2>2. /\ d[1] \in Word /\ d[1] \div 2 \in F /\ d[1] % 2 \in 0..1
          /\ d[1] = 2 * (d[1] \div 2) + (d[1] % 2)
        BY <1>1, <2>1, Words
    <2>3. d[1] \in Int BY <2>2, WordMaxAssumption DEF Word
    <2>4. QED BY <2>2, <2>3, ShuffledTwo
<1>3. \A d \in Draws(2) : q[d] = d[1] \div 2 OBVIOUS
<1> HIDE DEF q
<1>4. ASSUME NEW d \in Draws(2), NEW e \in Draws(2),
             shuffle_idx(t, d) = shuffle_idx(t, e), q[d] = q[e]
      PROVE  d = e
    <2>1. d[1] % 2 = e[1] % 2 BY <1>2, <1>4, PairOrders
    <2>2. d[1] \div 2 = e[1] \div 2 BY <1>3, <1>4
    <2>3. d[1] = e[1] BY <1>2, <2>1, <2>2
    <2>4. d \in [{1} -> Word] /\ e \in [{1} -> Word] BY <1>1 DEF Draws
    <2>5. QED BY <2>3, <2>4
<1>5. ASSUME NEW v \in OrdersOf(t, 2), NEW f \in F
      PROVE  \E d \in Draws(2) : shuffle_idx(t, d) = v /\ q[d] = f
    <2>1. PICK a \in 0..1 : Pair(t, a) = v BY PairOrders
    <2>2. PICK x : x = 2 * f + a OBVIOUS
    <2>3. x \in Accepted(0, 1) /\ x \div 2 = f /\ x % 2 = a BY <1>1, <2>2, Words
    <2>4. PICK d : d = [i \in 1..(2 - 1) |-> x] OBVIOUS
    <2>5. d \in Draws(2) /\ d[1] = x
        <3>1. x \in Word BY <2>3 DEF Accepted
        <3>2. QED BY <1>1, <2>3, <2>4, <3>1 DEF Draws
    <2>6. QED BY <1>2, <1>3, <2>1, <2>3, <2>5
<1>6. IsFiniteSet(F)
    <2>1. \A a, b \in Int : IsFiniteSet(a..b) BY FS_Interval
    <2>2. 0 \in Int /\ (WordMax \div (1 + 1)) - 1 \in Int BY WordMaxAssumption
    <2>3. QED BY <2>1, <2>2, Zenon DEF Quotients
<1>7. IsFiniteSet(OrdersOf(t, 2))
    <2> DEFINE p == [a \in 0..1 |-> Pair(t, a)]
    <2>1. p \in [0..1 -> OrdersOf(t, 2)] BY PairOrders
    <2>2. \A v \in OrdersOf(t, 2) : \E a \in 0..1 : p[a] = v BY PairOrders
    <2> HIDE DEF p
    <2>3. QED BY <2>1, <2>2, SmallIntervals, ImageFinite
<1>8. \A d \in Draws(2) : shuffle_idx(t, d) \in OrdersOf(t, 2) /\ q[d] \in F
    BY <1>2, <1>3, PairOrders
<1> HIDE DEF F
<1>9. QED BY <1>1, <1>4, <1>5, <1>6, <1>7, <1>8, EvenBy

LEMMA EvenThree ==
    ASSUME NEW t, IsTier(t, 3)
    PROVE  Even(t, 3)
<1> DEFINE q == [d \in Draws(3) |-> <<d[1] \div 2, d[2] \div 3>>]
           F == Quotients(1) \X Quotients(2)
<1>1. /\ 3 \in 1..3 /\ 1..(3 - 1) = {1, 2} /\ 1 \in {1, 2} /\ 2 \in {1, 2}
      /\ 1 + 1 = 2 /\ 2 + 1 = 3
    OBVIOUS
<1>2. ASSUME NEW d \in Draws(3)
      PROVE  /\ d[1] \in Int /\ d[1] \div 2 \in Quotients(1) /\ d[1] % 2 \in 0..1
             /\ d[1] = 2 * (d[1] \div 2) + (d[1] % 2)
             /\ d[2] \in Int /\ d[2] \div 3 \in Quotients(2) /\ d[2] % 3 \in 0..2
             /\ d[2] = 3 * (d[2] \div 3) + (d[2] % 3)
             /\ shuffle_idx(t, d) = Trio(t, d[1] % 2, d[2] % 3)
    <2>1. d[1] \in Accepted(0, 1) /\ d[2] \in Accepted(0, 2) BY <1>1, WordsOf
    <2>2. /\ d[1] \in Word /\ d[1] \div 2 \in Quotients(1) /\ d[1] % 2 \in 0..1
          /\ d[1] = 2 * (d[1] \div 2) + (d[1] % 2)
        BY <1>1, <2>1, Words
    <2>3. /\ d[2] \in Word /\ d[2] \div 3 \in Quotients(2) /\ d[2] % 3 \in 0..2
          /\ d[2] = 3 * (d[2] \div 3) + (d[2] % 3)
        BY <1>1, <2>1, Words
    <2>4. d[1] \in Int /\ d[2] \in Int
        <3>1. \A x \in Word : x \in Int BY WordMaxAssumption DEF Word
        <3>2. QED BY <2>2, <2>3, <3>1, Zenon
    <2>5. QED BY <2>2, <2>3, <2>4, ShuffledThree
<1>3. \A d \in Draws(3) : q[d] = <<d[1] \div 2, d[2] \div 3>> OBVIOUS
<1> HIDE DEF q
<1>4. ASSUME NEW d \in Draws(3), NEW e \in Draws(3),
             shuffle_idx(t, d) = shuffle_idx(t, e), q[d] = q[e]
      PROVE  d = e
    <2>1. d[1] % 2 = e[1] % 2 /\ d[2] % 3 = e[2] % 3
        <3>1. /\ d[1] % 2 \in 0..1 /\ d[2] % 3 \in 0..2
              /\ e[1] % 2 \in 0..1 /\ e[2] % 3 \in 0..2
              /\ shuffle_idx(t, d) = Trio(t, d[1] % 2, d[2] % 3)
              /\ shuffle_idx(t, e) = Trio(t, e[1] % 2, e[2] % 3)
            BY <1>2
        <3>2. Trio(t, d[1] % 2, d[2] % 3) = Trio(t, e[1] % 2, e[2] % 3) BY <1>4, <3>1, Zenon
        <3>3. PICK a \in 0..1, b \in 0..2 : a = d[1] % 2 /\ b = d[2] % 3 BY <3>1
        <3>4. PICK c \in 0..1, g \in 0..2 : c = e[1] % 2 /\ g = e[2] % 3 BY <3>1
        <3>5. Trio(t, a, b) = Trio(t, c, g) BY ONLY <3>2, <3>3, <3>4
        <3>6. \A k, l \in 0..1, m, n \in 0..2 : Trio(t, k, m) = Trio(t, l, n) => k = l /\ m = n
            BY TrioOrders, Zenon
        <3>7. a = c /\ b = g BY ONLY <3>5, <3>6, a \in 0..1, c \in 0..1, b \in 0..2, g \in 0..2
        <3>8. QED BY <3>3, <3>4, <3>7
    <2>2. d[1] \div 2 = e[1] \div 2 /\ d[2] \div 3 = e[2] \div 3 BY <1>3, <1>4
    <2>3. d[1] = e[1] /\ d[2] = e[2] BY <1>2, <2>1, <2>2
    <2>4. d \in [{1, 2} -> Word] /\ e \in [{1, 2} -> Word] BY <1>1 DEF Draws
    <2>5. QED BY <2>3, <2>4
<1>5. ASSUME NEW v \in OrdersOf(t, 3), NEW f \in F
      PROVE  \E d \in Draws(3) : shuffle_idx(t, d) = v /\ q[d] = f
    <2>1. PICK a \in 0..1, b \in 0..2 : Trio(t, a, b) = v BY TrioOrders
    <2>2. PICK f1 \in Quotients(1), f2 \in Quotients(2) : f = <<f1, f2>> OBVIOUS
    <2>3. PICK x, y : x = 2 * f1 + a /\ y = 3 * f2 + b OBVIOUS
    <2>4. /\ x \in Accepted(0, 1) /\ x \div 2 = f1 /\ x % 2 = a
          /\ y \in Accepted(0, 2) /\ y \div 3 = f2 /\ y % 3 = b
        BY <1>1, <2>3, Words
    <2>5. PICK d : d = [i \in 1..(3 - 1) |-> IF i = 1 THEN x ELSE y] OBVIOUS
    <2>6. d \in Draws(3) /\ d[1] = x /\ d[2] = y
        <3>1. x \in Word /\ y \in Word BY <2>4 DEF Accepted
        <3>2. QED BY <1>1, <2>4, <2>5, <3>1 DEF Draws
    <2>7. QED BY <1>2, <1>3, <2>1, <2>2, <2>4, <2>6
<1>6. IsFiniteSet(F)
    <2>1. \A a, b \in Int : IsFiniteSet(a..b) BY FS_Interval
    <2>2. /\ 0 \in Int /\ (WordMax \div (1 + 1)) - 1 \in Int
          /\ (WordMax \div (2 + 1)) - 1 \in Int
        BY WordMaxAssumption
    <2>3. IsFiniteSet(Quotients(1)) /\ IsFiniteSet(Quotients(2))
        BY <2>1, <2>2, Zenon DEF Quotients
    <2>4. QED BY <2>3, FS_Product
<1>7. IsFiniteSet(OrdersOf(t, 3))
    <2> DEFINE R == (0..1) \X (0..2)
               p == [r \in R |-> Trio(t, r[1], r[2])]
    <2>1. p \in [R -> OrdersOf(t, 3)] BY TrioOrders
    <2>2. \A v \in OrdersOf(t, 3) : \E r \in R : p[r] = v
        <3>1. TAKE v \in OrdersOf(t, 3)
        <3>2. PICK a \in 0..1, b \in 0..2 : Trio(t, a, b) = v BY TrioOrders
        <3>3. <<a, b>> \in R /\ p[<<a, b>>] = v BY <3>2
        <3>4. QED BY <3>3
    <2>3. IsFiniteSet(R) BY SmallIntervals, FS_Product
    <2> HIDE DEF p, R
    <2>4. QED BY <2>1, <2>2, <2>3, ImageFinite
<1>8. ASSUME NEW d \in Draws(3) PROVE shuffle_idx(t, d) \in OrdersOf(t, 3) /\ q[d] \in F
    <2>1. Trio(t, d[1] % 2, d[2] % 3) \in OrdersOf(t, 3) BY <1>2, TrioOrders, Zenon
    <2>2. <<d[1] \div 2, d[2] \div 3>> \in F BY <1>2
    <2>3. QED BY <1>2, <1>3, <2>1, <2>2, Zenon
<1> HIDE DEF F
<1>9. QED BY <1>1, <1>4, <1>5, <1>6, <1>7, <1>8, EvenBy

\* Every order of a tier comes from equally many draws, for any tier that can
\* come up and any number of words: who shares a tier is not favoured by
\* shuffle_idx nor by random_int (DealAssign::apply).
THEOREM ShufflesAreEven == Spec => []ShuffleIsEven
<1>1. StageInv => ShuffleIsEven
    <2> SUFFICES ASSUME StageInv, step = "place", tiers # <<>>
                 PROVE  Even(Head(tiers), Len(Head(tiers)))
        BY DEF ShuffleIsEven, Even, OrdersOf
    <2>1. PackChosen BY DEF StageInv
    <2>2. IsOrder(seat_ord) BY <2>1, OrdersOfPack DEF FallsAlong
    <2>3. PICK n \in 1..4 : tiers = CutFrom(n) BY DEF StageInv, ServedTo
    <2>4. n \in 1..3
        <3>1. CutFrom(4) = <<>> BY DEF CutFrom
        <3>2. n # 4 BY <2>3, <3>1, Zenon
        <3>3. QED BY <3>2
    <2>5. PICK w \in 1..(4 - n) : Head(CutFrom(n)) = Tier(n, n + w - 1)
        BY <2>2, <2>4, NextTier
    <2>6. PICK t : t = Tier(n, n + w - 1) OBVIOUS
    <2>7. t \in Seq(Seat) /\ Len(t) = w /\ \A j \in 1..w : t[j] = seat_ord[n + j - 1]
        BY <2>2, <2>4, <2>6, TierFields
    <2>8. \A i, j \in 1..3 : seat_ord[i] = seat_ord[j] => i = j BY <2>2 DEF IsOrder
    <2>9. IsTier(t, w)
        <3>1. ASSUME NEW i \in 1..w, NEW j \in 1..w, t[i] = t[j] PROVE i = j
            <4>1. n + i - 1 \in 1..3 /\ n + j - 1 \in 1..3
                BY ONLY <2>4, w \in 1..(4 - n), i \in 1..w, j \in 1..w
            <4>2. n + i - 1 = n + j - 1 BY <2>7, <2>8, <3>1, <4>1
            <4>3. QED BY ONLY <4>2, <2>4, i \in 1..w, j \in 1..w, w \in 1..(4 - n)
        <3>2. QED BY <2>7, <3>1 DEF IsTier
    <2>10. w = 1 \/ w = 2 \/ w = 3 BY ONLY <2>4, w \in 1..(4 - n)
    <2>11. Even(t, w) BY <2>9, <2>10, EvenOne, EvenTwo, EvenThree
    <2>12. QED BY <2>3, <2>5, <2>6, <2>7, <2>11, Zenon
<1>2. QED BY <1>1, StageHolds, PTL

=============================================================================
