----------------------------- MODULE SwipeProofs -----------------------------
(***************************************************************************)
(* Proofs about the cards: what a swipe leaves, and that the matchers find *)
(* in any cards the plays of the rules, and never two.                     *)
(***************************************************************************)
EXTENDS Swipe, FiniteSetTheorems, WellFoundedInduction, TLAPS

-----------------------------------------------------------------------------
(* Sums over the ranks.  The library folds in an order it chooses; here the *)
(* same sum is written out.                                                 *)

LessThan == {p \in Nat \X Nat : p[1] < p[2]}

LEMMA LeastNumber ==
    ASSUME NEW S \in SUBSET Nat, S # {}
    PROVE  \E m \in S : \A k \in S : m <= k
<1>1. IsWellFoundedOn(LessThan, Nat)
    BY NatLessThanWellFounded DEF LessThan, OpToRel
<1>2. PICK m \in S : \A y \in S : ~(<<y, m>> \in LessThan) BY <1>1, WFMin
<1>3. ASSUME NEW k \in S PROVE m <= k
    <2>1. SUFFICES ASSUME k < m PROVE FALSE OBVIOUS
    <2>2. <<k, m>> \in LessThan BY <2>1 DEF LessThan
    <2>3. QED BY <1>2, <2>2, Zenon
<1> QED BY <1>3

\* The cards of rank r if it is one of S.
Part(cnt, S, r) == IF r \in S THEN cnt[r] ELSE 0

Sum(cnt, S) ==
    Part(cnt, S, 3) + Part(cnt, S, 4) + Part(cnt, S, 5)
    + Part(cnt, S, 6) + Part(cnt, S, 7) + Part(cnt, S, 8)
    + Part(cnt, S, 9) + Part(cnt, S, 10) + Part(cnt, S, 11)
    + Part(cnt, S, 12) + Part(cnt, S, 13) + Part(cnt, S, 14)
    + Part(cnt, S, 15) + Part(cnt, S, 16) + Part(cnt, S, 17)

LEMMA RankCases ==
    Rank = {3, 4, 5, 6, 7, 8, 9, 10, 11, 12, 13, 14, 15, 16, 17}
BY DEF Rank, RANK_3, RANK_D

LEMMA PartType ==
    ASSUME NEW c \in Counts, NEW S, NEW r \in Rank
    PROVE  Part(c, S, r) \in 0..4
BY DEF Part, Counts

LEMMA PartsType ==
    ASSUME NEW c \in Counts, NEW S
    PROVE  /\ Part(c, S, 3) \in 0..4 /\ Part(c, S, 4) \in 0..4
           /\ Part(c, S, 5) \in 0..4 /\ Part(c, S, 6) \in 0..4
           /\ Part(c, S, 7) \in 0..4 /\ Part(c, S, 8) \in 0..4
           /\ Part(c, S, 9) \in 0..4 /\ Part(c, S, 10) \in 0..4
           /\ Part(c, S, 11) \in 0..4 /\ Part(c, S, 12) \in 0..4
           /\ Part(c, S, 13) \in 0..4 /\ Part(c, S, 14) \in 0..4
           /\ Part(c, S, 15) \in 0..4 /\ Part(c, S, 16) \in 0..4
           /\ Part(c, S, 17) \in 0..4
BY PartType DEF Rank, RANK_3, RANK_D

LEMMA SumType ==
    ASSUME NEW c \in Counts, NEW S
    PROVE  Sum(c, S) \in 0..60
BY PartsType DEF Sum

\* What the lemmas about sums rest on: sums add up, rank by rank.
LEMMA SumsAdd ==
    ASSUME NEW c \in Counts, NEW d \in Counts, NEW e \in Counts, NEW S, NEW T, NEW U,
           \A r \in Rank : Part(c, S, r) = Part(d, T, r) + Part(e, U, r)
    PROVE  Sum(c, S) = Sum(d, T) + Sum(e, U)
<1>1. /\ Part(c, S, 3) = Part(d, T, 3) + Part(e, U, 3)
      /\ Part(c, S, 4) = Part(d, T, 4) + Part(e, U, 4)
      /\ Part(c, S, 5) = Part(d, T, 5) + Part(e, U, 5)
      /\ Part(c, S, 6) = Part(d, T, 6) + Part(e, U, 6)
      /\ Part(c, S, 7) = Part(d, T, 7) + Part(e, U, 7)
      /\ Part(c, S, 8) = Part(d, T, 8) + Part(e, U, 8)
      /\ Part(c, S, 9) = Part(d, T, 9) + Part(e, U, 9)
      /\ Part(c, S, 10) = Part(d, T, 10) + Part(e, U, 10)
      /\ Part(c, S, 11) = Part(d, T, 11) + Part(e, U, 11)
      /\ Part(c, S, 12) = Part(d, T, 12) + Part(e, U, 12)
      /\ Part(c, S, 13) = Part(d, T, 13) + Part(e, U, 13)
      /\ Part(c, S, 14) = Part(d, T, 14) + Part(e, U, 14)
      /\ Part(c, S, 15) = Part(d, T, 15) + Part(e, U, 15)
      /\ Part(c, S, 16) = Part(d, T, 16) + Part(e, U, 16)
      /\ Part(c, S, 17) = Part(d, T, 17) + Part(e, U, 17)
    BY RankCases
<1>2. /\ Part(d, T, 3) \in Int /\ Part(d, T, 4) \in Int /\ Part(d, T, 5) \in Int
      /\ Part(d, T, 6) \in Int /\ Part(d, T, 7) \in Int /\ Part(d, T, 8) \in Int
      /\ Part(d, T, 9) \in Int /\ Part(d, T, 10) \in Int /\ Part(d, T, 11) \in Int
      /\ Part(d, T, 12) \in Int /\ Part(d, T, 13) \in Int /\ Part(d, T, 14) \in Int
      /\ Part(d, T, 15) \in Int /\ Part(d, T, 16) \in Int /\ Part(d, T, 17) \in Int
    BY PartsType
<1>3. /\ Part(e, U, 3) \in Int /\ Part(e, U, 4) \in Int /\ Part(e, U, 5) \in Int
      /\ Part(e, U, 6) \in Int /\ Part(e, U, 7) \in Int /\ Part(e, U, 8) \in Int
      /\ Part(e, U, 9) \in Int /\ Part(e, U, 10) \in Int /\ Part(e, U, 11) \in Int
      /\ Part(e, U, 12) \in Int /\ Part(e, U, 13) \in Int /\ Part(e, U, 14) \in Int
      /\ Part(e, U, 15) \in Int /\ Part(e, U, 16) \in Int /\ Part(e, U, 17) \in Int
    BY PartsType
<1> QED BY ONLY <1>1, <1>2, <1>3 DEF Sum

LEMMA SameSum ==
    ASSUME NEW c, NEW d, NEW S, NEW T, \A r \in Rank : Part(c, S, r) = Part(d, T, r)
    PROVE  Sum(c, S) = Sum(d, T)
BY RankCases DEF Sum

LEMMA SumSplit ==
    ASSUME NEW c \in Counts, NEW T, NEW S \in SUBSET T
    PROVE  Sum(c, T) = Sum(c, S) + Sum(c, T \ S)
<1>1. \A r \in Rank : Part(c, T, r) = Part(c, S, r) + Part(c, T \ S, r)
    BY DEF Part, Counts
<1> QED BY ONLY <1>1, c \in Counts, SumsAdd

LEMMA SumOne ==
    ASSUME NEW c \in Counts, NEW x \in Rank
    PROVE  Sum(c, {x}) = c[x]
<1> DEFINE only(r) == IF r = x THEN c[x] ELSE 0
<1>1. \A r : Part(c, {x}, r) = only(r) BY DEF Part
<1>2. c[x] \in 0..4 BY DEF Counts
<1>3. only(3) + only(4) + only(5) + only(6) + only(7) + only(8) + only(9) + only(10)
      + only(11) + only(12) + only(13) + only(14) + only(15) + only(16) + only(17) = c[x]
    BY ONLY <1>2, x \in Rank, RankCases
<1> HIDE DEF only
<1> QED BY ONLY <1>1, <1>3 DEF Sum

LEMMA SumWithout ==
    ASSUME NEW c \in Counts, NEW S, NEW x \in Rank, x \in S
    PROVE  Sum(c, S) = c[x] + Sum(c, S \ {x})
<1>1. {x} \in SUBSET S OBVIOUS
<1> DEFINE T == {x}
<1>2. Sum(c, T) = c[x] BY SumOne
<1> HIDE DEF T
<1>3. Sum(c, S) = Sum(c, T) + Sum(c, S \ T) BY <1>1, SumSplit DEF T
<1> QED BY <1>2, <1>3 DEF T

LEMMA SumEmpty == ASSUME NEW c PROVE Sum(c, {}) = 0
BY DEF Sum, Part

LEMMA RankFinite == \A S \in SUBSET Rank : IsFiniteSet(S)
<1>1. IsFiniteSet(3..17) BY FS_Interval, 3 \in Int, 17 \in Int
<1>2. IsFiniteSet(Rank) BY <1>1 DEF Rank, RANK_3, RANK_D
<1> QED BY <1>2, FS_Subset

\* The step of the library's fold: it takes any element and goes on.
Step(cnt, it, s) ==
    IF s = {} THEN 0 ELSE LET x == CHOOSE x \in s : TRUE IN cnt[x] + it[s \ {x}]

Fold(cnt, S) == CHOOSE it : it = [s \in SUBSET S |-> Step(cnt, it, s)]

LEMMA FoldIsSum ==
    ASSUME NEW c \in Counts, NEW S \in SUBSET Rank
    PROVE  SumFunctionOnSet(c, S) = Sum(c, S)
<1> DEFINE it == Fold(c, S)
           g == [s \in SUBSET S |-> Sum(c, s)]
<1>1. SumFunctionOnSet(c, S) = it[S]
    BY DEF SumFunctionOnSet, FoldFunctionOnSet, MapThenFoldSet, Fold, Step
<1>2. ASSUME NEW s \in SUBSET S PROVE g[s] = Step(c, g, s)
    <2>1. CASE s = {} BY <2>1, SumEmpty DEF Step
    <2>2. CASE s # {}
        <3> DEFINE x == CHOOSE x \in s : TRUE
        <3>1. x \in s BY <2>2
        <3> HIDE DEF x
        <3>2. x \in Rank /\ s \ {x} \in SUBSET S BY <3>1
        <3>3. g[s] = c[x] + g[s \ {x}] BY <3>1, <3>2, SumWithout
        <3> HIDE DEF g
        <3>4. QED BY <2>2, <3>3 DEF Step, x
    <2>3. QED BY <2>1, <2>2
<1>3. g = [s \in SUBSET S |-> Step(c, g, s)]
    <2>1. g = [s \in SUBSET S |-> g[s]] OBVIOUS
    <2> HIDE DEF g
    <2>2. QED BY <1>2, <2>1, Zenon
<1>4. it = [s \in SUBSET S |-> Step(c, it, s)]
    <2> HIDE DEF g
    <2>1. QED BY <1>3, Zenon DEF Fold
<1> HIDE DEF it
<1>5. \A s \in SUBSET S : it[s] = Sum(c, s)
    <2> DEFINE bad == {s \in SUBSET S : it[s] # Sum(c, s)}
               sizes == {Cardinality(s) : s \in bad}
    <2>1. SUFFICES ASSUME bad # {} PROVE FALSE OBVIOUS
    <2>2. sizes \in SUBSET Nat /\ sizes # {}
        BY <2>1, RankFinite, FS_CardinalityType
    <2>3. PICK s \in bad : \A t \in bad : Cardinality(s) <= Cardinality(t)
        <3>1. PICK m \in sizes : \A k \in sizes : m <= k BY <2>2, LeastNumber
        <3>2. QED BY <3>1
    <2>4. s \in SUBSET S /\ it[s] # Sum(c, s) /\ it[s] = Step(c, it, s) BY <1>4
    <2>5. s # {} BY <2>4, SumEmpty DEF Step
    <2> DEFINE x == CHOOSE x \in s : TRUE
    <2>6. x \in s BY <2>5
    <2>7. it[s] = c[x] + it[s \ {x}] BY <2>4, <2>5 DEF Step
    <2> HIDE DEF x
    <2>8. x \in Rank /\ s \ {x} \in SUBSET S BY <2>4, <2>6
    <2>9. s \ {x} \in bad
        <3>1. Sum(c, s) = c[x] + Sum(c, s \ {x}) BY <2>6, <2>8, SumWithout
        <3>2. it[s \ {x}] # Sum(c, s \ {x}) BY <2>4, <2>7, <3>1
        <3>3. QED BY <2>8, <3>2
    <2>10. Cardinality(s \ {x}) = Cardinality(s) - 1 /\ Cardinality(s) \in Nat
        BY <2>4, <2>6, RankFinite, FS_RemoveElement, FS_CardinalityType
    <2>11. Cardinality(s) <= Cardinality(s \ {x}) BY <2>3, <2>9
    <2>12. QED BY ONLY <2>10, <2>11
<1> QED BY <1>1, <1>5

LEMMA SizeIsSum ==
    ASSUME NEW c \in Counts PROVE Size(c) = Sum(c, Rank)
BY FoldIsSum DEF Size, SumFunction, Counts


Level(w) == [r \in Rank |-> w]

\* Ranks lo to hi of the same width.
LEMMA SumRow ==
    ASSUME NEW c \in Counts, NEW lo \in Rank, NEW hi \in Rank, lo <= hi,
           NEW w \in 1..4, \A r \in lo..hi : c[r] = w
    PROVE  Sum(c, lo..hi) = w * (hi - lo + 1)
<1> DEFINE n == hi - lo + 1
           one(r) == IF lo <= r /\ r <= hi THEN 1 ELSE 0
<1>1. Sum(Level(1), lo..hi) = n
    <2>1. \A r \in Rank : Part(Level(1), lo..hi, r) = one(r)
        BY DEF Part, Level, Rank, RANK_3, RANK_D
    <2>2. /\ Part(Level(1), lo..hi, 3) = one(3) /\ Part(Level(1), lo..hi, 4) = one(4)
          /\ Part(Level(1), lo..hi, 5) = one(5) /\ Part(Level(1), lo..hi, 6) = one(6)
          /\ Part(Level(1), lo..hi, 7) = one(7) /\ Part(Level(1), lo..hi, 8) = one(8)
          /\ Part(Level(1), lo..hi, 9) = one(9) /\ Part(Level(1), lo..hi, 10) = one(10)
          /\ Part(Level(1), lo..hi, 11) = one(11) /\ Part(Level(1), lo..hi, 12) = one(12)
          /\ Part(Level(1), lo..hi, 13) = one(13) /\ Part(Level(1), lo..hi, 14) = one(14)
          /\ Part(Level(1), lo..hi, 15) = one(15) /\ Part(Level(1), lo..hi, 16) = one(16)
          /\ Part(Level(1), lo..hi, 17) = one(17)
        BY ONLY <2>1, RankCases
    <2>3. one(3) + one(4) + one(5) + one(6) + one(7) + one(8) + one(9) + one(10)
          + one(11) + one(12) + one(13) + one(14) + one(15) + one(16) + one(17) = n
        BY ONLY lo \in Rank, hi \in Rank, lo <= hi, RankCases
    <2> HIDE DEF one
    <2>4. QED BY ONLY <2>2, <2>3 DEF Sum
<1>2. n \in Int BY DEF Rank
<1> HIDE DEF n
<1>3. \A k \in 0..4 : Level(k) \in Counts BY DEF Level, Counts
<1>4. ASSUME NEW k \in 1..3
      PROVE  Sum(Level(k + 1), lo..hi) = Sum(Level(k), lo..hi) + Sum(Level(1), lo..hi)
    <2>1. \A r \in Rank : Part(Level(k + 1), lo..hi, r)
                          = Part(Level(k), lo..hi, r) + Part(Level(1), lo..hi, r)
        BY DEF Part, Level
    <2>2. k \in 0..4 /\ k + 1 \in 0..4 /\ 1 \in 0..4 OBVIOUS
    <2>3. QED BY ONLY <1>3, <2>1, <2>2, SumsAdd
<1>5. /\ Sum(Level(2), lo..hi) = 2 * n
      /\ Sum(Level(3), lo..hi) = 3 * n
      /\ Sum(Level(4), lo..hi) = 4 * n
    <2>1. Sum(Level(2), lo..hi) = 2 * n BY ONLY <1>1, <1>2, <1>4
    <2>2. Sum(Level(3), lo..hi) = 3 * n BY ONLY <1>1, <1>2, <1>4, <2>1
    <2>3. QED BY ONLY <1>1, <1>2, <1>4, <2>1, <2>2
<1>6. Sum(c, lo..hi) = Sum(Level(w), lo..hi)
    <2>1. \A r \in Rank : Part(c, lo..hi, r) = Part(Level(w), lo..hi, r)
        BY DEF Part, Level
    <2>2. QED BY ONLY <2>1, SameSum
<1>7. w = 1 \/ w = 2 \/ w = 3 \/ w = 4 OBVIOUS
<1>8. Sum(c, lo..hi) = w * n
    BY ONLY <1>1, <1>2, <1>5, <1>6, <1>7
<1> QED BY <1>8 DEF n

LEMMA NothingElse ==
    ASSUME NEW c \in Counts, NEW S \in SUBSET Rank
    PROVE  Sum(c, S) = 0 <=> \A r \in S : c[r] = 0
<1>1. ASSUME NEW r \in S, Sum(c, S) = 0 PROVE c[r] = 0
    <2>1. Sum(c, S) = c[r] + Sum(c, S \ {r}) BY SumWithout
    <2>2. Sum(c, S \ {r}) \in Nat /\ c[r] \in Nat BY SumType DEF Counts
    <2>3. QED BY ONLY <1>1, <2>1, <2>2
<1>2. ASSUME \A r \in S : c[r] = 0 PROVE Sum(c, S) = 0
    <2>1. \A r : Part(c, S, r) = 0 BY <1>2 DEF Part
    <2>2. QED BY ONLY <2>1 DEF Sum
<1> QED BY <1>1, <1>2


-----------------------------------------------------------------------------
(* What IsForm says of the cards. *)

\* Counts of cards of one deck: a joker is there once.
Hands == {c \in Counts : c[RANK_X] <= 1 /\ c[RANK_D] <= 1}

LEMMA RowFinite ==
    ASSUME NEW lo \in Rank, NEW hi \in Rank, lo <= hi
    PROVE  Cardinality(lo..hi) = hi - lo + 1 /\ lo..hi \subseteq Rank
<1>1. lo \in Int /\ hi \in Int BY DEF Rank, RANK_3, RANK_D
<1>2. Cardinality(lo..hi) = hi - lo + 1 BY <1>1, FS_Interval
<1> QED BY <1>2 DEF Rank, RANK_3, RANK_D

\* All the cards but those of the row.
LEMMA RestOfRow ==
    ASSUME NEW c \in Counts, NEW lo \in Rank, NEW hi \in Rank, lo <= hi,
           NEW w \in 1..4, \A r \in lo..hi : c[r] = w
    PROVE  SumFunctionOnSet(c, Rank \ (lo..hi)) = Size(c) - w * (hi - lo + 1)
<1> DEFINE n == hi - lo + 1
<1>1. lo..hi \in SUBSET Rank BY RowFinite
<1>2. Sum(c, Rank) = Sum(c, lo..hi) + Sum(c, Rank \ (lo..hi))
    BY ONLY <1>1, c \in Counts, SumSplit
<1>3. Sum(c, lo..hi) = w * n BY SumRow
<1>4. SumFunctionOnSet(c, Rank \ (lo..hi)) = Sum(c, Rank \ (lo..hi)) BY FoldIsSum
<1>5. Size(c) = Sum(c, Rank) BY SizeIsSum
<1>6. Sum(c, Rank \ (lo..hi)) \in Int /\ Sum(c, lo..hi) \in Int
    <2>1. \A S : Sum(c, S) \in Int BY SumType
    <2>2. QED BY ONLY <2>1
<1> HIDE DEF n
<1>7. SumFunctionOnSet(c, Rank \ (lo..hi)) = Size(c) - w * n
    BY ONLY <1>2, <1>3, <1>4, <1>5, <1>6
<1> QED BY <1>7 DEF n

\* The conditions on the wings that do not count them.
WingsAllowed(cnt, wing, lo, hi) ==
    /\ wing # 0 => ~contains_joker(cnt)
    /\ wing = 2 => \A r \in Rank \ (lo..hi) : cnt[r] \in {0, 2}
    /\ hi > lo /\ wing # 0 => PlaneWingsFit(cnt, lo, hi)

\* The size of the cards says how many wings there are.
LEMMA FormBySize ==
    ASSUME NEW c \in Counts, NEW lo \in Rank, NEW hi \in Rank, lo <= hi,
           NEW w \in 1..4, NEW lengths, NEW wing \in Nat, NEW each \in Nat
    PROVE  IsForm(c, Form(w, lengths, wing, each), lo, hi)
           <=> /\ hi - lo + 1 \in lengths
               /\ hi > lo => hi <= RANK_A
               /\ \A r \in lo..hi : c[r] = w
               /\ Size(c) = w * (hi - lo + 1) + wing * each * (hi - lo + 1)
               /\ WingsAllowed(c, wing, lo, hi)
<1> DEFINE form == Form(w, lengths, wing, each)
           n == hi - lo + 1
           body == \A r \in lo..hi : c[r] = w
           rest == SumFunctionOnSet(c, Rank \ (lo..hi))
<1>1. /\ form.width = w /\ form.lengths = lengths
      /\ form.wing = wing /\ form.each = each
    BY DEF Form
<1>2. hi > lo => (lo..hi \subseteq RANK_3..RANK_A <=> hi <= RANK_A)
    BY DEF Rank, RANK_3, RANK_A, RANK_D
<1>3. Cardinality(lo..hi) = n BY RowFinite
<1>4. body => rest = Size(c) - w * n BY RestOfRow
<1>5. Size(c) \in Int /\ n \in Int /\ w * n \in Int /\ wing * each * n \in Int
    BY SizeIsSum, SumType DEF Rank, RANK_3, RANK_D
<1> HIDE DEF form, n, rest
<1>6. body => (rest = wing * each * n <=> Size(c) = w * n + wing * each * n)
    <2>1. PICK wn \in Int : wn = w * n BY <1>5
    <2>2. PICK t \in Int : t = wing * each * n BY <1>5
    <2> HIDE DEF body
    <2>3. QED BY ONLY <1>4, <1>5, <2>1, <2>2
<1>7. IsForm(c, form, lo, hi)
      <=> /\ n \in lengths
          /\ hi > lo => hi <= RANK_A
          /\ body
          /\ rest = wing * each * n
          /\ WingsAllowed(c, wing, lo, hi)
    BY <1>1, <1>2, <1>3 DEF IsForm, WingsFit, WingsAllowed, n, rest
<1> QED BY <1>6, <1>7 DEF form, n


-----------------------------------------------------------------------------
(* The patterns around one rank *)

LEMMA SizeFrom ==
    ASSUME NEW c \in Counts, NEW k \in Rank
    PROVE  /\ Size(c) = c[k] + Sum(c, Rank \ {k})
           /\ Sum(c, Rank \ {k}) \in Nat /\ c[k] \in 0..4 /\ Size(c) \in Nat
<1>1. Size(c) = c[k] + Sum(c, Rank \ {k}) BY SizeIsSum, SumWithout
<1>2. Sum(c, Rank \ {k}) \in Nat BY SumType
<1>3. c[k] \in 0..4 BY DEF Counts
<1> QED BY <1>1, <1>2, <1>3

LEMMA SizeFromTwo ==
    ASSUME NEW c \in Counts, NEW j \in Rank, NEW k \in Rank, j # k
    PROVE  /\ Size(c) = c[j] + c[k] + Sum(c, (Rank \ {k}) \ {j})
           /\ Sum(c, (Rank \ {k}) \ {j}) \in Nat
<1>1. Sum(c, Rank \ {k}) = c[j] + Sum(c, (Rank \ {k}) \ {j}) BY SumWithout
<1>2. Sum(c, (Rank \ {k}) \ {j}) \in Nat BY SumType
<1>3. c[j] \in 0..4 BY DEF Counts
<1> QED BY <1>1, <1>2, <1>3, SizeFrom

\* The key of a play of form ends its body.
IsKey(cnt, form, k) == \E lo \in RANK_3..k : IsForm(cnt, form, lo, k)

KeysOfForm(cnt, form) == {k \in Present(cnt) : IsKey(cnt, form, k)}

LEMMA OneRankForm ==
    ASSUME NEW c \in Counts, NEW k \in Rank, NEW w \in 1..4,
           NEW wing \in Nat, NEW each \in Nat
    PROVE  IsKey(c, Form(w, {1}, wing, each), k)
           <=> /\ c[k] = w
               /\ Size(c) = w + wing * each
               /\ wing # 0 => ~contains_joker(c)
               /\ wing = 2 => \A r \in Rank \ {k} : c[r] \in {0, 2}
<1> DEFINE form == Form(w, {1}, wing, each)
<1>1. k \in RANK_3..k /\ k \in Int BY DEF Rank, RANK_3, RANK_D
<1>2. \A lo \in RANK_3..k : k - lo + 1 = 1 => lo = k BY <1>1 DEF RANK_3
<1>3. \A lo \in RANK_3..k : IsForm(c, form, lo, k) => lo = k
    BY <1>2 DEF IsForm, Form
<1>4. IsKey(c, form, k) <=> IsForm(c, form, k, k) BY <1>1, <1>3 DEF IsKey
<1>5. k - k + 1 = 1 /\ k..k = {k} /\ ~(k > k) BY <1>1
<1>6. w * 1 = w /\ wing * each * 1 = wing * each OBVIOUS
<1> HIDE DEF form
<1>7. IsForm(c, form, k, k)
      <=> /\ k - k + 1 \in {1}
          /\ k > k => k <= RANK_A
          /\ \A r \in k..k : c[r] = w
          /\ Size(c) = w * (k - k + 1) + wing * each * (k - k + 1)
          /\ WingsAllowed(c, wing, k, k)
    <2>1. k <= k BY <1>1
    <2> DEFINE L == {1}
    <2> HIDE DEF L
    <2>2. IsForm(c, Form(w, L, wing, each), k, k)
          <=> /\ k - k + 1 \in L
              /\ k > k => k <= RANK_A
              /\ \A r \in k..k : c[r] = w
              /\ Size(c) = w * (k - k + 1) + wing * each * (k - k + 1)
              /\ WingsAllowed(c, wing, k, k)
        BY <2>1, FormBySize
    <2>3. QED BY <2>2 DEF L, form
<1>8. QED BY <1>4, <1>5, <1>6, <1>7 DEF form, WingsAllowed

LEMMA SoloKeys ==
    ASSUME NEW c \in Hands PROVE match_solo(c) = KeysOfForm(c, Form(1, {1}, 0, 0))
<1>1. c \in Counts BY DEF Hands
<1>2. ASSUME NEW k \in Rank
      PROVE  IsKey(c, Form(1, {1}, 0, 0), k) <=> c[k] = 1 /\ Size(c) = 1
    BY <1>1, OneRankForm
<1>3. ASSUME NEW k \in Present(c), Size(c) = 1 PROVE c[k] = 1
    <2>1. k \in Rank /\ c[k] # 0 BY DEF Present
    <2>2. PICK rest \in Nat : Size(c) = c[k] + rest BY <1>1, <2>1, SizeFrom
    <2>3. c[k] \in 0..4 BY <1>1, <2>1, SizeFrom
    <2>4. QED BY ONLY <1>3, <2>1, <2>2, <2>3
<1> QED BY <1>2, <1>3 DEF match_solo, KeysOfForm, Present

\* Cards of one rank and no others, with two or more of them.
LEMMA AloneKeys ==
    ASSUME NEW c \in Hands, NEW w \in 2..4
    PROVE  KeysOfForm(c, Form(w, {1}, 0, 0)) = IF Size(c) = w THEN With(c, w) ELSE {}
<1>1. c \in Counts BY DEF Hands
<1>2. ASSUME NEW k \in Rank
      PROVE  IsKey(c, Form(w, {1}, 0, 0), k) <=> c[k] = w /\ Size(c) = w
    BY <1>1, OneRankForm
<1>3. ASSUME NEW k \in Rank, c[k] = w PROVE k \in NumberRank /\ k \in Present(c)
    BY <1>3 DEF Hands, Present, Rank, NumberRank, RANK_3, RANK_2, RANK_X, RANK_D
<1>4. NumberRank \subseteq Rank BY DEF Rank, NumberRank, RANK_3, RANK_2, RANK_D
<1>5. Present(c) \subseteq Rank BY DEF Present
<1> QED BY <1>2, <1>3, <1>4, <1>5 DEF KeysOfForm, With

LEMMA PairTrioBombKeys ==
    ASSUME NEW c \in Hands
    PROVE  /\ match_pair(c) = KeysOfForm(c, Form(2, {1}, 0, 0))
           /\ match_trio(c) = KeysOfForm(c, Form(3, {1}, 0, 0))
           /\ match_bomb(c) = KeysOfForm(c, Form(4, {1}, 0, 0))
BY AloneKeys DEF match_pair, match_trio, match_bomb


\* A rank of three or four that is no joker.
LEMMA WithOfHands ==
    ASSUME NEW c \in Hands, NEW w \in 2..4, NEW k
    PROVE  k \in With(c, w) <=> k \in Rank /\ c[k] = w
BY DEF With, Hands, Counts, Rank, NumberRank, RANK_3, RANK_2, RANK_X, RANK_D

LEMMA TrioSoloKeys ==
    ASSUME NEW c \in Hands PROVE match_trio_solo(c) = KeysOfForm(c, Form(3, {1}, 1, 1))
<1>1. c \in Counts BY DEF Hands
<1>2. ASSUME NEW k \in Rank
      PROVE  IsKey(c, Form(3, {1}, 1, 1), k)
             <=> c[k] = 3 /\ Size(c) = 4 /\ ~contains_joker(c)
    BY <1>1, OneRankForm
<1>3. \A k : k \in With(c, 3) <=> k \in Rank /\ c[k] = 3 BY WithOfHands
<1> QED BY <1>2, <1>3 DEF match_trio_solo, KeysOfForm, Present

LEMMA FourSoloKeys ==
    ASSUME NEW c \in Hands PROVE match_four_solo(c) = KeysOfForm(c, Form(4, {1}, 1, 2))
<1>1. c \in Counts BY DEF Hands
<1>2. ASSUME NEW k \in Rank
      PROVE  IsKey(c, Form(4, {1}, 1, 2), k)
             <=> c[k] = 4 /\ Size(c) = 6 /\ ~contains_joker(c)
    BY <1>1, OneRankForm
<1>3. \A k : k \in With(c, 4) <=> k \in Rank /\ c[k] = 4 BY WithOfHands
<1> QED BY <1>2, <1>3 DEF match_four_solo, KeysOfForm, Present

\* Five cards with a pair and a trio are nothing else.
LEMMA TrioPairKeys ==
    ASSUME NEW c \in Hands PROVE match_trio_pair(c) = KeysOfForm(c, Form(3, {1}, 2, 1))
<1>1. c \in Counts BY DEF Hands
<1>2. \A k : k \in With(c, 3) <=> k \in Rank /\ c[k] = 3 BY WithOfHands
<1>3. \A k : k \in With(c, 2) <=> k \in Rank /\ c[k] = 2 BY WithOfHands
<1>4. ASSUME NEW k \in Rank, c[k] = 3, Size(c) = 5
      PROVE  With(c, 2) # {}
             <=> ~contains_joker(c) /\ \A r \in Rank \ {k} : c[r] \in {0, 2}
    <2>1. PICK rest \in Nat : Size(c) = 3 + rest /\ Sum(c, Rank \ {k}) = rest
        BY <1>1, <1>4, SizeFrom
    <2>2. ASSUME NEW j \in With(c, 2)
          PROVE  ~contains_joker(c) /\ \A r \in Rank \ {k} : c[r] \in {0, 2}
        <3>1. j \in Rank /\ c[j] = 2 /\ j # k BY <1>3, <1>4
        <3>2. PICK others \in Nat : /\ Size(c) = 2 + 3 + others
                                    /\ others = Sum(c, (Rank \ {k}) \ {j})
            BY <1>1, <1>4, <3>1, SizeFromTwo
        <3>3. Sum(c, (Rank \ {k}) \ {j}) = 0 BY ONLY <1>4, <3>2
        <3>4. \A r \in (Rank \ {k}) \ {j} : c[r] = 0 BY <1>1, <3>3, NothingElse
        <3>5. \A r \in Rank : c[r] \in {0, 2, 3} BY <1>4, <3>1, <3>4
        <3>6. ~contains_joker(c)
            <4>1. RANK_X \in Rank /\ RANK_D \in Rank
                BY DEF Rank, RANK_3, RANK_X, RANK_D
            <4>2. c[RANK_X] \in 0..4 /\ c[RANK_D] \in 0..4
                  /\ c[RANK_X] <= 1 /\ c[RANK_D] <= 1
                BY <4>1 DEF Hands, Counts
            <4>3. QED BY <3>5, <4>1, <4>2 DEF contains_joker
        <3>7. QED BY <3>1, <3>4, <3>6
    <2>3. ASSUME \A r \in Rank \ {k} : c[r] \in {0, 2} PROVE With(c, 2) # {}
        <3>1. rest # 0 BY ONLY <1>4, <2>1
        <3>2. PICK r \in Rank \ {k} : c[r] # 0 BY <1>1, <2>1, <3>1, NothingElse
        <3>3. QED BY <1>3, <2>3, <3>2
    <2>4. QED BY <2>2, <2>3
<1>5. ASSUME NEW k \in Rank
      PROVE  IsKey(c, Form(3, {1}, 2, 1), k)
             <=> /\ c[k] = 3 /\ Size(c) = 5 /\ ~contains_joker(c)
                 /\ \A r \in Rank \ {k} : c[r] \in {0, 2}
    BY <1>1, OneRankForm
<1> QED BY <1>2, <1>4, <1>5 DEF match_trio_pair, KeysOfForm, Present

LEMMA TwoElements ==
    ASSUME NEW S, IsFiniteSet(S)
    PROVE  Cardinality(S) = 2 <=> \E i, j : i # j /\ S = {i, j}
<1>1. ASSUME Cardinality(S) = 2 PROVE \E i, j : i # j /\ S = {i, j}
    <2>1. PICK i : i \in S BY <1>1, FS_EmptySet
    <2>2. IsFiniteSet(S \ {i}) /\ Cardinality(S \ {i}) = 1
        BY <1>1, <2>1, FS_RemoveElement
    <2>3. PICK j : S \ {i} = {j} BY <2>2, FS_Singleton
    <2>4. i # j /\ S = {i, j} BY <2>1, <2>3
    <2>5. QED BY <2>4
<1>2. ASSUME NEW i, NEW j, i # j, S = {i, j} PROVE Cardinality(S) = 2
    <2>1. IsFiniteSet({i}) /\ Cardinality({i}) = 1 BY FS_Singleton
    <2>2. Cardinality({i} \cup {j}) = 2 BY <1>2, <2>1, FS_AddElement
    <2>3. {i} \cup {j} = S BY <1>2
    <2>4. QED BY <2>2, <2>3
<1> QED BY <1>1, <1>2


LEMMA FourPairKeys ==
    ASSUME NEW c \in Hands PROVE match_four_pair(c) = KeysOfForm(c, Form(4, {1}, 2, 2))
<1>1. c \in Counts BY DEF Hands
<1>2. \A k : k \in With(c, 4) <=> k \in Rank /\ c[k] = 4 BY WithOfHands
<1>3. \A k : k \in With(c, 2) <=> k \in Rank /\ c[k] = 2 BY WithOfHands
<1>4. ASSUME NEW k \in Rank, c[k] = 4, Size(c) = 8
      PROVE  Cardinality(With(c, 2)) = 2
             <=> ~contains_joker(c) /\ \A r \in Rank \ {k} : c[r] \in {0, 2}
    <2>1. Sum(c, Rank \ {k}) = 4
        <3>1. PICK rest \in Nat : Size(c) = 4 + rest /\ Sum(c, Rank \ {k}) = rest
            BY <1>1, <1>4, SizeFrom
        <3>2. QED BY ONLY <1>4, <3>1
    <2>2. Cardinality(With(c, 2)) = 2 <=> \E i, j : i # j /\ With(c, 2) = {i, j}
        <3>1. With(c, 2) \in SUBSET Rank BY <1>3
        <3>2. QED BY <3>1, RankFinite, TwoElements
    <2>3. ASSUME NEW i \in Rank \ {k}, NEW j \in (Rank \ {k}) \ {i}, c[i] = 2, c[j] = 2
          PROVE  \A r \in Rank \ {i, j, k} : c[r] = 0
        <3> DEFINE S == Rank \ {k}
        <3>1. Sum(c, S) = 2 + Sum(c, S \ {i}) BY <1>1, <2>3, SumWithout
        <3>2. Sum(c, S \ {i}) = 2 + Sum(c, (S \ {i}) \ {j}) BY <1>1, <2>3, SumWithout
        <3>3. Sum(c, S \ {i}) \in Int /\ Sum(c, (S \ {i}) \ {j}) \in Int
            <4>1. \A T : Sum(c, T) \in Int BY <1>1, SumType
            <4>2. QED BY ONLY <4>1
        <3>4. Sum(c, (S \ {i}) \ {j}) = 0 BY ONLY <2>1, <3>1, <3>2, <3>3
        <3>5. \A r \in (S \ {i}) \ {j} : c[r] = 0 BY <1>1, <3>4, NothingElse
        <3>6. QED BY <3>5
    <2>4. ASSUME NEW i, NEW j, i # j, With(c, 2) = {i, j}
          PROVE  ~contains_joker(c) /\ \A r \in Rank \ {k} : c[r] \in {0, 2}
        <3>1. /\ i \in Rank \ {k} /\ j \in (Rank \ {k}) \ {i}
              /\ c[i] = 2 /\ c[j] = 2
            BY <1>3, <1>4, <2>4
        <3>2. \A r \in Rank \ {i, j, k} : c[r] = 0 BY <2>3, <3>1
        <3>3. \A r \in Rank : c[r] \in {0, 2, 4} BY <1>4, <3>1, <3>2
        <3>4. ~contains_joker(c)
            <4>1. RANK_X \in Rank /\ RANK_D \in Rank
                BY DEF Rank, RANK_3, RANK_X, RANK_D
            <4>2. c[RANK_X] \in 0..4 /\ c[RANK_D] \in 0..4
                  /\ c[RANK_X] <= 1 /\ c[RANK_D] <= 1
                BY <4>1 DEF Hands, Counts
            <4>3. QED BY <3>3, <4>1, <4>2 DEF contains_joker
        <3>5. QED BY <3>1, <3>2, <3>4
    <2>5. ASSUME \A r \in Rank \ {k} : c[r] \in {0, 2}
          PROVE  \E i, j : i # j /\ With(c, 2) = {i, j}
        <3> DEFINE S == Rank \ {k}
        <3>1. PICK i \in S : c[i] # 0 BY <1>1, <2>1, NothingElse
        <3>2. c[i] = 2 BY <2>5, <3>1
        <3>3. Sum(c, S) = 2 + Sum(c, S \ {i}) BY <1>1, <3>2, SumWithout
        <3>4. Sum(c, S \ {i}) # 0 BY ONLY <2>1, <3>3
        <3>5. PICK j \in S \ {i} : c[j] # 0 BY <1>1, <3>4, NothingElse
        <3>6. c[j] = 2 BY <2>5, <3>5
        <3>7. \A r \in Rank \ {i, j, k} : c[r] = 0 BY <2>3, <3>2, <3>6
        <3>8. With(c, 2) = {i, j} BY <1>3, <1>4, <3>2, <3>6, <3>7
        <3>9. QED BY <3>8
    <2>6. QED BY <2>2, <2>4, <2>5
<1>5. ASSUME NEW k \in Rank
      PROVE  IsKey(c, Form(4, {1}, 2, 2), k)
             <=> /\ c[k] = 4 /\ Size(c) = 8 /\ ~contains_joker(c)
                 /\ \A r \in Rank \ {k} : c[r] \in {0, 2}
    BY <1>1, OneRankForm
<1> QED BY <1>2, <1>4, <1>5 DEF match_four_pair, KeysOfForm, Present

LEMMA RocketKeys ==
    ASSUME NEW c \in Hands
    PROVE  match_rocket(c) = {k \in Present(c) : IsRocket(c) /\ k = RANK_D}
<1>1. c \in Counts BY DEF Hands
<1>2. RANK_X \in Rank /\ RANK_D \in Rank /\ RANK_X # RANK_D
    BY DEF Rank, RANK_3, RANK_X, RANK_D
<1>3. c[RANK_X] \in {0, 1} /\ c[RANK_D] \in {0, 1} BY <1>2 DEF Hands, Counts
<1> DEFINE others == (Rank \ {RANK_D}) \ {RANK_X}
<1>4. PICK n \in Nat : /\ Size(c) = c[RANK_X] + c[RANK_D] + n
                       /\ n = Sum(c, others)
    BY <1>1, <1>2, SizeFromTwo
<1>5. n = 0 <=> \A r \in others : c[r] = 0 BY <1>1, <1>4, NothingElse
<1>6. IsRocket(c) <=> c[RANK_X] = 1 /\ c[RANK_D] = 1 /\ \A r \in others : c[r] = 0
    BY <1>2, <1>3 DEF IsRocket, Present
<1>7. IsRocket(c) <=> Size(c) = 2 /\ c[RANK_X] = 1 /\ c[RANK_D] = 1
    BY <1>4, <1>5, <1>6
<1>8. IsRocket(c) => RANK_D \in Present(c) BY DEF IsRocket
<1> QED BY <1>7, <1>8 DEF match_rocket

-----------------------------------------------------------------------------
(* Chains *)

LEMMA MinIs ==
    ASSUME NEW S \in SUBSET Int, NEW m \in S, \A k \in S : m <= k
    PROVE  Min(S) = m
<1>1. \A x \in S : (\A k \in S : x <= k) => x = m OBVIOUS
<1> QED BY <1>1 DEF Min

LEMMA MaxIs ==
    ASSUME NEW S \in SUBSET Int, NEW m \in S, \A k \in S : m >= k
    PROVE  Max(S) = m
<1>1. \A x \in S : (\A k \in S : x >= k) => x = m OBVIOUS
<1> QED BY <1>1 DEF Max

\* A set of ranks has a lowest and a highest one.
LEMMA Extremes ==
    ASSUME NEW S \in SUBSET Rank, S # {}
    PROVE  /\ Min(S) \in S /\ Max(S) \in S
           /\ \A r \in S : Min(S) <= r /\ r <= Max(S)
<1>1. S \in SUBSET Nat /\ S \in SUBSET Int BY DEF Rank, RANK_3, RANK_D
<1>2. PICK lo \in S : \A k \in S : lo <= k BY <1>1, LeastNumber
<1>3. PICK hi \in S : \A k \in S : k <= hi
    <2> DEFINE below == {17 - r : r \in S}
    <2>1. below \in SUBSET Nat /\ below # {} BY DEF Rank, RANK_3, RANK_D
    <2>2. PICK m \in below : \A k \in below : m <= k BY <2>1, LeastNumber
    <2>3. PICK hi \in S : m = 17 - hi BY <2>2
    <2>4. \A k \in S : 17 - hi <= 17 - k BY <2>2, <2>3
    <2>5. \A k \in S : k <= hi BY <1>1, <2>4
    <2>6. QED BY <2>5
<1>4. Min(S) = lo BY <1>1, <1>2, MinIs
<1>5. Max(S) = hi BY <1>1, <1>3, MaxIs
<1> QED BY <1>2, <1>3, <1>4, <1>5


LEMMA SizeOfRow ==
    ASSUME NEW c \in Counts, NEW lo \in Rank, NEW hi \in Rank, lo <= hi,
           NEW w \in 1..4, \A r \in lo..hi : c[r] = w
    PROVE  /\ Size(c) = w * (hi - lo + 1) + Sum(c, Rank \ (lo..hi))
           /\ Size(c) = w * (hi - lo + 1) <=> Present(c) = lo..hi
<1> DEFINE n == hi - lo + 1
           others == Rank \ (lo..hi)
<1>1. lo..hi \in SUBSET Rank BY RowFinite
<1>2. Sum(c, Rank) = Sum(c, lo..hi) + Sum(c, others)
    BY ONLY <1>1, c \in Counts, SumSplit
<1>3. Sum(c, lo..hi) = w * n BY SumRow
<1>4. Size(c) = Sum(c, Rank) BY SizeIsSum
<1>5. Sum(c, others) = 0 <=> Present(c) = lo..hi
    <2>1. Sum(c, others) = 0 <=> \A r \in others : c[r] = 0
        BY ONLY c \in Counts, others \in SUBSET Rank, NothingElse
    <2>2. \A r \in lo..hi : c[r] # 0 BY w # 0
    <2>3. QED BY <1>1, <2>1, <2>2 DEF Present
<1>6. Sum(c, others) \in Int /\ Sum(c, lo..hi) \in Int
    <2>1. \A S : Sum(c, S) \in Int BY SumType
    <2>2. QED BY ONLY <2>1
<1> HIDE DEF n, others
<1>7. /\ Size(c) = w * n + Sum(c, others)
      /\ Size(c) = w * n <=> Present(c) = lo..hi
    BY ONLY <1>2, <1>3, <1>4, <1>5, <1>6
<1> QED BY <1>7 DEF n, others

LEMMA ChainKeys ==
    ASSUME NEW c \in Hands, NEW w \in 1..3, NEW shortest \in 2..12
    PROVE  Chain(c, w, shortest) = KeysOfForm(c, Form(w, shortest..12, 0, 0))
<1> DEFINE lengths == shortest..12
<1>1. c \in Counts /\ w \in 1..4 BY DEF Hands
<1>2. ASSUME NEW hi \in Rank, NEW lo \in RANK_3..hi
      PROVE  /\ lo \in Rank /\ lo <= hi
             /\ IsForm(c, Form(w, lengths, 0, 0), lo, hi)
                <=> /\ hi - lo + 1 \in lengths /\ hi <= RANK_A
                    /\ \A r \in lo..hi : c[r] = w
                    /\ Size(c) = w * (hi - lo + 1)
    <2>1. lo \in Rank /\ lo <= hi /\ lo \in Int /\ hi \in Int
        BY DEF Rank, RANK_3, RANK_D
    <2>2. w \in 1..4 OBVIOUS
    <2> HIDE DEF lengths
    <2>3. IsForm(c, Form(w, lengths, 0, 0), lo, hi)
          <=> /\ hi - lo + 1 \in lengths
              /\ hi > lo => hi <= RANK_A
              /\ \A r \in lo..hi : c[r] = w
              /\ Size(c) = w * (hi - lo + 1) + 0 * 0 * (hi - lo + 1)
              /\ WingsAllowed(c, 0, lo, hi)
        BY <1>1, <2>1, <2>2, FormBySize, 0 \in Nat
    <2>4. WingsAllowed(c, 0, lo, hi) BY DEF WingsAllowed
    <2>5. hi - lo + 1 \in lengths => hi > lo BY <2>1 DEF lengths
    <2>6. w * (hi - lo + 1) + 0 * 0 * (hi - lo + 1) = w * (hi - lo + 1)
        BY <2>1
    <2>7. QED BY <2>1, <2>3, <2>4, <2>5, <2>6
<1>3. ASSUME NEW hi \in Chain(c, w, shortest)
      PROVE  hi \in KeysOfForm(c, Form(w, lengths, 0, 0))
    <2> DEFINE lo == Min(Present(c))
    <2>1. /\ \A r \in Present(c) : c[r] = w
          /\ Cardinality(Present(c)) >= shortest
          /\ Present(c) # {} /\ Present(c) \subseteq RANK_3..RANK_A
          /\ Present(c) = lo..hi /\ hi = Max(Present(c))
        BY DEF Chain, consecutive_3_to_a
    <2>2. Present(c) \in SUBSET Rank BY DEF Present
    <2>3. lo \in Present(c) /\ hi \in Present(c) /\ lo <= hi
        BY <2>1, <2>2, Extremes
    <2> HIDE DEF lo
    <2>4. lo \in RANK_3..hi /\ hi <= RANK_A /\ hi - lo + 1 <= 12 /\ hi - lo + 1 \in Int
        <3>1. lo \in 3..14 /\ hi \in 3..14 BY ONLY <2>1, <2>3 DEF RANK_3, RANK_A
        <3>2. QED BY ONLY <3>1, <2>3 DEF RANK_3, RANK_A
    <2>5. lo \in Rank /\ hi \in Rank BY <2>2, <2>3
    <2>6. hi - lo + 1 \in lengths BY <2>1, <2>3, <2>4, <2>5, RowFinite
    <2>7. \A r \in lo..hi : c[r] = w BY <2>1
    <2>8. Size(c) = w * (hi - lo + 1)
        <3>1. Size(c) = w * (hi - lo + 1) <=> Present(c) = lo..hi
            BY ONLY <1>1, <2>3, <2>5, <2>7, SizeOfRow
        <3>2. QED BY ONLY <2>1, <3>1
    <2>9. IsForm(c, Form(w, lengths, 0, 0), lo, hi)
        BY <1>2, <2>4, <2>5, <2>6, <2>7, <2>8
    <2>10. QED BY <2>3, <2>4, <2>9 DEF KeysOfForm, IsKey
<1>4. ASSUME NEW hi \in KeysOfForm(c, Form(w, lengths, 0, 0))
      PROVE  hi \in Chain(c, w, shortest)
    <2>1. PICK lo \in RANK_3..hi : IsForm(c, Form(w, lengths, 0, 0), lo, hi)
        BY DEF KeysOfForm, IsKey
    <2>2. hi \in Present(c) /\ hi \in Rank BY DEF KeysOfForm, Present
    <2>3. /\ lo \in Rank /\ lo <= hi
          /\ hi - lo + 1 \in lengths /\ hi <= RANK_A
          /\ \A r \in lo..hi : c[r] = w
          /\ Size(c) = w * (hi - lo + 1)
        BY <1>2, <2>1, <2>2
    <2>4. Present(c) = lo..hi BY ONLY <1>1, <2>2, <2>3, SizeOfRow
    <2>5. Cardinality(Present(c)) >= shortest BY <2>2, <2>3, <2>4, RowFinite
    <2>6. lo \in Int /\ hi \in Int /\ lo >= RANK_3
        BY <2>2, <2>3 DEF Rank, RANK_3, RANK_D
    <2>7. Min(lo..hi) = lo /\ Max(lo..hi) = hi
        <3>1. /\ lo..hi \in SUBSET Int /\ lo \in lo..hi /\ hi \in lo..hi
              /\ \A r \in lo..hi : lo <= r /\ hi >= r
            BY ONLY <2>3, <2>6
        <3>2. QED BY ONLY <3>1, MinIs, MaxIs
    <2>8. lo..hi # {} /\ lo..hi \subseteq RANK_3..RANK_A
        <3>1. lo \in lo..hi BY ONLY <2>3, <2>6
        <3>2. \A r \in lo..hi : r \in RANK_3..RANK_A
            BY ONLY <2>3, <2>6 DEF RANK_3, RANK_A
        <3>3. QED BY ONLY <3>1, <3>2
    <2>9. QED BY <2>3, <2>4, <2>5, <2>7, <2>8 DEF Chain, consecutive_3_to_a
<1> QED BY <1>3, <1>4


-----------------------------------------------------------------------------
(* Planes with wings *)

LEMMA Quotient ==
    ASSUME NEW s \in Nat, NEW n \in Nat
    PROVE  /\ s = 4 * n <=> s % 4 = 0 /\ s \div 4 = n
           /\ s = 5 * n <=> s % 5 = 0 /\ s \div 5 = n
OBVIOUS

LEMMA PlaneForm ==
    ASSUME NEW c \in Counts, NEW hi \in Rank, NEW lo \in RANK_3..hi, NEW wing \in {1, 2}
    PROVE  /\ lo \in Rank /\ lo <= hi
           /\ IsForm(c, Form(3, 2..12, wing, 1), lo, hi)
              <=> /\ hi - lo + 1 \in 2..12 /\ hi <= RANK_A
                  /\ \A r \in lo..hi : c[r] = 3
                  /\ Size(c) = (3 + wing) * (hi - lo + 1)
                  /\ WingsAllowed(c, wing, lo, hi)
<1> DEFINE lengths == 2..12
           n == hi - lo + 1
<1>1. lo \in Rank /\ lo <= hi /\ lo \in Int /\ hi \in Int
    BY DEF Rank, RANK_3, RANK_D
<1>2. n \in lengths => hi > lo BY <1>1
<1>3. n \in Int BY <1>1
<1>4. PICK w \in 1..4, each \in Nat : w = 3 /\ each = 1 OBVIOUS
<1>5. IsForm(c, Form(3, lengths, wing, 1), lo, hi)
      <=> /\ n \in lengths
          /\ hi > lo => hi <= RANK_A
          /\ \A r \in lo..hi : c[r] = 3
          /\ Size(c) = 3 * n + wing * 1 * n
          /\ WingsAllowed(c, wing, lo, hi)
    <2>1. wing \in Nat OBVIOUS
    <2> HIDE DEF lengths
    <2>2. IsForm(c, Form(w, lengths, wing, each), lo, hi)
          <=> /\ hi - lo + 1 \in lengths
              /\ hi > lo => hi <= RANK_A
              /\ \A r \in lo..hi : c[r] = w
              /\ Size(c) = w * (hi - lo + 1) + wing * each * (hi - lo + 1)
              /\ WingsAllowed(c, wing, lo, hi)
        BY <1>1, <2>1, FormBySize
    <2>3. QED BY <1>4, <2>2, Zenon
<1> HIDE DEF lengths, n
<1>6. 3 * n + wing * 1 * n = (3 + wing) * n BY <1>3
<1>7. IsForm(c, Form(3, lengths, wing, 1), lo, hi)
      <=> /\ n \in lengths /\ hi <= RANK_A
          /\ \A r \in lo..hi : c[r] = 3
          /\ Size(c) = (3 + wing) * n
          /\ WingsAllowed(c, wing, lo, hi)
    BY ONLY <1>2, <1>5, <1>6
<1> QED BY <1>1, <1>7 DEF lengths, n

LEMMA NoFour ==
    ASSUME NEW c \in Hands
    PROVE  ~contains_four(c) <=> \A r \in Rank : c[r] < 4
<1>1. \A r : r \in With(c, 4) <=> r \in Rank /\ c[r] = 4 BY WithOfHands
<1>2. \A r \in Rank : c[r] \in 0..4 BY DEF Hands, Counts
<1> QED BY <1>1, <1>2 DEF contains_four

\* The neighbours of a body of n ranks that ends with hi.
LEMMA NeighboursFit ==
    ASSUME NEW c \in Hands, NEW hi \in Rank, NEW lo \in RANK_3..hi, hi <= RANK_A
    PROVE  PlaneWingsFit(c, lo, hi)
           <=> ~contains_four(c) /\ ~TrioBeside(c, hi - lo + 1, hi)
<1>1. lo \in Int /\ hi \in Int /\ 3 <= lo /\ lo <= hi /\ hi <= 14
    BY DEF Rank, RANK_3, RANK_A, RANK_D
<1>2. hi - (hi - lo + 1) = lo - 1 /\ hi - (hi - lo + 1) + 1 = lo BY <1>1
<1>3. lo - 1 \in RANK_3..RANK_A <=> lo > RANK_3 BY <1>1 DEF RANK_3, RANK_A
<1>4. hi + 1 \in RANK_3..RANK_A <=> hi < RANK_A BY <1>1 DEF RANK_3, RANK_A
<1>5. \A r \in RANK_3..RANK_A : c[r] \in 0..4
    BY DEF Hands, Counts, Rank, RANK_3, RANK_A, RANK_D
<1>6. (\A r \in {lo - 1, hi + 1} \cap (RANK_3..RANK_A) : c[r] < 3)
      <=> /\ lo > RANK_3 => c[lo - 1] < 3
          /\ hi < RANK_A => c[hi + 1] < 3
    BY ONLY <1>3, <1>4
<1>7. TrioBeside(c, hi - lo + 1, hi)
      <=> \/ lo > RANK_3 /\ c[lo - 1] >= 3
          \/ hi < RANK_A /\ c[hi + 1] >= 3
    BY <1>2 DEF TrioBeside
<1>8. /\ lo > RANK_3 => (c[lo - 1] < 3 <=> ~(c[lo - 1] >= 3))
      /\ hi < RANK_A => (c[hi + 1] < 3 <=> ~(c[hi + 1] >= 3))
    BY <1>3, <1>4, <1>5
<1>9. QED BY <1>6, <1>7, <1>8, NoFour DEF PlaneWingsFit

LEMMA HighestOfOne ==
    ASSUME NEW S \in SUBSET Int, \A h, k \in S : h = k
    PROVE  Highest(S) = S
<1>1. CASE S = {} BY <1>1 DEF Highest
<1>2. CASE S # {}
    <2>1. PICK h \in S : S = {h} BY <1>2
    <2>2. Max(S) = h BY <2>1, MaxIs
    <2>3. QED BY <2>1, <2>2 DEF Highest
<1> QED BY <1>1, <1>2


\* A body of n ranks that ends with hi begins with lo.
LEMMA BodyRow ==
    ASSUME NEW c, NEW n \in Nat, n >= 2, NEW hi \in Rank
    PROVE  hi \in Bodies(c, n)
           <=> \E lo \in RANK_3..hi : /\ hi - lo + 1 = n /\ n \in 2..12 /\ hi <= RANK_A
                                      /\ \A r \in lo..hi : c[r] = 3
<1> USE DEF RANK_3, RANK_A
<1>1. hi \in Int /\ hi >= 3 BY DEF Rank, RANK_D
<1>2. ASSUME hi \in Bodies(c, n)
      PROVE  \E lo \in RANK_3..hi : /\ hi - lo + 1 = n /\ n \in 2..12 /\ hi <= RANK_A
                                    /\ \A r \in lo..hi : c[r] = 3
    <2>1. hi \in 3 + n - 1..14 /\ \A r \in hi - n + 1..hi : c[r] = 3
        BY <1>2 DEF Bodies
    <2> DEFINE lo == hi - n + 1
    <2>2. lo \in 3..hi /\ hi - lo + 1 = n /\ n \in 2..12 /\ hi <= 14
        BY <1>1, <2>1
    <2>3. QED BY <2>1, <2>2
<1>3. ASSUME NEW lo \in RANK_3..hi, hi - lo + 1 = n, hi <= RANK_A,
             \A r \in lo..hi : c[r] = 3
      PROVE  hi \in Bodies(c, n)
    <2>1. hi - n + 1 = lo /\ hi \in 3 + n - 1..14 BY <1>1, <1>3
    <2>2. QED BY <1>3, <2>1 DEF Bodies
<1> QED BY <1>2, <1>3

LEMMA PlaneSoloKey ==
    ASSUME NEW c \in Hands, NEW hi \in Rank
    PROVE  IsKey(c, Form(3, 2..12, 1, 1), hi)
           <=> /\ Size(c) % 4 = 0 /\ Size(c) \div 4 >= 2
               /\ ~contains_joker(c) /\ ~contains_four(c)
               /\ hi \in Bodies(c, Size(c) \div 4)
               /\ ~TrioBeside(c, Size(c) \div 4, hi)
<1> DEFINE s == Size(c)
           n == s \div 4
<1>1. c \in Counts /\ s \in Nat BY SizeIsSum, SumType DEF Hands
<1>2. n \in Nat BY <1>1
<1>3. ASSUME NEW lo \in RANK_3..hi
      PROVE  /\ lo <= hi /\ lo \in Int /\ hi \in Int
             /\ IsForm(c, Form(3, 2..12, 1, 1), lo, hi)
                <=> /\ hi - lo + 1 \in 2..12 /\ hi <= RANK_A
                    /\ \A r \in lo..hi : c[r] = 3
                    /\ s = 4 * (hi - lo + 1)
                    /\ WingsAllowed(c, 1, lo, hi)
    <2>1. PICK wing \in {1, 2} : wing = 1 OBVIOUS
    <2>2. lo \in Int /\ hi \in Int BY DEF Rank, RANK_3
    <2>3. /\ lo <= hi
          /\ IsForm(c, Form(3, 2..12, wing, 1), lo, hi)
             <=> /\ hi - lo + 1 \in 2..12 /\ hi <= RANK_A
                 /\ \A r \in lo..hi : c[r] = 3
                 /\ s = (3 + wing) * (hi - lo + 1)
                 /\ WingsAllowed(c, wing, lo, hi)
        BY <1>1, PlaneForm
    <2>4. 3 + wing = 4 BY <2>1
    <2>5. QED BY <2>1, <2>2, <2>3, <2>4, Zenon
<1>4. ASSUME NEW lo \in RANK_3..hi, hi - lo + 1 \in 2..12, hi <= RANK_A
      PROVE  WingsAllowed(c, 1, lo, hi)
             <=> ~contains_joker(c) /\ ~contains_four(c) /\ ~TrioBeside(c, hi - lo + 1, hi)
    <2>1. hi > lo BY <1>3, <1>4
    <2>2. PlaneWingsFit(c, lo, hi)
          <=> ~contains_four(c) /\ ~TrioBeside(c, hi - lo + 1, hi)
        BY <1>4, NeighboursFit
    <2>3. QED BY <2>1, <2>2 DEF WingsAllowed
<1>5. ASSUME NEW lo \in RANK_3..hi
      PROVE  s = 4 * (hi - lo + 1) <=> s % 4 = 0 /\ hi - lo + 1 = n
    <2>1. PICK m \in Nat : m = hi - lo + 1 BY <1>3
    <2>2. QED BY <1>1, <2>1, Quotient
<1> HIDE DEF s, n
<1>6. IsKey(c, Form(3, 2..12, 1, 1), hi)
      <=> \E lo \in RANK_3..hi :
             /\ hi - lo + 1 = n /\ s % 4 = 0
             /\ n \in 2..12 /\ hi <= RANK_A
             /\ \A r \in lo..hi : c[r] = 3
             /\ ~contains_joker(c) /\ ~contains_four(c) /\ ~TrioBeside(c, n, hi)
    <2>1. ASSUME NEW lo \in RANK_3..hi
          PROVE  IsForm(c, Form(3, 2..12, 1, 1), lo, hi)
                 <=> /\ hi - lo + 1 = n /\ s % 4 = 0
                     /\ n \in 2..12 /\ hi <= RANK_A
                     /\ \A r \in lo..hi : c[r] = 3
                     /\ ~contains_joker(c) /\ ~contains_four(c) /\ ~TrioBeside(c, n, hi)
        BY <1>3, <1>4, <1>5, Zenon
    <2>2. QED BY <2>1, Zenon DEF IsKey
<1>7. n >= 2 => (hi \in Bodies(c, n)
                 <=> \E lo \in RANK_3..hi : /\ hi - lo + 1 = n /\ n \in 2..12 /\ hi <= RANK_A
                                            /\ \A r \in lo..hi : c[r] = 3)
    BY <1>2, BodyRow
<1>8. n \in 2..12 => n >= 2 BY <1>2
<1>9. IsKey(c, Form(3, 2..12, 1, 1), hi)
      <=> /\ s % 4 = 0 /\ n >= 2 /\ ~contains_joker(c) /\ ~contains_four(c)
          /\ hi \in Bodies(c, n) /\ ~TrioBeside(c, n, hi)
    BY <1>6, <1>7, <1>8, Zenon
<1> QED BY <1>9 DEF s, n


PairsAround(cnt, n, hi) == \A r \in Present(cnt) \ (hi - n + 1..hi) : cnt[r] = 2

LEMMA PlanePairKey ==
    ASSUME NEW c \in Hands, NEW hi \in Rank
    PROVE  IsKey(c, Form(3, 2..12, 2, 1), hi)
           <=> /\ Size(c) % 5 = 0 /\ Size(c) \div 5 >= 2
               /\ ~contains_joker(c) /\ ~contains_four(c)
               /\ hi \in Bodies(c, Size(c) \div 5)
               /\ PairsAround(c, Size(c) \div 5, hi)
<1> DEFINE s == Size(c)
           n == s \div 5
<1>1. c \in Counts /\ s \in Nat BY SizeIsSum, SumType DEF Hands
<1>2. n \in Nat BY <1>1
<1>3. ASSUME NEW lo \in RANK_3..hi
      PROVE  /\ lo <= hi /\ lo \in Int /\ hi \in Int
             /\ IsForm(c, Form(3, 2..12, 2, 1), lo, hi)
                <=> /\ hi - lo + 1 \in 2..12 /\ hi <= RANK_A
                    /\ \A r \in lo..hi : c[r] = 3
                    /\ s = 5 * (hi - lo + 1)
                    /\ WingsAllowed(c, 2, lo, hi)
    <2>1. PICK wing \in {1, 2} : wing = 2 OBVIOUS
    <2>2. lo \in Int /\ hi \in Int BY DEF Rank, RANK_3
    <2>3. /\ lo <= hi
          /\ IsForm(c, Form(3, 2..12, wing, 1), lo, hi)
             <=> /\ hi - lo + 1 \in 2..12 /\ hi <= RANK_A
                 /\ \A r \in lo..hi : c[r] = 3
                 /\ s = (3 + wing) * (hi - lo + 1)
                 /\ WingsAllowed(c, wing, lo, hi)
        BY <1>1, PlaneForm
    <2>4. 3 + wing = 5 BY <2>1
    <2>5. QED BY <2>1, <2>2, <2>3, <2>4, Zenon
<1>4. ASSUME NEW lo \in RANK_3..hi, hi - lo + 1 \in 2..12, hi <= RANK_A,
             \A r \in lo..hi : c[r] = 3
      PROVE  WingsAllowed(c, 2, lo, hi)
             <=> /\ ~contains_joker(c) /\ ~contains_four(c)
                 /\ PairsAround(c, hi - lo + 1, hi)
    <2>1. hi > lo /\ hi - (hi - lo + 1) + 1 = lo BY <1>3, <1>4
    <2>2. PairsAround(c, hi - lo + 1, hi) <=> \A r \in Rank \ (lo..hi) : c[r] \in {0, 2}
        BY <2>1 DEF PairsAround, Present
    <2>3. ASSUME \A r \in Rank \ (lo..hi) : c[r] \in {0, 2}
          PROVE  ~contains_four(c) /\ PlaneWingsFit(c, lo, hi)
        <3>1. \A r \in Rank : c[r] \in {0, 2, 3} BY <1>4, <2>3
        <3>2. \A r \in Rank : c[r] < 4 BY <3>1
        <3>3. \A r \in {lo - 1, hi + 1} \cap (RANK_3..RANK_A) : r \in Rank \ (lo..hi)
            BY <1>3 DEF Rank, RANK_3, RANK_A, RANK_D
        <3>4. \A r \in {lo - 1, hi + 1} \cap (RANK_3..RANK_A) : c[r] < 3
            BY <2>3, <3>3
        <3>5. QED BY <3>2, <3>4, NoFour DEF PlaneWingsFit
    <2>4. QED BY <2>1, <2>2, <2>3 DEF WingsAllowed
<1>5. ASSUME NEW lo \in RANK_3..hi
      PROVE  s = 5 * (hi - lo + 1) <=> s % 5 = 0 /\ hi - lo + 1 = n
    <2>1. PICK m \in Nat : m = hi - lo + 1 BY <1>3
    <2>2. QED BY <1>1, <2>1, Quotient
<1> HIDE DEF s, n
<1>6. IsKey(c, Form(3, 2..12, 2, 1), hi)
      <=> \E lo \in RANK_3..hi :
             /\ hi - lo + 1 = n /\ s % 5 = 0
             /\ n \in 2..12 /\ hi <= RANK_A
             /\ \A r \in lo..hi : c[r] = 3
             /\ ~contains_joker(c) /\ ~contains_four(c) /\ PairsAround(c, n, hi)
    <2>1. ASSUME NEW lo \in RANK_3..hi
          PROVE  IsForm(c, Form(3, 2..12, 2, 1), lo, hi)
                 <=> /\ hi - lo + 1 = n /\ s % 5 = 0
                     /\ n \in 2..12 /\ hi <= RANK_A
                     /\ \A r \in lo..hi : c[r] = 3
                     /\ ~contains_joker(c) /\ ~contains_four(c) /\ PairsAround(c, n, hi)
        BY <1>3, <1>4, <1>5, Zenon
    <2>2. QED BY <2>1, Zenon DEF IsKey
<1>7. n >= 2 => (hi \in Bodies(c, n)
                 <=> \E lo \in RANK_3..hi : /\ hi - lo + 1 = n /\ n \in 2..12 /\ hi <= RANK_A
                                            /\ \A r \in lo..hi : c[r] = 3)
    BY <1>2, BodyRow
<1>8. n \in 2..12 => n >= 2 BY <1>2
<1>9. IsKey(c, Form(3, 2..12, 2, 1), hi)
      <=> /\ s % 5 = 0 /\ n >= 2 /\ ~contains_joker(c) /\ ~contains_four(c)
          /\ hi \in Bodies(c, n) /\ PairsAround(c, n, hi)
    BY <1>6, <1>7, <1>8, Zenon
<1> QED BY <1>9 DEF s, n

\* Two bodies without a trio beside them would need more cards than there are.
LEMMA OneSoloPlane ==
    ASSUME NEW c \in Counts, NEW n \in Nat, n >= 2, Size(c) = 4 * n,
           NEW h \in Bodies(c, n), NEW k \in Bodies(c, n), h < k,
           ~TrioBeside(c, n, h)
    PROVE  FALSE
<1> USE DEF RANK_3, RANK_A
<1>1. /\ h \in 3 + n - 1..14 /\ \A r \in h - n + 1..h : c[r] = 3
      /\ k \in 3 + n - 1..14 /\ \A r \in k - n + 1..k : c[r] = 3
    BY DEF Bodies
<1>2. c[h + 1] # 3
    <2>1. h < 14 BY <1>1
    <2>2. QED BY <2>1 DEF TrioBeside
<1>3. h + 1 < k - n + 1
    <2>1. h + 1 \notin k - n + 1..k BY <1>1, <1>2
    <2>2. QED BY <1>1, <2>1
<1> DEFINE first == h - n + 1..h
           second == k - n + 1..k
<1>4. /\ h - n + 1 \in Rank /\ h \in Rank /\ k - n + 1 \in Rank /\ k \in Rank
      /\ h - n + 1 <= h /\ k - n + 1 <= k
      /\ h - (h - n + 1) + 1 = n /\ k - (k - n + 1) + 1 = n
    BY <1>1 DEF Rank, RANK_D
<1>5. Sum(c, first) = 3 * n /\ Sum(c, second) = 3 * n
    <2>1. PICK w \in 1..4 : w = 3 OBVIOUS
    <2>2. Sum(c, first) = w * (h - (h - n + 1) + 1) BY <1>1, <1>4, <2>1, SumRow
    <2>3. Sum(c, second) = w * (k - (k - n + 1) + 1) BY <1>1, <1>4, <2>1, SumRow
    <2>4. QED BY <1>4, <2>1, <2>2, <2>3
<1>6. second \in SUBSET (Rank \ first) /\ first \in SUBSET Rank
    BY <1>1, <1>3 DEF Rank, RANK_D
<1> HIDE DEF first, second
<1>7. Sum(c, Rank) = Sum(c, first) + Sum(c, Rank \ first)
    BY ONLY c \in Counts, <1>6, SumSplit
<1>8. Sum(c, Rank \ first) = Sum(c, second) + Sum(c, (Rank \ first) \ second)
    BY ONLY c \in Counts, <1>6, SumSplit
<1>9. Sum(c, (Rank \ first) \ second) \in Nat
    <2>1. \A S : Sum(c, S) \in Nat BY SumType
    <2>2. QED BY ONLY <2>1
<1>10. Size(c) = Sum(c, Rank) BY SizeIsSum
<1> QED BY ONLY <1>5, <1>7, <1>8, <1>9, <1>10, Size(c) = 4 * n, n >= 2, n \in Nat


LEMMA BodiesPresent ==
    ASSUME NEW c \in Counts, NEW n \in Nat, n >= 2, NEW h \in Bodies(c, n)
    PROVE  h \in Rank /\ h \in Present(c) /\ h \in Int
<1>1. /\ h \in RANK_3 + n - 1..RANK_A /\ \A r \in h - n + 1..h : c[r] = 3
    BY DEF Bodies
<1>2. h \in Rank /\ h \in Int BY <1>1 DEF Rank, RANK_3, RANK_A, RANK_D
<1>3. h \in h - n + 1..h BY <1>2
<1> QED BY <1>1, <1>2, <1>3 DEF Present

LEMMA PlaneSoloKeys ==
    ASSUME NEW c \in Hands
    PROVE  /\ match_plane_solo(c) = KeysOfForm(c, Form(3, 2..12, 1, 1))
           /\ \A h, k \in KeysOfForm(c, Form(3, 2..12, 1, 1)) : h = k
<1> DEFINE s == Size(c)
           n == s \div 4
           H == {hi \in Bodies(c, n) : ~TrioBeside(c, n, hi)}
           fits == s % 4 = 0 /\ n >= 2 /\ ~contains_joker(c) /\ ~contains_four(c)
<1>1. c \in Counts /\ s \in Nat BY SizeIsSum, SumType DEF Hands
<1>2. n \in Nat BY <1>1
<1>3. fits => s = 4 * n BY <1>1
<1> HIDE DEF s, n
<1>4. fits => \A h \in H : h \in Present(c) /\ h \in Rank /\ h \in Int
    BY <1>1, <1>2, BodiesPresent
<1>5. ASSUME fits, NEW h \in H, NEW k \in H PROVE h = k
    <2>1. ~(h < k) BY <1>1, <1>2, <1>3, <1>5, OneSoloPlane DEF s
    <2>2. ~(k < h) BY <1>1, <1>2, <1>3, <1>5, OneSoloPlane DEF s
    <2>3. h \in Int /\ k \in Int BY <1>4, <1>5
    <2>4. QED BY ONLY <2>1, <2>2, <2>3
<1>6. fits => Highest(H) = H
    <2>1. SUFFICES ASSUME fits PROVE Highest(H) = H OBVIOUS
    <2>2. H \in SUBSET Int BY <1>4, <2>1
    <2>3. \A h, k \in H : h = k BY <1>5, <2>1
    <2> HIDE DEF H
    <2>4. QED BY ONLY <2>2, <2>3, HighestOfOne
<1>7. match_plane_solo(c) = IF fits THEN Highest(H) ELSE {}
    BY DEF match_plane_solo, s, n
<1>8. \A hi \in Rank : IsKey(c, Form(3, 2..12, 1, 1), hi) <=> fits /\ hi \in H
    BY PlaneSoloKey DEF s, n
<1>9. KeysOfForm(c, Form(3, 2..12, 1, 1)) = IF fits THEN H ELSE {}
    <2> HIDE DEF fits, H
    <2>1. QED BY <1>4, <1>8 DEF KeysOfForm, Present
<1> QED BY ONLY <1>5, <1>6, <1>7, <1>9

LEMMA PlanePairKeys ==
    ASSUME NEW c \in Hands
    PROVE  match_plane_pair(c) = KeysOfForm(c, Form(3, 2..12, 2, 1))
<1> DEFINE s == Size(c)
           n == s \div 5
           H == {hi \in Bodies(c, n) : PairsAround(c, n, hi)}
           fits == s % 5 = 0 /\ n >= 2 /\ ~contains_joker(c) /\ ~contains_four(c)
<1>1. c \in Counts /\ s \in Nat BY SizeIsSum, SumType DEF Hands
<1>2. n \in Nat BY <1>1
<1> HIDE DEF s, n
<1>4. fits => \A h \in H : h \in Present(c) /\ h \in Rank /\ h \in Int
    BY <1>1, <1>2, BodiesPresent
<1>5. ASSUME fits, NEW h \in H, NEW k \in H PROVE h >= k
    <2>1. /\ h \in Int /\ k \in Int /\ k \in Present(c) /\ c[k] = 3
        <3>1. k \in k - n + 1..k BY <1>2, <1>4, <1>5
        <3>2. QED BY <1>4, <1>5, <3>1 DEF Bodies
    <2>2. k \in h - n + 1..h BY <2>1 DEF PairsAround
    <2>3. QED BY <2>1, <2>2
<1>6. fits => Highest(H) = H
    <2>1. SUFFICES ASSUME fits PROVE Highest(H) = H OBVIOUS
    <2>2. H \in SUBSET Int BY <1>4, <2>1
    <2>3. \A h, k \in H : h >= k BY <1>5, <2>1
    <2> HIDE DEF H
    <2>4. \A h, k \in H : h = k BY ONLY <2>2, <2>3
    <2>5. QED BY ONLY <2>2, <2>4, HighestOfOne
<1>7. match_plane_pair(c) = IF fits THEN Highest(H) ELSE {}
    BY DEF match_plane_pair, PairsAround, s, n
<1>8. \A hi \in Rank : IsKey(c, Form(3, 2..12, 2, 1), hi) <=> fits /\ hi \in H
    BY PlanePairKey DEF s, n
<1>9. KeysOfForm(c, Form(3, 2..12, 2, 1)) = IF fits THEN H ELSE {}
    <2> HIDE DEF fits, H
    <2>1. QED BY <1>4, <1>8 DEF KeysOfForm, Present
<1> QED BY ONLY <1>6, <1>7, <1>9

-----------------------------------------------------------------------------
(* The matchers and the rules *)

LEMMA ChainsKeys ==
    ASSUME NEW c \in Hands
    PROVE  /\ match_straight(c) = KeysOfForm(c, Form(1, 5..12, 0, 0))
           /\ match_pair_straight(c) = KeysOfForm(c, Form(2, 3..12, 0, 0))
           /\ match_plane(c) = KeysOfForm(c, Form(3, 2..12, 0, 0))
BY ChainKeys DEF match_straight, match_pair_straight, match_plane

LEMMA KeysFollowRules ==
    ASSUME NEW c \in Hands, NEW p \in Pattern \ {"rocket"}
    PROVE  KeysAs(c)[p] = KeysOfForm(c, Forms[p])
<1>1. /\ KeysAs(c).solo = KeysOfForm(c, Forms.solo)
      /\ KeysAs(c).pair = KeysOfForm(c, Forms.pair)
      /\ KeysAs(c).trio = KeysOfForm(c, Forms.trio)
      /\ KeysAs(c).bomb = KeysOfForm(c, Forms.bomb)
    BY SoloKeys, PairTrioBombKeys DEF KeysAs, Forms
<1>2. /\ KeysAs(c).straight = KeysOfForm(c, Forms.straight)
      /\ KeysAs(c).pair_straight = KeysOfForm(c, Forms.pair_straight)
      /\ KeysAs(c).plane = KeysOfForm(c, Forms.plane)
    BY ChainsKeys DEF KeysAs, Forms
<1>3. /\ KeysAs(c).trio_solo = KeysOfForm(c, Forms.trio_solo)
      /\ KeysAs(c).trio_pair = KeysOfForm(c, Forms.trio_pair)
      /\ KeysAs(c).four_solo = KeysOfForm(c, Forms.four_solo)
      /\ KeysAs(c).four_pair = KeysOfForm(c, Forms.four_pair)
    BY TrioSoloKeys, TrioPairKeys, FourSoloKeys, FourPairKeys DEF KeysAs, Forms
<1>4. /\ KeysAs(c).plane_solo = KeysOfForm(c, Forms.plane_solo)
      /\ KeysAs(c).plane_pair = KeysOfForm(c, Forms.plane_pair)
    BY PlaneSoloKeys, PlanePairKeys DEF KeysAs, Forms
<1> QED BY <1>1, <1>2, <1>3, <1>4 DEF Pattern

LEMMA HandFollowsRules ==
    ASSUME NEW c \in Hands PROVE all_hits(c) = RuleHits(c)
<1> DEFINE byRule(p, k) ==
        IF p = "rocket" THEN IsRocket(c) /\ k = RANK_D
                        ELSE \E lo \in RANK_3..k : IsForm(c, Forms[p], lo, k)
<1>1. ASSUME NEW p \in Pattern, NEW k
      PROVE  k \in KeysAs(c)[p] <=> k \in Present(c) /\ byRule(p, k)
    <2>1. CASE p = "rocket"
        <3>1. KeysAs(c)[p] = match_rocket(c) BY <2>1 DEF KeysAs
        <3>2. QED BY <2>1, <3>1, RocketKeys
    <2>2. CASE p # "rocket"
        <3>1. KeysAs(c)[p] = KeysOfForm(c, Forms[p]) BY <2>2, KeysFollowRules
        <3>2. QED BY <2>2, <3>1 DEF KeysOfForm, IsKey
    <2>3. QED BY <2>1, <2>2
<1>2. RuleHits(c)
      = {hit \in [pattern : Pattern, key : Present(c)] : byRule(hit.pattern, hit.key)}
    BY DEF RuleHits
<1> HIDE DEF byRule
<1>3. all_hits(c) = UNION {{[pattern |-> p, key |-> k] : k \in KeysAs(c)[p]} : p \in Pattern}
    BY DEF all_hits
<1>4. ASSUME NEW hit \in all_hits(c) PROVE hit \in RuleHits(c)
    <2>1. PICK p \in Pattern : hit \in {[pattern |-> p, key |-> k] : k \in KeysAs(c)[p]}
        BY <1>3, <1>4
    <2>2. PICK k \in KeysAs(c)[p] : hit = [pattern |-> p, key |-> k] BY <2>1
    <2>3. QED BY <1>1, <1>2, <2>2
<1>5. ASSUME NEW hit \in RuleHits(c) PROVE hit \in all_hits(c)
    <2>1. /\ hit \in [pattern : Pattern, key : Present(c)]
          /\ byRule(hit.pattern, hit.key)
        BY <1>2, <1>5
    <2>2. PICK p \in Pattern, k \in Present(c) : hit = [pattern |-> p, key |-> k]
        BY <2>1
    <2>3. k \in KeysAs(c)[p] BY <1>1, <2>1, <2>2
    <2>4. QED BY <1>3, <2>2, <2>3
<1> QED BY <1>4, <1>5


-----------------------------------------------------------------------------
(* No cards have two readings: the body of a play is made of the ranks with *)
(* the most cards, except that a plane may carry a trio as wings.           *)

Tops(cnt, w, body) == \A r \in Rank : IF r \in body THEN cnt[r] = w ELSE cnt[r] < w

LEMMA PlainTops ==
    ASSUME NEW c \in Counts, NEW hi \in Rank, NEW lo \in RANK_3..hi,
           NEW w \in 1..4, NEW lengths, IsForm(c, Form(w, lengths, 0, 0), lo, hi)
    PROVE  /\ hi - lo + 1 \in lengths
           /\ hi > lo => hi <= RANK_A
           /\ Tops(c, w, lo..hi)
           /\ Size(c) = w * (hi - lo + 1)
<1>1. lo \in Rank /\ lo <= hi /\ lo \in Int /\ hi \in Int
    BY DEF Rank, RANK_3, RANK_D
<1>2. PICK z \in Nat : z = 0 OBVIOUS
<1>3. IsForm(c, Form(w, lengths, z, z), lo, hi) BY <1>2
<1>4. /\ hi - lo + 1 \in lengths
      /\ hi > lo => hi <= RANK_A
      /\ \A r \in lo..hi : c[r] = w
      /\ Size(c) = w * (hi - lo + 1) + z * z * (hi - lo + 1)
    <2>1. IsForm(c, Form(w, lengths, z, z), lo, hi)
          <=> /\ hi - lo + 1 \in lengths
              /\ hi > lo => hi <= RANK_A
              /\ \A r \in lo..hi : c[r] = w
              /\ Size(c) = w * (hi - lo + 1) + z * z * (hi - lo + 1)
              /\ WingsAllowed(c, z, lo, hi)
        BY <1>1, FormBySize
    <2>2. QED BY ONLY <1>3, <2>1
<1>5. Size(c) = w * (hi - lo + 1) BY <1>1, <1>2, <1>4
<1>6. Present(c) = lo..hi BY <1>1, <1>4, <1>5, SizeOfRow
<1>7. Tops(c, w, lo..hi) BY <1>4, <1>6 DEF Tops, Present
<1> QED BY <1>4, <1>5, <1>7

\* A trio or a four with wings that are fewer than itself, or pairs.
LEMMA CarrierTops ==
    ASSUME NEW c \in Counts, NEW k \in Rank, NEW w \in 3..4,
           NEW wing \in 1..2, NEW each \in 1..2, wing = 1 => each < w,
           IsKey(c, Form(w, {1}, wing, each), k)
    PROVE  Tops(c, w, {k}) /\ Size(c) = w + wing * each
<1>1. PICK v \in 1..4 : v = w OBVIOUS
<1>2. wing \in Nat /\ each \in Nat /\ wing # 0 OBVIOUS
<1>3. IsKey(c, Form(v, {1}, wing, each), k) BY <1>1
<1>4. /\ c[k] = w /\ Size(c) = w + wing * each
      /\ wing = 2 => \A r \in Rank \ {k} : c[r] \in {0, 2}
    BY <1>1, <1>2, <1>3, OneRankForm
<1>5. ASSUME NEW r \in Rank, r # k PROVE c[r] < w
    <2>1. CASE wing = 2 BY <1>4, <1>5, <2>1
    <2>2. CASE wing = 1
        <3>1. PICK rest \in Nat : Size(c) = c[r] + c[k] + rest
            BY <1>5, SizeFromTwo
        <3>2. Size(c) = w + each BY <1>4, <2>2
        <3>3. c[r] \in 0..4 BY DEF Counts
        <3>4. each < w BY <2>2
        <3>5. QED BY ONLY <1>4, <3>1, <3>2, <3>3, <3>4, w \in 3..4, each \in 1..2
    <2>3. QED BY <2>1, <2>2
<1> QED BY <1>4, <1>5 DEF Tops

LEMMA PlaneTops ==
    ASSUME NEW c \in Counts, NEW hi \in Rank, NEW lo \in RANK_3..hi,
           IsForm(c, Form(3, 2..12, 2, 1), lo, hi)
    PROVE  /\ hi > lo /\ hi <= RANK_A
           /\ Tops(c, 3, lo..hi)
           /\ Size(c) = 5 * (hi - lo + 1)
<1>1. PICK wing \in {1, 2} : wing = 2 OBVIOUS
<1>2. IsForm(c, Form(3, 2..12, wing, 1), lo, hi) BY <1>1
<1>3. /\ lo \in Rank /\ lo <= hi /\ hi - lo + 1 \in 2..12 /\ hi <= RANK_A
      /\ \A r \in lo..hi : c[r] = 3
      /\ Size(c) = (3 + wing) * (hi - lo + 1)
      /\ WingsAllowed(c, wing, lo, hi)
    BY <1>2, PlaneForm
<1>4. lo \in Int /\ hi \in Int BY DEF Rank, RANK_3
<1>5. \A r \in Rank \ (lo..hi) : c[r] \in {0, 2} BY <1>1, <1>3 DEF WingsAllowed
<1>6. Tops(c, 3, lo..hi) BY <1>3, <1>5 DEF Tops
<1>7. 3 + wing = 5 BY <1>1
<1>8. hi > lo BY <1>3, <1>4
<1> QED BY <1>3, <1>6, <1>7, <1>8, Zenon

LEMMA SameTops ==
    ASSUME NEW c \in Counts, NEW v \in 1..4, NEW w \in 1..4,
           NEW lo \in Rank, NEW hi \in Rank, NEW low \in Rank, NEW high \in Rank,
           lo <= hi, low <= high, Tops(c, v, lo..hi), Tops(c, w, low..high)
    PROVE  v = w /\ lo = low /\ hi = high
<1>1. \A r \in Rank : c[r] <= v /\ c[r] <= w /\ c[r] \in Int
    BY DEF Tops, Counts
<1>2. /\ lo \in lo..hi /\ hi \in lo..hi /\ low \in low..high /\ high \in low..high
      /\ lo \in Int /\ hi \in Int /\ low \in Int /\ high \in Int
    BY DEF Rank, RANK_3, RANK_D
<1>3. c[lo] = v /\ c[hi] = v /\ c[low] = w /\ c[high] = w BY <1>2 DEF Tops
<1>4. v = w BY <1>1, <1>3
<1>5. lo \in low..high /\ hi \in low..high /\ low \in lo..hi /\ high \in lo..hi
    <2>1. \A r \in Rank : c[r] = v => r \in lo..hi BY DEF Tops
    <2>2. \A r \in Rank : c[r] = w => r \in low..high BY DEF Tops
    <2>3. QED BY <1>3, <1>4, <2>1, <2>2
<1> QED BY <1>2, <1>4, <1>5


Rows == {"straight", "pair_straight", "plane", "plane_solo", "plane_pair"}
Plain == {"solo", "pair", "trio", "bomb", "straight", "pair_straight", "plane"}
Carriers == {"trio_solo", "trio_pair", "four_solo", "four_pair"}

Width(p) == Forms[p].width
\* The cards of a play for each rank of its body.
Share(p) == Forms[p].width + Forms[p].wing * Forms[p].each

LEMMA PlainForms ==
    ASSUME NEW p \in Plain
    PROVE  /\ Forms[p] = Form(Width(p), Forms[p].lengths, 0, 0)
           /\ Width(p) \in 1..4 /\ Share(p) = Width(p)
           /\ Forms[p].lengths \subseteq 1..12
           /\ \A n \in Forms[p].lengths : p \in Rows <=> n > 1
<1>1. CASE p = "solo" BY <1>1 DEF Forms, Form, Width, Share, Rows
<1>2. CASE p = "pair" BY <1>2 DEF Forms, Form, Width, Share, Rows
<1>3. CASE p = "trio" BY <1>3 DEF Forms, Form, Width, Share, Rows
<1>4. CASE p = "bomb" BY <1>4 DEF Forms, Form, Width, Share, Rows
<1>5. CASE p = "straight" BY <1>5 DEF Forms, Form, Width, Share, Rows
<1>6. CASE p = "pair_straight" BY <1>6 DEF Forms, Form, Width, Share, Rows
<1>7. CASE p = "plane" BY <1>7 DEF Forms, Form, Width, Share, Rows
<1> QED BY <1>1, <1>2, <1>3, <1>4, <1>5, <1>6, <1>7 DEF Plain

LEMMA CarrierForms ==
    ASSUME NEW p \in Carriers
    PROVE  \E wing \in 1..2, each \in 1..2 :
              /\ Forms[p] = Form(Width(p), {1}, wing, each)
              /\ Width(p) \in 3..4 /\ Share(p) = Width(p) + wing * each
              /\ wing = 1 => each < Width(p)
              /\ p \notin Rows
<1>1. CASE p = "trio_solo" BY <1>1 DEF Forms, Form, Width, Share, Rows
<1>2. CASE p = "trio_pair" BY <1>2 DEF Forms, Form, Width, Share, Rows
<1>3. CASE p = "four_solo" BY <1>3 DEF Forms, Form, Width, Share, Rows
<1>4. CASE p = "four_pair" BY <1>4 DEF Forms, Form, Width, Share, Rows
<1> QED BY <1>1, <1>2, <1>3, <1>4 DEF Carriers

\* A pattern is known by its width, its cards for each rank, and whether it is
\* a row.
LEMMA PatternOf ==
    ASSUME NEW p \in Pattern \ {"rocket"}, NEW q \in Pattern \ {"rocket"},
           Width(p) = Width(q), Share(p) = Share(q), p \in Rows <=> q \in Rows
    PROVE  p = q
<1>1. /\ Width("solo") = 1 /\ Share("solo") = 1
      /\ Width("pair") = 2 /\ Share("pair") = 2
      /\ Width("trio") = 3 /\ Share("trio") = 3
      /\ Width("bomb") = 4 /\ Share("bomb") = 4
      /\ Width("straight") = 1 /\ Share("straight") = 1
      /\ Width("pair_straight") = 2 /\ Share("pair_straight") = 2
      /\ Width("plane") = 3 /\ Share("plane") = 3
      /\ Width("trio_solo") = 3 /\ Share("trio_solo") = 4
      /\ Width("trio_pair") = 3 /\ Share("trio_pair") = 5
      /\ Width("plane_solo") = 3 /\ Share("plane_solo") = 4
      /\ Width("plane_pair") = 3 /\ Share("plane_pair") = 5
      /\ Width("four_solo") = 4 /\ Share("four_solo") = 6
      /\ Width("four_pair") = 4 /\ Share("four_pair") = 8
    BY DEF Forms, Form, Width, Share
<1> QED BY <1>1 DEF Pattern, Rows

LEMMA ReadingTops ==
    ASSUME NEW c \in Hands, NEW p \in Pattern \ {"rocket", "plane_solo"},
           NEW k \in KeysOfForm(c, Forms[p])
    PROVE  \E lo \in RANK_3..k : /\ Tops(c, Width(p), lo..k) /\ Width(p) \in 1..4
                                 /\ Size(c) = Share(p) * (k - lo + 1)
                                 /\ p \in Rows <=> k > lo
                                 /\ k > lo => k <= RANK_A
<1>1. c \in Counts /\ k \in Rank /\ IsKey(c, Forms[p], k)
    BY DEF Hands, KeysOfForm, Present
<1>2. k \in Int /\ k >= 3 BY <1>1 DEF Rank, RANK_3, RANK_D
<1>3. CASE p \in Plain
    <2>1. PICK lo \in RANK_3..k : IsForm(c, Forms[p], lo, k) BY <1>1 DEF IsKey
    <2>2. IsForm(c, Form(Width(p), Forms[p].lengths, 0, 0), lo, k)
        BY <1>3, <2>1, PlainForms
    <2>3. Width(p) \in 1..4 BY <1>3, PlainForms
    <2>4. /\ k - lo + 1 \in Forms[p].lengths
          /\ k > lo => k <= RANK_A
          /\ Tops(c, Width(p), lo..k)
          /\ Size(c) = Width(p) * (k - lo + 1)
        BY <1>1, <2>2, <2>3, PlainTops
    <2>5. p \in Rows <=> k - lo + 1 > 1 BY <1>3, <2>4, PlainForms
    <2>6. lo \in Int BY DEF RANK_3
    <2>7. Size(c) = Share(p) * (k - lo + 1) BY <1>3, <2>4, PlainForms
    <2>8. p \in Rows <=> k > lo BY ONLY <1>2, <2>5, <2>6
    <2>9. QED BY <2>3, <2>4, <2>7, <2>8
<1>4. CASE p \in Carriers
    <2>1. PICK wing \in 1..2, each \in 1..2 :
              /\ Forms[p] = Form(Width(p), {1}, wing, each)
              /\ Width(p) \in 3..4 /\ Share(p) = Width(p) + wing * each
              /\ wing = 1 => each < Width(p)
              /\ p \notin Rows
        BY <1>4, CarrierForms
    <2>2. IsKey(c, Form(Width(p), {1}, wing, each), k) BY <1>1, <2>1
    <2>3. Tops(c, Width(p), {k}) /\ Size(c) = Width(p) + wing * each
        BY ONLY <1>1, <2>1, <2>2, CarrierTops, wing \in 1..2, each \in 1..2
    <2>4. k..k = {k} /\ k \in RANK_3..k /\ ~(k > k) /\ k - k + 1 = 1
        BY <1>2 DEF RANK_3
    <2>5. PICK share \in Int : share = Share(p) /\ Size(c) = share BY <2>1, <2>3
    <2>6. Size(c) = Share(p) * (k - k + 1) BY <2>4, <2>5
    <2>7. Width(p) \in 1..4 BY <2>1
    <2>8. QED BY <2>1, <2>3, <2>4, <2>6, <2>7
<1>5. CASE p = "plane_pair"
    <2>1. /\ Forms[p] = Form(3, 2..12, 2, 1) /\ Width(p) = 3 /\ Share(p) = 5
          /\ p \in Rows
        BY <1>5 DEF Forms, Form, Width, Share, Rows
    <2>2. PICK lo \in RANK_3..k : IsForm(c, Forms[p], lo, k) BY <1>1 DEF IsKey
    <2>3. /\ k > lo /\ k <= RANK_A
          /\ Tops(c, 3, lo..k) /\ Size(c) = 5 * (k - lo + 1)
        BY <1>1, <2>1, <2>2, PlaneTops
    <2>4. QED BY <2>1, <2>3
<1>6. p \in Plain \cup Carriers \cup {"plane_pair"}
    BY DEF Pattern, Plain, Carriers
<1> QED BY <1>3, <1>4, <1>5, <1>6


LEMMA PlaneSoloReading ==
    ASSUME NEW c \in Hands, NEW k \in KeysOfForm(c, Forms["plane_solo"])
    PROVE  \E lo \in RANK_3..k : /\ k > lo /\ k <= RANK_A
                                 /\ \A r \in lo..k : c[r] = 3
                                 /\ Size(c) = 4 * (k - lo + 1)
                                 /\ PlaneWingsFit(c, lo, k)
<1>1. c \in Counts /\ k \in Rank /\ k \in Int /\ IsKey(c, Form(3, 2..12, 1, 1), k)
    BY DEF Hands, KeysOfForm, Present, Forms, Rank, RANK_3, RANK_D
<1>2. PICK wing \in {1, 2} : wing = 1 OBVIOUS
<1>3. PICK lo \in RANK_3..k : IsForm(c, Form(3, 2..12, wing, 1), lo, k)
    BY <1>1, <1>2 DEF IsKey
<1>4. /\ lo \in Rank /\ lo <= k /\ k - lo + 1 \in 2..12 /\ k <= RANK_A
      /\ \A r \in lo..k : c[r] = 3
      /\ Size(c) = (3 + wing) * (k - lo + 1)
      /\ WingsAllowed(c, wing, lo, k)
    BY <1>1, <1>3, PlaneForm
<1>5. lo \in Int BY DEF RANK_3
<1>6. k > lo BY <1>1, <1>4, <1>5
<1>7. PlaneWingsFit(c, lo, k) BY <1>2, <1>4, <1>6 DEF WingsAllowed
<1>8. 3 + wing = 4 BY <1>2
<1> QED BY <1>4, <1>6, <1>7, <1>8, Zenon

LEMMA Cancel ==
    ASSUME NEW a \in 1..8, NEW b \in 1..8, NEW n \in 1..15, a * n = b * n
    PROVE  a = b
OBVIOUS

LEMMA ShareType ==
    ASSUME NEW p \in Pattern \ {"rocket"} PROVE Share(p) \in 1..8
<1>1. /\ Share("solo") = 1 /\ Share("pair") = 2 /\ Share("trio") = 3
      /\ Share("bomb") = 4 /\ Share("straight") = 1 /\ Share("pair_straight") = 2
      /\ Share("plane") = 3 /\ Share("trio_solo") = 4 /\ Share("trio_pair") = 5
      /\ Share("plane_solo") = 4 /\ Share("plane_pair") = 5
      /\ Share("four_solo") = 6 /\ Share("four_pair") = 8
    BY DEF Forms, Form, Share
<1> QED BY <1>1 DEF Pattern

\* The body of the plane would be the body of the other play, and the sizes
\* tell the two apart.
LEMMA PlaneSoloAlone ==
    ASSUME NEW c \in Hands, NEW k \in KeysOfForm(c, Forms["plane_solo"]),
           NEW p \in Pattern \ {"rocket", "plane_solo"}, NEW h \in KeysOfForm(c, Forms[p])
    PROVE  FALSE
<1>1. c \in Counts /\ k \in Rank /\ h \in Rank /\ k \in Int /\ h \in Int
    BY DEF Hands, KeysOfForm, Present, Rank, RANK_3, RANK_D
<1>2. PICK low \in RANK_3..k : /\ k > low /\ k <= RANK_A
                               /\ \A r \in low..k : c[r] = 3
                               /\ Size(c) = 4 * (k - low + 1)
                               /\ PlaneWingsFit(c, low, k)
    BY PlaneSoloReading
<1>3. PICK lo \in RANK_3..h : /\ Tops(c, Width(p), lo..h) /\ Width(p) \in 1..4
                              /\ Size(c) = Share(p) * (h - lo + 1)
                              /\ p \in Rows <=> h > lo
                              /\ h > lo => h <= RANK_A
    BY ReadingTops
<1>4. /\ low \in Int /\ lo \in Int /\ low >= 3 /\ lo >= 3 /\ lo <= h
      /\ low \in Rank /\ lo \in Rank
    BY <1>1 DEF Rank, RANK_3, RANK_D
<1>5. Width(p) = 3 /\ low \in lo..h /\ k \in lo..h
    <2>1. c[low] = 3 /\ c[k] = 3 BY <1>1, <1>2, <1>4
    <2>2. c[h] = Width(p) BY <1>1, <1>3, <1>4 DEF Tops
    <2>3. c[h] < 4 BY <1>1, <1>2 DEF PlaneWingsFit
    <2>4. c[k] <= Width(p) BY <1>1, <1>3, <2>1 DEF Tops
    <2>5. Width(p) = 3 BY <1>3, <2>1, <2>2, <2>3, <2>4
    <2>6. \A r \in Rank : c[r] = 3 => r \in lo..h BY <1>3, <2>5 DEF Tops
    <2>7. QED BY <1>1, <1>4, <2>1, <2>5, <2>6
<1>6. h > lo /\ h <= 14 BY <1>1, <1>2, <1>3, <1>4, <1>5 DEF RANK_A
<1>7. \A r \in lo..h : c[r] = 3 /\ r \in RANK_3..RANK_A
    <2>1. \A r \in lo..h : r \in Rank /\ r \in RANK_3..RANK_A
        BY <1>1, <1>4, <1>6 DEF Rank, RANK_3, RANK_A, RANK_D
    <2>2. QED BY <1>3, <1>5, <2>1 DEF Tops
<1>8. ~(k < h)
    <2>1. SUFFICES ASSUME k < h PROVE FALSE OBVIOUS
    <2>2. k + 1 \in lo..h BY <1>1, <1>4, <1>5, <2>1
    <2>3. c[k + 1] = 3 /\ k + 1 \in RANK_3..RANK_A BY <1>7, <2>2
    <2>4. c[k + 1] < 3 BY <1>2, <2>3 DEF PlaneWingsFit
    <2>5. QED BY <2>3, <2>4
<1>9. ~(lo < low)
    <2>1. SUFFICES ASSUME lo < low PROVE FALSE OBVIOUS
    <2>2. low - 1 \in lo..h BY <1>1, <1>4, <1>5, <2>1
    <2>3. c[low - 1] = 3 /\ low - 1 \in RANK_3..RANK_A BY <1>7, <2>2
    <2>4. c[low - 1] < 3 BY <1>2, <2>3 DEF PlaneWingsFit
    <2>5. QED BY <2>3, <2>4
<1>10. k = h /\ low = lo BY <1>1, <1>4, <1>5, <1>8, <1>9
<1>11. Share(p) = 4
    <2>1. PICK n \in 1..15 : n = h - lo + 1 BY <1>1, <1>4, <1>6
    <2>2. Share(p) * n = 4 * n BY <1>2, <1>3, <1>10, <2>1
    <2>3. 4 \in 1..8 /\ Share(p) \in 1..8 BY ShareType
    <2>4. QED BY ONLY <2>2, <2>3, Cancel, n \in 1..15
<1>12. /\ Width("plane_solo") = 3 /\ Share("plane_solo") = 4
       /\ "plane_solo" \in Rows /\ "plane_solo" \in Pattern
    BY DEF Forms, Form, Width, Share, Rows, Pattern
<1>13. p = "plane_solo" BY <1>3, <1>5, <1>6, <1>11, <1>12, PatternOf
<1> QED BY <1>13

LEMMA RocketAlone ==
    ASSUME NEW c \in Hands, IsRocket(c),
           NEW p \in Pattern \ {"rocket"}, NEW h \in KeysOfForm(c, Forms[p])
    PROVE  FALSE
<1> USE DEF RANK_3, RANK_A, RANK_X, RANK_D
<1>1. /\ h \in {16, 17} /\ h \in Rank /\ c[h] <= 1 /\ c[h] \in Int
      /\ c[16] # 0 /\ c[17] # 0 /\ 16 \in Rank /\ 17 \in Rank
    BY DEF Hands, Counts, IsRocket, KeysOfForm, Present, Rank
<1>2. p # "plane_solo" BY <1>1, PlaneSoloReading
<1>3. PICK lo \in RANK_3..h : /\ Tops(c, Width(p), lo..h) /\ Width(p) \in 1..4
                              /\ h > lo => h <= RANK_A
    BY <1>2, ReadingTops
<1>4. lo = h BY <1>1, <1>3
<1>5. Width(p) = 1 BY <1>1, <1>3, <1>4 DEF Tops
<1>6. \A r \in Rank \ {h} : c[r] < 1 BY <1>1, <1>3, <1>4, <1>5 DEF Tops
<1>7. c[16] \in Nat /\ c[17] \in Nat BY <1>1 DEF Hands, Counts
<1> QED BY <1>1, <1>6, <1>7

LEMMA OneKey ==
    ASSUME NEW c \in Hands,
           NEW p \in Pattern \ {"rocket"}, NEW h \in KeysOfForm(c, Forms[p]),
           NEW q \in Pattern \ {"rocket"}, NEW k \in KeysOfForm(c, Forms[q])
    PROVE  p = q /\ h = k
<1>1. CASE p = "plane_solo" /\ q = "plane_solo"
    <2>1. Forms["plane_solo"] = Form(3, 2..12, 1, 1) BY DEF Forms
    <2>2. QED BY <1>1, <2>1, PlaneSoloKeys
<1>2. CASE p = "plane_solo" /\ q # "plane_solo" BY <1>2, PlaneSoloAlone
<1>3. CASE p # "plane_solo" /\ q = "plane_solo" BY <1>3, PlaneSoloAlone
<1>4. CASE p # "plane_solo" /\ q # "plane_solo"
    <2>1. PICK lo \in RANK_3..h : /\ Tops(c, Width(p), lo..h) /\ Width(p) \in 1..4
                                  /\ Size(c) = Share(p) * (h - lo + 1)
                                  /\ p \in Rows <=> h > lo
        BY <1>4, ReadingTops
    <2>2. PICK low \in RANK_3..k : /\ Tops(c, Width(q), low..k) /\ Width(q) \in 1..4
                                   /\ Size(c) = Share(q) * (k - low + 1)
                                   /\ q \in Rows <=> k > low
        BY <1>4, ReadingTops
    <2>3. /\ c \in Counts /\ h \in Rank /\ k \in Rank /\ lo \in Rank /\ low \in Rank
          /\ lo <= h /\ low <= k
        BY DEF Hands, KeysOfForm, Present, Rank, RANK_3, RANK_D
    <2>4. Width(p) = Width(q) /\ lo = low /\ h = k BY ONLY <2>1, <2>2, <2>3, SameTops
    <2>5. PICK n \in 1..15 : n = h - lo + 1 BY <2>3 DEF Rank, RANK_3, RANK_D
    <2>6. Share(p) * n = Share(q) * n BY <2>1, <2>2, <2>4, <2>5
    <2>7. Share(p) \in 1..8 /\ Share(q) \in 1..8 BY ShareType
    <2>8. Share(p) = Share(q) BY ONLY <2>6, <2>7, Cancel, n \in 1..15
    <2>9. p = q BY <2>1, <2>2, <2>4, <2>8, PatternOf
    <2>10. QED BY <2>4, <2>9
<1> QED BY <1>1, <1>2, <1>3, <1>4


LEMMA OneHit ==
    ASSUME NEW c \in Hands, NEW hit \in all_hits(c), NEW other \in all_hits(c)
    PROVE  hit = other
<1>1. ASSUME NEW x \in all_hits(c)
      PROVE  \E p \in Pattern : \E k \in Present(c) :
                /\ x = [pattern |-> p, key |-> k]
                /\ p = "rocket" => IsRocket(c) /\ k = RANK_D
                /\ p # "rocket" => k \in KeysOfForm(c, Forms[p])
    <2>1. PICK p \in Pattern : x \in {[pattern |-> p, key |-> k] : k \in KeysAs(c)[p]}
        BY <1>1 DEF all_hits
    <2>2. PICK k \in KeysAs(c)[p] : x = [pattern |-> p, key |-> k] BY <2>1
    <2>3. CASE p = "rocket"
        <3>1. KeysAs(c)[p] = match_rocket(c) BY <2>3 DEF KeysAs
        <3>2. QED BY <2>2, <2>3, <3>1, RocketKeys
    <2>4. CASE p # "rocket"
        <3>1. KeysAs(c)[p] = KeysOfForm(c, Forms[p]) BY <2>4, KeysFollowRules
        <3>2. QED BY <2>2, <2>4, <3>1 DEF KeysOfForm
    <2>5. QED BY <2>3, <2>4
<1>2. PICK p \in Pattern : \E k \in Present(c) :
                /\ hit = [pattern |-> p, key |-> k]
                /\ p = "rocket" => IsRocket(c) /\ k = RANK_D
                /\ p # "rocket" => k \in KeysOfForm(c, Forms[p])
    BY <1>1
<1>3. PICK k \in Present(c) : /\ hit = [pattern |-> p, key |-> k]
                              /\ p = "rocket" => IsRocket(c) /\ k = RANK_D
                              /\ p # "rocket" => k \in KeysOfForm(c, Forms[p])
    BY <1>2
<1>4. PICK q \in Pattern : \E h \in Present(c) :
                /\ other = [pattern |-> q, key |-> h]
                /\ q = "rocket" => IsRocket(c) /\ h = RANK_D
                /\ q # "rocket" => h \in KeysOfForm(c, Forms[q])
    BY <1>1
<1>5. PICK h \in Present(c) : /\ other = [pattern |-> q, key |-> h]
                              /\ q = "rocket" => IsRocket(c) /\ h = RANK_D
                              /\ q # "rocket" => h \in KeysOfForm(c, Forms[q])
    BY <1>4
<1>6. CASE p = "rocket" /\ q = "rocket" BY <1>3, <1>5, <1>6
<1>7. CASE p = "rocket" /\ q # "rocket" BY <1>3, <1>5, <1>7, RocketAlone
<1>8. CASE p # "rocket" /\ q = "rocket" BY <1>3, <1>5, <1>8, RocketAlone
<1>9. CASE p # "rocket" /\ q # "rocket"
    <2>1. p = q /\ k = h BY <1>3, <1>5, <1>9, OneKey
    <2>2. QED BY <1>3, <1>5, <2>1
<1> QED BY <1>6, <1>7, <1>8, <1>9

LEMMA HandHasOneReading ==
    ASSUME NEW c \in Hands PROVE Cardinality(all_hits(c)) <= 1
<1>1. CASE all_hits(c) = {} BY <1>1, FS_EmptySet
<1>2. CASE all_hits(c) # {}
    <2>1. PICK hit : hit \in all_hits(c) BY <1>2
    <2>2. all_hits(c) = {hit} BY <2>1, OneHit
    <2>3. Cardinality({hit}) = 1 BY FS_Singleton
    <2>4. QED BY <2>2, <2>3
<1> QED BY <1>1, <1>2

\* Whatever cards of the deck a player holds or plays, their counts are a hand.
LEMMA DeckCounts ==
    ASSUME NEW cards \in SUBSET Card
    PROVE  counts_of(cards) \in Hands
<1> DEFINE of(r) == {c \in cards : rank_of(c) = r}
<1>1. ASSUME NEW r \in Rank, NEW n \in Nat, NEW S, IsFiniteSet(S), Cardinality(S) = n,
             \A c \in Card : rank_of(c) = r => c \in S
      PROVE  Cardinality(of(r)) \in 0..n
    <2>1. of(r) \in SUBSET S BY <1>1
    <2>2. IsFiniteSet(of(r)) /\ Cardinality(of(r)) <= n BY ONLY <1>1, <2>1, FS_Subset
    <2>3. Cardinality(of(r)) \in Nat BY ONLY <2>2, FS_CardinalityType
    <2>4. QED BY ONLY <2>2, <2>3, n \in Nat
<1>2. ASSUME NEW r \in NumberRank PROVE Cardinality(of(r)) \in 0..4
    <2> DEFINE first == 4 * (r - 3)
    <2>1. first \in Int /\ r \in Rank BY DEF NumberRank, Rank, RANK_3, RANK_2, RANK_D
    <2>2. \A c \in Card : rank_of(c) = r => c \in first..(first + 3)
        BY DEF Card, rank_of, NumberRank, RANK_3, RANK_2, RANK_X, RANK_D
    <2> HIDE DEF first, of
    <2>3. IsFiniteSet(first..(first + 3)) /\ Cardinality(first..(first + 3)) = 4
        BY <2>1, FS_Interval
    <2>4. 4 \in Nat OBVIOUS
    <2>5. QED BY ONLY <1>1, <2>1, <2>2, <2>3, <2>4
<1>3. ASSUME NEW r \in {RANK_X, RANK_D} PROVE Cardinality(of(r)) \in 0..1
    <2> DEFINE joker == IF r = RANK_X THEN 52 ELSE 53
    <2>1. r \in Rank BY DEF Rank, RANK_3, RANK_X, RANK_D
    <2>2. \A c \in Card : rank_of(c) = r => c \in {joker}
        BY DEF Card, rank_of, RANK_X, RANK_D
    <2>3. IsFiniteSet({joker}) /\ Cardinality({joker}) = 1 BY FS_Singleton
    <2>4. 1 \in Nat OBVIOUS
    <2> HIDE DEF joker, of
    <2>5. QED BY ONLY <1>1, <2>1, <2>2, <2>3, <2>4
<1> HIDE DEF of
<1>4. \A r \in Rank : r \in NumberRank \/ r \in {RANK_X, RANK_D}
    BY DEF Rank, NumberRank, RANK_3, RANK_2, RANK_X, RANK_D
<1>5. \A r \in Rank : Cardinality(of(r)) \in 0..4 BY <1>2, <1>3, <1>4
<1>6. RANK_X \in Rank /\ RANK_D \in Rank BY DEF Rank, RANK_3, RANK_X, RANK_D
<1>7. counts_of(cards) = [r \in Rank |-> Cardinality(of(r))] BY DEF counts_of, of
<1>8. counts_of(cards) \in Counts BY <1>5, <1>7 DEF Counts
<1>9. counts_of(cards)[RANK_X] <= 1 /\ counts_of(cards)[RANK_D] <= 1
    BY <1>3, <1>6, <1>7
<1> QED BY <1>8, <1>9 DEF Hands

\* The server's side of it: on_play calls the matchers with cards of the deck. It
\* gets the play the rules see in them, if any, and never has to ask which.
THEOREM DeckFollowsRules ==
    \A cards \in SUBSET Card : /\ all_hits(counts_of(cards)) = RuleHits(counts_of(cards))
                               /\ Cardinality(all_hits(counts_of(cards))) <= 1
BY DeckCounts, HandFollowsRules, HandHasOneReading


-----------------------------------------------------------------------------
(* The swipe *)

\* touched and selected count cards of one deck.
TypeOK ==
    /\ ranks \in SUBSET Rank
    /\ touched \in Hands
    /\ selected \in Hands

LEMMA NoneIsHand == None \in Hands
BY DEF None, Hands, Counts, Rank, RANK_3, RANK_X, RANK_D

LEMMA KeepIsHand ==
    ASSUME NEW c \in Hands, NEW n \in 1..2 PROVE keepNPerRank(c, n) \in Hands
<1>1. RANK_X \in Rank /\ RANK_D \in Rank BY DEF Rank, RANK_3, RANK_X, RANK_D
<1>2. \A r \in Rank : c[r] \in 0..4 BY DEF Hands, Counts
<1>3. c[RANK_X] <= 1 /\ c[RANK_D] <= 1 BY DEF Hands
<1>4. keepNPerRank(c, n) \in Counts BY <1>2 DEF keepNPerRank, Counts
<1>5. \A r \in Rank : keepNPerRank(c, n)[r] <= c[r] BY <1>2 DEF keepNPerRank
<1>6. \A r \in Rank : keepNPerRank(c, n)[r] \in Int BY <1>2 DEF keepNPerRank
<1> QED BY <1>1, <1>2, <1>3, <1>4, <1>5, <1>6 DEF Hands

LEMMA SwipeType == Spec => []TypeOK
<1>1. Init => TypeOK BY NoneIsHand, RankSetsAssumption DEF Init, TypeOK
<1>2. TypeOK /\ [Next]_vars => TypeOK'
    <2> SUFFICES ASSUME TypeOK, [Next]_vars PROVE TypeOK'
        OBVIOUS
    <2>1. CASE SwipeEnd
        <3>1. keepSwipeChain(touched) \in Hands BY KeepIsHand DEF keepSwipeChain, TypeOK
        <3>2. QED BY <2>1, <3>1, NoneIsHand DEF SwipeEnd, TypeOK
    <2>2. ASSUME NEW r \in ranks, Touch(r) PROVE TypeOK'
        <3>1. r \in Rank BY DEF TypeOK
        <3>2. touched \in Counts /\ touched[r] \in 0..4 BY <3>1 DEF TypeOK, Hands, Counts
        <3>3. touched' = [touched EXCEPT ![r] = touched[r] + 1] BY <2>2 DEF Touch
        <3>4. touched[r] + 1 \in 0..4 BY <2>2, <3>2 DEF Touch
        <3>5. touched' \in Counts BY <3>1, <3>2, <3>3, <3>4 DEF Counts
        <3>6. touched'[RANK_X] <= 1 /\ touched'[RANK_D] <= 1
            <4>1. RANK_X \in Rank \ NumberRank /\ RANK_D \in Rank \ NumberRank
                BY DEF Rank, NumberRank, RANK_3, RANK_2, RANK_X, RANK_D
            <4>2. \A j \in Rank : touched'[j] = IF j = r THEN touched[r] + 1 ELSE touched[j]
                BY <3>2, <3>3 DEF Counts
            <4>3. touched[RANK_X] <= 1 /\ touched[RANK_D] <= 1 BY DEF TypeOK, Hands
            <4>4. r \notin NumberRank => touched[r] = 0 BY <2>2, <3>2 DEF Touch
            <4>5. QED BY <4>1, <4>2, <4>3, <4>4
        <3>7. QED BY <2>2, <3>5, <3>6 DEF Touch, TypeOK, Hands
    <2>3. CASE UNCHANGED vars BY <2>3 DEF vars, TypeOK
    <2> QED BY <2>1, <2>2, <2>3 DEF Next
<1> QED BY <1>1, <1>2, PTL DEF Spec

\* For any cards a swipe may touch, whatever the ranks and however many: the
\* matchers that the server and the browser share find the plays of the rules.
THEOREM MatchersAreRules == Spec => []MatchersFollowRules
<1>1. TypeOK => MatchersFollowRules
    BY HandFollowsRules DEF TypeOK, MatchersFollowRules
<1> QED BY <1>1, SwipeType, PTL

\* No cards ever make two plays, so a play without a pattern is understood.
THEOREM ReadingsAreOne == Spec => []OneReading
<1>1. TypeOK => OneReading BY HandHasOneReading DEF TypeOK, OneReading
<1> QED BY <1>1, SwipeType, PTL


\* Ranks in a row that are cut down to the same width form a chain.
LEMMA KeptRow ==
    ASSUME NEW c \in Hands, c # None, NEW lo, NEW hi, NEW w \in 1..2,
           lo = Min(Present(c)), hi = Max(Present(c)), hi <= RANK_A,
           NEW shortest \in 2..12, hi - lo + 1 >= shortest, Spans(c, lo, hi, w)
    PROVE  /\ Present(keepNPerRank(c, w)) = Present(c)
           /\ Chain(keepNPerRank(c, w), w, shortest) # {}
<1> DEFINE kept == keepNPerRank(c, w)
<1>1. \A r \in Rank : c[r] \in 0..4 BY DEF Hands, Counts
<1>2. Present(c) \in SUBSET Rank BY DEF Present
<1>3. Present(c) # {}
    <2>1. PICK r \in Rank : c[r] # 0 BY DEF Hands, Counts, None
    <2>2. QED BY <2>1 DEF Present
<1>4. lo \in Present(c) /\ hi \in Present(c) /\ \A r \in Present(c) : lo <= r /\ r <= hi
    BY <1>2, <1>3, Extremes
<1>5. lo \in Rank /\ hi \in Rank /\ lo <= hi /\ lo \in Int /\ hi \in Int /\ lo >= 3
    BY <1>2, <1>4 DEF Rank, RANK_3, RANK_D
<1>6. \A r \in lo..hi : r \in Rank /\ c[r] >= w
    BY <1>5 DEF Spans, Rank, RANK_3, RANK_D
<1>7. Present(c) = lo..hi
    <2>1. \A r \in lo..hi : r \in Present(c) BY <1>1, <1>6 DEF Present
    <2>2. \A r \in Present(c) : r \in lo..hi
        BY <1>2, <1>4, <1>5 DEF Rank, RANK_3, RANK_D
    <2>3. QED BY <2>1, <2>2
<1>8. \A r \in Rank : kept[r] = IF r \in lo..hi THEN w ELSE 0
    <2>1. \A r \in lo..hi : kept[r] = w BY <1>1, <1>6 DEF keepNPerRank
    <2>2. \A r \in Rank \ (lo..hi) : c[r] = 0 BY <1>7 DEF Present
    <2>3. \A r \in Rank \ (lo..hi) : kept[r] = 0 BY <2>2 DEF keepNPerRank
    <2>4. QED BY <2>1, <2>3
<1>9. Present(kept) = lo..hi BY <1>6, <1>8 DEF Present
<1> HIDE DEF kept
<1>10. Cardinality(lo..hi) >= shortest BY <1>5, RowFinite
<1>11. Min(lo..hi) = lo /\ Max(lo..hi) = hi BY <1>7
<1>12. consecutive_3_to_a(Present(kept))
    <2>1. \A r \in lo..hi : r \in RANK_3..RANK_A BY <1>5 DEF RANK_3, RANK_A
    <2>2. lo..hi # {} BY <1>3, <1>7
    <2>3. QED BY <1>9, <1>11, <2>1, <2>2 DEF consecutive_3_to_a
<1>13. \A r \in Present(kept) : kept[r] = w BY <1>6, <1>8, <1>9
<1>14. Chain(kept, w, shortest) # {} BY <1>9, <1>10, <1>12, <1>13 DEF Chain
<1> QED BY <1>7, <1>9, <1>14 DEF kept

LEMMA ChainIsLegal ==
    ASSUME NEW c, match_straight(c) # {} \/ match_pair_straight(c) # {}
    PROVE  isLegalPlay(c)
<1>1. ASSUME NEW p \in Pattern, KeysAs(c)[p] # {} PROVE isLegalPlay(c)
    <2>1. PICK k : k \in KeysAs(c)[p] BY <1>1
    <2>2. [pattern |-> p, key |-> k] \in all_hits(c) BY <2>1 DEF all_hits
    <2>3. QED BY <2>2 DEF isLegalPlay
<1>2. /\ "straight" \in Pattern /\ KeysAs(c)["straight"] = match_straight(c)
      /\ "pair_straight" \in Pattern /\ KeysAs(c)["pair_straight"] = match_pair_straight(c)
    BY DEF Pattern, KeysAs
<1> QED BY <1>1, <1>2

LEMMA KeptIsPlay ==
    ASSUME NEW c \in Hands, keepSwipeChain(c) # c
    PROVE  isLegalPlay(keepSwipeChain(c)) /\ Present(keepSwipeChain(c)) = Present(c)
<1> DEFINE lo == Min(Present(c))
           hi == Max(Present(c))
<1>1. c # None /\ hi <= RANK_A
    <2>1. c # None /\ ~(hi > RANK_A) BY DEF keepSwipeChain
    <2>2. Present(c) \in SUBSET Rank BY DEF Present
    <2>3. Present(c) # {}
        <3>1. PICK r \in Rank : c[r] # 0 BY <2>1 DEF Hands, Counts, None
        <3>2. QED BY <3>1 DEF Present
    <2>4. hi \in Rank BY <2>2, <2>3, Extremes
    <2>5. hi \in Int BY <2>4 DEF Rank, RANK_3
    <2>6. QED BY <2>1, <2>5 DEF RANK_A
<1>2. CASE PairOk(c, lo, hi)
    <2>1. keepSwipeChain(c) = keepNPerRank(c, 2) BY <1>2 DEF keepSwipeChain
    <2>2. hi - lo + 1 >= 3 /\ Spans(c, lo, hi, 2) BY <1>2 DEF PairOk
    <2>3. /\ Present(keepNPerRank(c, 2)) = Present(c)
          /\ Chain(keepNPerRank(c, 2), 2, 3) # {}
        <3>1. 2 \in 1..2 /\ 3 \in 2..12 OBVIOUS
        <3>2. PICK first, last : /\ first = Min(Present(c)) /\ last = Max(Present(c))
                                 /\ last <= RANK_A
                                 /\ last - first + 1 >= 3 /\ Spans(c, first, last, 2)
            BY <1>1, <2>2
        <3>3. QED BY ONLY c \in Hands, <1>1, <3>1, <3>2, KeptRow
    <2>4. QED BY <2>1, <2>3, ChainIsLegal DEF match_pair_straight
<1>3. CASE ~PairOk(c, lo, hi) /\ SoloOk(c, lo, hi)
    <2>1. keepSwipeChain(c) = keepNPerRank(c, 1) BY <1>3 DEF keepSwipeChain
    <2>2. hi - lo + 1 >= 5 /\ Spans(c, lo, hi, 1) BY <1>3 DEF SoloOk
    <2>3. /\ Present(keepNPerRank(c, 1)) = Present(c)
          /\ Chain(keepNPerRank(c, 1), 1, 5) # {}
        <3>1. 1 \in 1..2 /\ 5 \in 2..12 OBVIOUS
        <3>2. PICK first, last : /\ first = Min(Present(c)) /\ last = Max(Present(c))
                                 /\ last <= RANK_A
                                 /\ last - first + 1 >= 5 /\ Spans(c, first, last, 1)
            BY <1>1, <2>2
        <3>3. QED BY ONLY c \in Hands, <1>1, <3>1, <3>2, KeptRow
    <2>4. QED BY <2>1, <2>3, ChainIsLegal DEF match_straight
<1>4. PairOk(c, lo, hi) \/ SoloOk(c, lo, hi) BY DEF keepSwipeChain
<1> QED BY <1>2, <1>3, <1>4

\* A swipe that drops cards leaves a legal play with every rank it touched.
THEOREM SwipesLeavePlays == Spec => SwipeLeavesPlay
<1>1. TypeOK /\ SwipeEnd
      => \/ selected' = touched
         \/ isLegalPlay(selected') /\ Present(selected') = Present(touched)
    BY KeptIsPlay DEF TypeOK, SwipeEnd
<1>2. TypeOK /\ [Next]_vars
      => [SwipeEnd => \/ selected' = touched
                      \/ isLegalPlay(selected') /\ Present(selected') = Present(touched)]_vars
    BY <1>1
<1> QED BY <1>2, SwipeType, PTL DEF Spec, SwipeLeavesPlay

-----------------------------------------------------------------------------
(* The order of plays *)

Play == [pattern : Pattern, key : Rank, size : Nat]

\* beats is a strict order: no play beats itself, and one that beats a play beats
\* whatever that play beat, so the plays of a round only ever grow.
THEOREM BeatsIsStrict ==
    /\ \A a \in Play : ~beats(a, a)
    /\ \A a, b, c \in Play : beats(a, b) /\ beats(b, c) => beats(a, c)
<1>1. ASSUME NEW a \in Play PROVE ~beats(a, a)
    <2>1. a.key \in Int BY DEF Play, Rank, RANK_3
    <2>2. ~(a.key > a.key) BY <2>1
    <2>3. QED BY <2>2 DEF beats
<1>2. ASSUME NEW a \in Play, NEW b \in Play, NEW c \in Play, beats(a, b), beats(b, c)
      PROVE  beats(a, c)
    <2>1. a.key \in Int /\ b.key \in Int /\ c.key \in Int BY DEF Play, Rank, RANK_3
    <2>2. c.key > b.key /\ b.key > a.key => c.key > a.key BY <2>1
    <2>3. QED BY <1>2, <2>2 DEF beats
<1> QED BY <1>1, <1>2

=============================================================================
