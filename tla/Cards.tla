------------------------------- MODULE Cards -------------------------------
(***************************************************************************)
(* The card rules of cards.cpp: which cards form a play, under which       *)
(* pattern and with which comparison key, and which play beats which.  The *)
(* browser carries a copy of the matchers, function by function, in        *)
(* cards.js.                                                               *)
(*                                                                         *)
(* A matcher looks only at how many cards of each rank there are, so here  *)
(* it takes those counts, and yields the set of keys it finds: empty, or   *)
(* one key.                                                                *)
(***************************************************************************)
EXTENDS Integers, FiniteSets, FiniteSetsExt, Functions

RANK_3 == 3
RANK_A == 14
RANK_2 == 15
RANK_X == 16        \* the black joker
RANK_D == 17        \* the red joker
Rank == RANK_3..RANK_D
NumberRank == RANK_3..RANK_2

Card == 0..53       \* 52 and 53 are the jokers

rank_of(c) == IF c = 52 THEN RANK_X
              ELSE IF c = 53 THEN RANK_D
              ELSE (c \div 4) + 3

Counts == [Rank -> 0..4]
counts_of(cards) == [r \in Rank |-> Cardinality({c \in cards : rank_of(c) = r})]

Size(cnt) == SumFunction(cnt)
Present(cnt) == {r \in Rank : cnt[r] # 0}
With(cnt, n) == {r \in NumberRank : cnt[r] = n}
contains_joker(cnt) == cnt[RANK_X] # 0 \/ cnt[RANK_D] # 0
contains_four(cnt) == With(cnt, 4) # {}

-----------------------------------------------------------------------------
(* The matchers *)

\* The ace is taken for any other number.
consecutive_3_to_a_UpTo2(ranks) ==
    /\ ranks # {} /\ ranks \subseteq NumberRank
    /\ ranks = Min(ranks)..Max(ranks)

consecutive_3_to_a(ranks) ==
    /\ ranks # {} /\ ranks \subseteq RANK_3..RANK_A
    /\ ranks = Min(ranks)..Max(ranks)

match_solo(cnt) == IF Size(cnt) = 1 THEN Present(cnt) ELSE {}

match_rocket(cnt) ==
    IF Size(cnt) = 2 /\ cnt[RANK_X] = 1 /\ cnt[RANK_D] = 1 THEN {RANK_D} ELSE {}

match_pair(cnt) == IF Size(cnt) = 2 THEN With(cnt, 2) ELSE {}
match_trio(cnt) == IF Size(cnt) = 3 THEN With(cnt, 3) ELSE {}
match_bomb(cnt) == IF Size(cnt) = 4 THEN With(cnt, 4) ELSE {}

match_trio_solo(cnt) ==
    IF Size(cnt) = 4 /\ ~contains_joker(cnt) THEN With(cnt, 3) ELSE {}

match_trio_pair(cnt) ==
    IF Size(cnt) = 5 /\ With(cnt, 2) # {} THEN With(cnt, 3) ELSE {}

\* match_straight, match_pair_straight and match_plane: nothing but ranks of
\* the same width, in a row.
Chain(cnt, width, shortest) ==
    IF /\ \A r \in Present(cnt) : cnt[r] = width
       /\ Cardinality(Present(cnt)) >= shortest
       /\ consecutive_3_to_a(Present(cnt))
    THEN {Max(Present(cnt))} ELSE {}

match_straight(cnt) == Chain(cnt, 1, 5)
match_pair_straight(cnt) == Chain(cnt, 2, 3)
match_plane(cnt) == Chain(cnt, 3, 2)

match_four_solo(cnt) ==
    IF Size(cnt) = 6 /\ ~contains_joker(cnt) THEN With(cnt, 4) ELSE {}

match_four_pair(cnt) ==
    IF Size(cnt) = 8 /\ Cardinality(With(cnt, 2)) = 2 THEN With(cnt, 4) ELSE {}

\* The windows of n ranks in a row, three cards each: their highest ranks.
Bodies(cnt, n) ==
    {hi \in RANK_3 + n - 1..RANK_A : \A r \in hi - n + 1..hi : cnt[r] = 3}

\* A trio next to the body would have been part of it; the rank after an ace
\* is not looked at.
TrioBeside(cnt, n, hi) ==
    \/ hi - n + 1 > RANK_3 /\ cnt[hi - n] >= 3
    \/ hi < RANK_A /\ cnt[hi + 1] >= 3

Highest(keys) == IF keys = {} THEN {} ELSE {Max(keys)}

\* The trios beside the body are taken for wings.
match_plane_solo_NoGap(cnt) ==
    LET n == Size(cnt) \div 4
    IN  IF Size(cnt) % 4 = 0 /\ n >= 2 /\ ~contains_joker(cnt) /\ ~contains_four(cnt)
        THEN Highest(Bodies(cnt, n)) ELSE {}

match_plane_solo(cnt) ==
    LET n == Size(cnt) \div 4
    IN  IF Size(cnt) % 4 = 0 /\ n >= 2 /\ ~contains_joker(cnt) /\ ~contains_four(cnt)
        THEN Highest({hi \in Bodies(cnt, n) : ~TrioBeside(cnt, n, hi)}) ELSE {}

match_plane_pair(cnt) ==
    LET n == Size(cnt) \div 5
    IN  IF Size(cnt) % 5 = 0 /\ n >= 2 /\ ~contains_joker(cnt) /\ ~contains_four(cnt)
        THEN Highest({hi \in Bodies(cnt, n) :
                        \A r \in Present(cnt) \ (hi - n + 1..hi) : cnt[r] = 2}) ELSE {}

Pattern == {"solo", "pair", "trio", "trio_solo", "trio_pair", "straight", "pair_straight",
            "plane", "plane_solo", "plane_pair", "bomb", "rocket", "four_solo", "four_pair"}

\* kMatchers
KeysAs(cnt) ==
    [rocket |-> match_rocket(cnt), bomb |-> match_bomb(cnt), solo |-> match_solo(cnt),
     pair |-> match_pair(cnt), trio |-> match_trio(cnt), trio_solo |-> match_trio_solo(cnt),
     trio_pair |-> match_trio_pair(cnt), straight |-> match_straight(cnt),
     pair_straight |-> match_pair_straight(cnt), plane |-> match_plane(cnt),
     plane_solo |-> match_plane_solo(cnt), plane_pair |-> match_plane_pair(cnt),
     four_solo |-> match_four_solo(cnt), four_pair |-> match_four_pair(cnt)]

PatternHit == [pattern : Pattern, key : Rank]

\* all_hits.  unique_hit takes its only element, hit_as the one of a pattern.
all_hits(cnt) ==
    LET keys == KeysAs(cnt)
    IN  UNION {{[pattern |-> p, key |-> k] : k \in keys[p]} : p \in Pattern}

\* beats(field, cand), for plays that carry their number of cards.
beats(field, cand) ==
    /\ field.pattern # "rocket"
    /\ \/ cand.pattern = "rocket"
       \/ cand.pattern = "bomb" /\ (field.pattern = "bomb" => cand.key > field.key)
       \/ /\ cand.pattern \notin {"rocket", "bomb"}
          /\ field.pattern = cand.pattern
          /\ field.size = cand.size
          /\ cand.key > field.key

=============================================================================
