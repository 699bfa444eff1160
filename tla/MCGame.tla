------------------------------- MODULE MCGame -------------------------------
(***************************************************************************)
(* A small pack: cards are numbered rank by rank, four of each from the    *)
(* threes on.  Seat 0 lacks the red joker of the bottom for a rocket, seat *)
(* 1 has a bomb, seat 2 a pair and the highest number.                     *)
(***************************************************************************)
EXTENDS Game

SmallPack ==
    [hands |-> [s \in Seat |-> CASE s = 0 -> {52, 0}
                                 [] s = 1 -> {4, 5, 6, 7}
                                 [] s = 2 -> {8, 9, 48}],
     bottom |-> {53}]

SmallPacks == {SmallPack}

=============================================================================
