------------------------------ MODULE MCSwipe ------------------------------
(***************************************************************************)
(* Swipes over the high ranks, where chains end, and over the low ones,    *)
(* where chains begin; with one joker, and with both.                      *)
(***************************************************************************)
EXTENDS Swipe

HighAndLow == {10..16, (3..7) \cup {16, 17}}

=============================================================================
