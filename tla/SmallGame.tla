------------------------------ MODULE SmallGame ------------------------------
(***************************************************************************)
(* What a small game promises the room it is played in: after calls (and   *)
(* redeals while nobody calls) it is played, and it ends once, with scores *)
(* of one landlord against two farmers that add up to nothing.             *)
(***************************************************************************)
EXTENDS Integers

CONSTANT Stake      \* the least a farmer wins or loses: the base score

Player == 0..2

VARIABLES
    stage,      \* "call", "play" or "over"
    score       \* the players' scores of this small game

vars == <<stage, score>>

NoScore == [p \in Player |-> 0]

\* One landlord wins from, or loses to, both farmers.
IsOutcome(sc) ==
    \E l, f, g \in Player :
        /\ l # f /\ l # g /\ f # g
        /\ sc[l] + sc[f] + sc[g] = 0
        /\ \/ sc[f] >= Stake /\ sc[g] >= Stake
           \/ sc[f] <= -Stake /\ sc[g] <= -Stake

Init == stage = "call" /\ score = NoScore

Called == stage = "call" /\ stage' = "play" /\ UNCHANGED score

Ended == stage = "play" /\ stage' = "over" /\ IsOutcome(score')

Next == Called \/ Ended

Spec == Init /\ [][Next]_vars

=============================================================================
