-------------------------------- MODULE Match --------------------------------
(***************************************************************************)
(* What a room promises its players, without connections, threads or       *)
(* sequence numbers: a match of three of them that is played to the agreed *)
(* number of small games and then shown on a scoreboard, or is void as     *)
(* soon as one of them is gone.                                            *)
(***************************************************************************)
EXTENDS Integers

CONSTANTS
    Totals,     \* the numbers of small games a match may have: within 1..99
    Results     \* the score vectors a small game may end with: [Player -> Int]

Player == 0..2
NoScore == [p \in Player |-> 0]

VARIABLES
    total,      \* the agreed number of small games
    present,    \* the players who hold a seat
    stage,      \* "lobby", "game" (dealt or played) or "board"
    played,     \* small games of this match that were played to their end
    score       \* their accumulated scores

vars == <<total, present, stage, played, score>>

Init ==
    /\ total \in Totals
    /\ present = {0}
    /\ stage = "lobby"
    /\ played = 0
    /\ score = NoScore

\* A seat is free before a match only.
Join(p) ==
    /\ present # {} /\ p \notin present
    /\ stage = "lobby" /\ played = 0
    /\ present' = present \cup {p}
    /\ UNCHANGED <<total, stage, played, score>>

\* A player is gone for good, and with them the match and its scores.
Quit(p) ==
    /\ p \in present
    /\ present' = present \ {p}
    /\ stage' = "lobby"
    /\ played' = 0
    /\ score' = NoScore
    /\ UNCHANGED total

StartGame ==
    /\ present = Player
    /\ stage # "game"
    /\ stage' = "game"
    /\ played' = IF stage = "board" THEN 0 ELSE played
    /\ score' = IF stage = "board" THEN NoScore ELSE score
    /\ UNCHANGED <<total, present>>

EndGame(result) ==
    /\ stage = "game"
    /\ played' = played + 1
    /\ score' = [p \in Player |-> score[p] + result[p]]
    /\ stage' = IF played + 1 = total THEN "board" ELSE "lobby"
    /\ UNCHANGED <<total, present>>

Next ==
    \/ \E p \in Player : Join(p) \/ Quit(p)
    \/ StartGame
    \/ \E result \in Results : EndGame(result)

Spec == Init /\ [][Next]_vars

=============================================================================
