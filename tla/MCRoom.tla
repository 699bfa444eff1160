------------------------------- MODULE MCRoom -------------------------------
(***************************************************************************)
(* Room on small instances: a match of one or two small games and two      *)
(* outcomes of a small game, one for each side.                            *)
(***************************************************************************)
EXTENDS Room

\* A landlord on seat 0 wins, or loses to the two farmers.
TwoOutcomes == {[s \in Seat |-> IF s = 0 THEN 2 ELSE -1],
                [s \in Seat |-> IF s = 0 THEN -2 ELSE 1]}

=============================================================================
