------------------------------ MODULE MCClient ------------------------------
(* One player, one browser tab, and as many connections as may be alive. *)
EXTENDS Client

CONSTANTS me, c1, c2

OneAccount == {me}
TwoConns == {c1, c2}

\* Many faults for the player who waits, a few for the one who does not.
SomeFaults == [p \in BOOLEAN |-> IF p THEN 5 ELSE 3]
SomeMessages == [p \in BOOLEAN |-> IF p THEN 2 ELSE 1]
OneRoom == {1}

=============================================================================
