------------------------------ MODULE Presence ------------------------------
(***************************************************************************)
(* What the lobby promises the owner of an account, without connections or *)
(* sessions: an account is signed out, in the hall, or in one seat that is *)
(* its own; it loses the seat only by leaving it or by staying away, and   *)
(* what it comes back to is the seat it had.                               *)
(***************************************************************************)
CONSTANTS
    Accounts,   \* the accounts of the database
    Places      \* the seats of all rooms there may be

VARIABLES
    hall,       \* the accounts in the hall
    seats,      \* <<account, place>>: who holds which seat
    here        \* the accounts in a seat whose player is connected

vars == <<hall, seats, here>>

Seated(a) == \E p \in Places : <<a, p>> \in seats
Without(a) == {s \in seats : s[1] # a}

Init == hall = {} /\ seats = {} /\ here = {}

SignIn(a) ==
    /\ a \notin hall /\ ~Seated(a)
    /\ hall' = hall \cup {a}
    /\ UNCHANGED <<seats, here>>

SignOut(a) ==
    /\ a \in hall
    /\ hall' = hall \ {a}
    /\ UNCHANGED <<seats, here>>

Sit(a, p) ==
    /\ a \in hall
    /\ \A b \in Accounts : <<b, p>> \notin seats
    /\ hall' = hall \ {a}
    /\ seats' = seats \cup {<<a, p>>}
    /\ here' = here \cup {a}

\* Back to the hall, or out of the program altogether.
Leave(a) ==
    /\ a \in here
    /\ seats' = Without(a)
    /\ here' = here \ {a}
    /\ hall' \in {hall, hall \cup {a}}

\* The connections of some players are lost; their seats are held.
Drop(away) ==
    /\ here' = here \ away
    /\ UNCHANGED <<hall, seats>>

Return(a) ==
    /\ Seated(a) /\ a \notin here
    /\ here' = here \cup {a}
    /\ UNCHANGED <<hall, seats>>

\* A seat is given up, but never that of a player who is there.
Lapse(a) ==
    /\ Seated(a) /\ a \notin here
    /\ seats' = Without(a)
    /\ UNCHANGED <<hall, here>>

Next ==
    \/ \E a \in Accounts :
         \/ SignIn(a) \/ SignOut(a) \/ Leave(a) \/ Return(a) \/ Lapse(a)
         \/ \E p \in Places : Sit(a, p)
    \/ \E away \in SUBSET here : Drop(away)

Spec == Init /\ [][Next]_vars

=============================================================================
