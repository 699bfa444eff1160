------------------------------- MODULE MCPick -------------------------------
(* Two threads that pick packs at the same time. *)
EXTENDS Pick

CONSTANTS t1, t2

TwoThreads == {t1, t2}

=============================================================================
