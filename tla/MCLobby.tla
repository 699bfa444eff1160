------------------------------- MODULE MCLobby -------------------------------
(***************************************************************************)
(* Lobby on a small instance: two accounts, two rooms and three            *)
(* connections, so that a player may come back while the old one is dying. *)
(***************************************************************************)
EXTENDS Lobby

CONSTANTS a1, a2, c1, c2, c3

TwoAccounts == {a1, a2}
ThreeConns == {c1, c2, c3}
TwoRooms == {1, 2}

=============================================================================
