------------------------------ MODULE MCLobby ------------------------------
(* Instances of Lobby: a creator and the players who join.                 *)
EXTENDS Lobby

CONSTANTS p1, p2, p3

One   == {p1}
Two   == {p1, p2}
Three == {p1, p2, p3}

=============================================================================
