------------------------------- MODULE MCRoom -------------------------------
(* A room with one connection of each player, which may break and return.  *)
EXTENDS Room, TLC

CONSTANTS s1, s2

Pair == s1 :> 1 @@ s2 :> 2
=============================================================================
