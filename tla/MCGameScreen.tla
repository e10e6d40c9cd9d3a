---------------------------- MODULE MCGameScreen ----------------------------
(* A page for each player; the first player's may have two connections.    *)
EXTENDS GameScreen, TLC

CONSTANTS s1, t1, s2

Three == s1 :> 1 @@ t1 :> 1 @@ s2 :> 2
Pair  == s1 :> 1 @@ s2 :> 2

OneEach    == <<1, 1>>
SecondOnce == <<0, 1>>
=============================================================================
