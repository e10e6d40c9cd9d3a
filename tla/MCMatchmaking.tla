--------------------------- MODULE MCMatchmaking ---------------------------
(* Matchmaking of two players whose ratings are just within the band.      *)
EXTENDS Matchmaking, TLC

CONSTANTS p1, p2

Pair == p1 :> 1000 @@ p2 :> 1200

OneEach   == [p \in {p1, p2} |-> 1]
ThreeOne  == p1 :> 3 @@ p2 :> 1
=============================================================================
