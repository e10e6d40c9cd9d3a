------------------------------ MODULE MCRatings ------------------------------
(* Three players near the floor of the ratings; two games of the same pair *)
(* and one that shares a player with both.                                 *)
EXTENDS Ratings

CONSTANTS g1, g2, g3

Low   == <<1000, 20, 8>>
Pairs == [g \in Games |-> CASE g = g1 -> <<2, 3>> [] g = g2 -> <<3, 2>> [] OTHER -> <<1, 2>>]
Ends  == [g \in Games |-> CASE g = g1 -> {2, 3, Nobody} [] g = g2 -> {3, Nobody} [] OTHER -> {1, 2}]

=============================================================================
