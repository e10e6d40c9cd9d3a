----------------------------- MODULE GameRules -----------------------------
(***************************************************************************)
(* What a Connect 4 game promises, stated without the algorithms of the    *)
(* program: players alternate, a piece comes to rest on the bottom or on   *)
(* another piece, and the game ends with a straight line of WinLength      *)
(* pieces of one player or with a full board.  The engine and the whole    *)
(* move path (lock, Redis, load, drop, save) are shown to implement it.    *)
(***************************************************************************)
EXTENDS BoardGeometry

VARIABLES position,   \* what each cell holds: 0, 1 or 2
          turn,       \* who moves next
          outcome     \* Open, Drawn, or the player who won

Open  == 0
Drawn == 3

vars == <<position, turn, outcome>>

Init == /\ position = [cell \in Cells |-> 0]
        /\ turn = 1
        /\ outcome = Open

Move(cell) ==
    /\ outcome = Open
    /\ position[cell] = 0
    /\ Supported(position, cell)
    /\ position' = [position EXCEPT ![cell] = turn]
    /\ turn' = 3 - turn
    /\ outcome' = IF HasLine(position', turn) THEN turn
                  ELSE IF Full(position') THEN Drawn ELSE Open

Next == \E cell \in Cells : Move(cell)

Spec == Init /\ [][Next]_vars
=============================================================================
