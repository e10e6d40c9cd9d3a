------------------------------ MODULE Connect4 ------------------------------
(***************************************************************************)
(* The Connect 4 engine of app/game.py as pure operators.  A game object   *)
(* is a record with the attributes of class Connect4.  Rows are numbered   *)
(* from the top, as in the code, so the bottom row is Rows - 1.  The list  *)
(* winning_cells is a set here: nothing depends on its order.              *)
(*                                                                         *)
(* The constants are the module constants ROWS, COLS and WIN_LENGTH; the   *)
(* program fixes them to 6, 7 and 4.                                       *)
(***************************************************************************)
EXTENDS Integers, FiniteSets, Sequences

CONSTANTS Rows, Cols, WinLength

ASSUME BoardAssumption ==
    /\ Rows \in Nat \ {0}
    /\ Cols \in Nat \ {0}
    /\ WinLength \in Nat \ {0, 1}

Row    == 0 .. (Rows - 1)
Col    == 0 .. (Cols - 1)
Cell   == Row \X Col
Player == {1, 2}
Empty  == 0
Nobody == 0      \* the value None of the attribute winner

Board      == [Cell -> Player \cup {Empty}]
EmptyBoard == [cell \in Cell |-> Empty]

Game == [board : Board, winner : Player \cup {Nobody},
         winning_cells : SUBSET Cell, is_draw : BOOLEAN, next_player : Player]

(* Fault: the next player is counted up.                                   *)
OpponentCountsUp(p) == p + 1

Opponent(p) == 3 - p

Pieces(board) == {cell \in Cell : board[cell] # Empty}

-----------------------------------------------------------------------------
(* Winning lines through one cell.                                         *)

Directions == <<<<0, 1>>, <<1, 0>>, <<1, 1>>, <<1, -1>>>>

Ahead(cell, d, k) == <<cell[1] + k * d[1], cell[2] + k * d[2]>>

(* Fault: pieces of either player extend a line.                           *)
HoldsAny(board, cell, p) == cell \in Cell /\ board[cell] # Empty

Holds(board, cell, p) == cell \in Cell /\ board[cell] = p

(* One while loop of _find_winning_cells: the cells of player p met when   *)
(* leaving cell in direction d, up to the first other cell or the edge.    *)
Walk(board, cell, d, p) ==
    {Ahead(cell, d, n) :
        n \in {k \in 1 .. (Rows + Cols) :
                  \A j \in 1 .. k : Holds(board, Ahead(cell, d, j), p)}}

(* Fault: only the positive direction is searched.                         *)
LineAhead(board, cell, d, p) == {cell} \cup Walk(board, cell, d, p)

Line(board, cell, d, p) ==
    {cell} \cup Walk(board, cell, d, p)
           \cup Walk(board, cell, <<-d[1], -d[2]>>, p)

LongEnough(line) == Cardinality(line) >= WinLength

WinsAlong(board, cell, i, p) == LongEnough(Line(board, cell, Directions[i], p))

(* The line of the first direction that is long enough, or {}.             *)
FindWinningCells(board, cell, p) ==
    UNION {Line(board, cell, Directions[i], p) :
              i \in {j \in DOMAIN Directions :
                        /\ WinsAlong(board, cell, j, p)
                        /\ \A k \in 1 .. (j - 1) : ~WinsAlong(board, cell, k, p)}}

CheckDraw(board) == \A c \in Col : board[<<0, c>>] # Empty

-----------------------------------------------------------------------------
(* Game objects.                                                           *)

NewGame == [board |-> EmptyBoard, winner |-> Nobody, winning_cells |-> {},
            is_draw |-> FALSE, next_player |-> 1]

(* Connect4(board): _recompute_terminal scans the cells row by row and     *)
(* keeps the first win it meets.                                           *)
ScanIndex(cell) == cell[1] * Cols + cell[2]

TurnByCount(board) == IF Cardinality(Pieces(board)) % 2 = 0 THEN 1 ELSE 2

Recompute(board) ==
    LET wins  == {cell \in Pieces(board) :
                     FindWinningCells(board, cell, board[cell]) # {}}
        first == CHOOSE w \in wins : \A o \in wins : ScanIndex(w) <= ScanIndex(o)
    IN  [board         |-> board,
         winner        |-> IF wins = {} THEN Nobody ELSE board[first],
         winning_cells |-> IF wins = {} THEN {}
                           ELSE FindWinningCells(board, first, board[first]),
         is_draw       |-> wins = {} /\ CheckDraw(board),
         next_player   |-> TurnByCount(board)]

(* Fault: range(ROWS - 1, 0, -1) leaves out the top row.                   *)
EmptyRowsBelowTop(board, c) == {r \in Row : r > 0 /\ board[<<r, c>>] = Empty}

EmptyRows(board, c) == {r \in Row : board[<<r, c>>] = Empty}

(* Fault: the column is searched from the top.                             *)
HighestEmptyRow(board, c) ==
    CHOOSE r \in EmptyRows(board, c) : \A s \in EmptyRows(board, c) : r <= s

LowestEmptyRow(board, c) ==
    CHOOSE r \in EmptyRows(board, c) : \A s \in EmptyRows(board, c) : s <= r

Over(game) == game.winner # Nobody \/ game.is_draw

(* Fault: the turn is not checked.                                         *)
CanDropOutOfTurn(game, p, c) ==
    /\ ~Over(game)
    /\ c \in Col
    /\ EmptyRows(game.board, c) # {}

(* The checks of drop, in its order; each one that fails raises its own     *)
(* error, which leaves the object as it was.                               *)
CanDrop(game, p, c) ==
    /\ ~Over(game)
    /\ p = game.next_player
    /\ c \in Col
    /\ EmptyRows(game.board, c) # {}

Place(board, c, p) == [board EXCEPT ![<<LowestEmptyRow(board, c), c>>] = p]

(* The result as it is reported to clients and to the database: 0 while    *)
(* the game is open, the winner, or 3 for a draw.                          *)
Outcome(game) == IF game.is_draw THEN 3 ELSE game.winner

(* The object that drop leaves when it does not raise; is_draw is set only *)
(* when the move does not win.                                             *)
Drop(game, p, c) ==
    LET board == Place(game.board, c, p)
        line  == FindWinningCells(board, <<LowestEmptyRow(game.board, c), c>>, p)
    IN  [board         |-> board,
         winner        |-> IF line # {} THEN p ELSE game.winner,
         winning_cells |-> IF line # {} THEN line ELSE game.winning_cells,
         is_draw       |-> line = {} /\ CheckDraw(board),
         next_player   |-> Opponent(p)]

-----------------------------------------------------------------------------
(* What properties say about boards.                                       *)

PiecesOf(board, p) == {cell \in Cell : board[cell] = p}

(* A position of a game: nothing floats, and the player to move has not    *)
(* moved more often than the other.                                        *)
Settled(board) ==
    \A r \in Row, c \in Col :
        board[<<r, c>>] # Empty /\ r + 1 \in Row => board[<<r + 1, c>>] # Empty

TurnsAlternate(board) ==
    Cardinality(PiecesOf(board, 1)) =
        Cardinality(PiecesOf(board, 2)) + (IF TurnByCount(board) = 1 THEN 0 ELSE 1)

LegalPosition(board) == Settled(board) /\ TurnsAlternate(board)
=============================================================================
