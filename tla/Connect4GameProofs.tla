------------------------- MODULE Connect4GameProofs -------------------------
(***************************************************************************)
(* The engine plays by the rules of Connect 4, on a board of any size and  *)
(* with lines of any length.                                               *)
(***************************************************************************)
EXTENDS Connect4Game, Connect4Proofs

USE BoardAssumption

-----------------------------------------------------------------------------
(* What an object says of its board: whose turn it is, whether a player    *)
(* has a line, and if not whether the board is full.                       *)

TellsTheTurn == Settled(game.board) /\ game.next_player = TurnByCount(game.board)

TellsTheWinner ==
    IF game.winner = Nobody THEN NoLine(game.board) /\ game.winning_cells = {}
    ELSE /\ Lines!HasLine(game.board, game.winner)
         /\ ~Lines!HasLine(game.board, Opponent(game.winner))
         /\ \A x \in game.winning_cells : game.board[x] = game.winner
         /\ \E s \in Lines!Segments : s \subseteq game.winning_cells

TellsTheDraw == game.is_draw <=> NoLine(game.board) /\ Lines!Full(game.board)

EngineInv == TypeOK /\ TellsTheTurn /\ TellsTheWinner /\ TellsTheDraw

LEMMA NewGameTells == Init => EngineInv
<1> SUFFICES ASSUME Init PROVE EngineInv
  OBVIOUS
<1>1. game = NewGame /\ game = Recompute(EmptyBoard) /\ game.board = EmptyBoard /\ EmptyBoard \in Board
  BY EmptyBoardIsNewGame DEF Init, NewGame
<1>2. TypeOK
  BY EmptyBoardIsNewGame DEF Init, TypeOK
<1>3. Settled(EmptyBoard)
  BY EmptyBoardIsLegal DEF LegalPosition
<1>4. game.next_player = TurnByCount(EmptyBoard)
  BY <1>1, RecomputeType
<1>5. game.winner = Nobody /\ game.winning_cells = {} /\ game.is_draw = FALSE
  BY <1>1 DEF NewGame
<1>6. NoLine(EmptyBoard) /\ (game.is_draw <=> NoLine(EmptyBoard) /\ CheckDraw(EmptyBoard))
  BY <1>1, <1>5, RecomputeFindsLines
<1>7. CheckDraw(EmptyBoard) <=> Lines!Full(EmptyBoard)
  BY <1>1, <1>3, TopRowIsEnough
<1> QED BY <1>1, <1>2, <1>3, <1>4, <1>5, <1>6, <1>7
        DEF EngineInv, TellsTheTurn, TellsTheWinner, TellsTheDraw

(* What a drop does to the board, and what the object says afterwards.     *)
LEMMA DropTells ==
    ASSUME EngineInv, NEW p \in Player, NEW c, CanDrop(game, p, c)
    PROVE  LET b     == game.board
               cell  == <<LowestEmptyRow(b, c), c>>
               after == Drop(game, p, c)
           IN  /\ p = game.next_player /\ NoLine(b) /\ ~Lines!Full(b)
               /\ cell \in Lines!Cells /\ b[cell] = 0 /\ Lines!Supported(b, cell)
               /\ after \in Game /\ after.board = [b EXCEPT ![cell] = p]
               /\ Settled(after.board)
               /\ after.next_player = Opponent(p) /\ Opponent(p) = TurnByCount(after.board)
               /\ after.winner = IF Lines!HasLine(after.board, p) THEN p ELSE Nobody
               /\ ~Lines!HasLine(after.board, Opponent(p))
               /\ after.is_draw <=> ~Lines!HasLine(after.board, p) /\ Lines!Full(after.board)
               /\ after.winner = Nobody => after.winning_cells = {}
               /\ after.winner # Nobody =>
                     /\ \A x \in after.winning_cells : after.board[x] = p
                     /\ \E s \in Lines!Segments : s \subseteq after.winning_cells
<1> DEFINE b     == game.board
           cell  == <<LowestEmptyRow(b, c), c>>
           after == Drop(game, p, c)
           line  == FindWinningCells(Place(b, c, p), cell, p)
<1>1. game \in Game /\ b \in Board
  BY DEF EngineInv, TypeOK, Game
<1>2. c \in Col /\ EmptyRows(b, c) # {} /\ p = game.next_player /\ game.winner = Nobody /\ ~game.is_draw
  BY DEF CanDrop, Over
<1>3. Settled(b) /\ p = TurnByCount(b) /\ NoLine(b) /\ game.winning_cells = {} /\ ~Lines!Full(b)
  BY <1>2 DEF EngineInv, TellsTheTurn, TellsTheWinner, TellsTheDraw
<1>4. after \in Game /\ after.board = Place(b, c, p)
  BY <1>1, DropType
<1>5. /\ after.next_player = Opponent(p)
      /\ after.winner = IF line # {} THEN p ELSE Nobody
      /\ after.winning_cells = line
      /\ after.is_draw = (line = {} /\ CheckDraw(Place(b, c, p)))
  BY <1>2, <1>3 DEF Drop
<1>6. Opponent(p) \in Player /\ Opponent(p) # p /\ p # Nobody
  BY DEF Opponent, Player, Nobody
<1>7. /\ cell \in Lines!Cells /\ b[cell] = 0 /\ Lines!Supported(b, cell)
      /\ after.board \in Board /\ after.board = [b EXCEPT ![cell] = p] /\ after.board[cell] = p
      /\ Settled(after.board)
      /\ line # {} <=> Lines!HasLine(after.board, p)
      /\ ~Lines!HasLine(after.board, Opponent(p))
      /\ CheckDraw(after.board) <=> Lines!Full(after.board)
  BY <1>1, <1>2, <1>3, <1>4, <1>6, DropPlaysByTheRules
<1>8. TurnByCount(after.board) = Opponent(p)
  BY <1>1, <1>2, <1>3, <1>4, PlaceCountsOneMore
<1>9. cell \in Cell
  BY <1>7 DEF Lines!Cells, Cell, Row, Col
<1> HIDE DEF cell, after, line
<1>10. line # {} => /\ \A x \in line : after.board[x] = p
                    /\ \E s \in Lines!Segments : s \subseteq line
  <2>1. line = FindWinningCells(after.board, cell, p)
    BY <1>4 DEF line
  <2>2. after.board[cell] = p
    BY <1>7
  <2>3. FindWinningCells(after.board, cell, p) # {} =>
           /\ \A x \in FindWinningCells(after.board, cell, p) : after.board[x] = p
           /\ \E s \in Lines!Segments : s \subseteq FindWinningCells(after.board, cell, p)
    BY <1>9, <2>2, SearchIsRight, Zenon
  <2> QED BY <2>1, <2>3
<1> QED BY <1>2, <1>3, <1>4, <1>5, <1>6, <1>7, <1>8, <1>10 DEF cell, after

LEMMA DropKeepsTelling ==
    ASSUME EngineInv, NEW p \in Player, NEW c, DropPiece(p, c)
    PROVE  EngineInv'
<1> DEFINE after == Drop(game, p, c)
<1>1. game' = after /\ CanDrop(game, p, c)
  BY DEF DropPiece
<1>2. /\ after \in Game /\ Settled(after.board)
      /\ after.next_player = Opponent(p) /\ Opponent(p) = TurnByCount(after.board)
      /\ after.winner = IF Lines!HasLine(after.board, p) THEN p ELSE Nobody
      /\ ~Lines!HasLine(after.board, Opponent(p))
      /\ after.is_draw <=> ~Lines!HasLine(after.board, p) /\ Lines!Full(after.board)
      /\ after.winner = Nobody => after.winning_cells = {}
      /\ after.winner # Nobody =>
            /\ \A x \in after.winning_cells : after.board[x] = p
            /\ \E s \in Lines!Segments : s \subseteq after.winning_cells
  BY <1>1, DropTells
<1> HIDE DEF after
<1>3. NoLine(after.board) <=> ~Lines!HasLine(after.board, p)
  BY <1>2 DEF NoLine, Opponent, Player
<1>4. p # Nobody
  BY DEF Player, Nobody
<1>5. TypeOK' /\ TellsTheTurn' /\ TellsTheDraw'
  BY <1>1, <1>2, <1>3 DEF TypeOK, TellsTheTurn, TellsTheDraw
<1>6. TellsTheWinner'
  BY <1>1, <1>2, <1>3, <1>4 DEF TellsTheWinner
<1> QED BY <1>5, <1>6 DEF EngineInv

(* A reload tells the same as the object it replaces.                      *)
LEMMA ReloadTellsTheSame ==
    ASSUME EngineInv
    PROVE  LET after == Recompute(game.board)
           IN  /\ after.board = game.board /\ after.next_player = game.next_player
               /\ after.winner = game.winner /\ after.is_draw = game.is_draw
<1> DEFINE b     == game.board
           after == Recompute(b)
<1>1. game \in Game /\ b \in Board /\ Settled(b)
  BY DEF EngineInv, TypeOK, TellsTheTurn, Game
<1>2. after \in Game /\ after.board = b /\ after.next_player = game.next_player
  BY <1>1, RecomputeType DEF EngineInv, TellsTheTurn
<1>3. /\ after.winner = Nobody <=> NoLine(b)
      /\ after.winner # Nobody => Lines!HasLine(b, after.winner)
      /\ after.is_draw <=> NoLine(b) /\ CheckDraw(b)
  BY <1>1, RecomputeFindsLines
<1>4. CheckDraw(b) <=> Lines!Full(b)
  BY <1>1, TopRowIsEnough
<1>5. after.is_draw = game.is_draw
  <2>1. after.is_draw <=> game.is_draw
    BY <1>3, <1>4 DEF EngineInv, TellsTheDraw
  <2>2. after.is_draw \in BOOLEAN /\ game.is_draw \in BOOLEAN
    BY <1>1, <1>2 DEF Game
  <2> QED BY <2>1, <2>2
<1>6. after.winner = game.winner
  <2>1. /\ game.winner = Nobody => NoLine(b)
        /\ game.winner # Nobody => /\ Lines!HasLine(b, game.winner)
                                   /\ ~Lines!HasLine(b, Opponent(game.winner))
    BY DEF EngineInv, TellsTheWinner
  <2>2. after.winner \in Player \cup {Nobody} /\ game.winner \in Player \cup {Nobody}
    BY <1>1, <1>2 DEF Game
  <2>3. ASSUME game.winner # Nobody PROVE ~NoLine(b)
    BY <2>1, <2>2, <2>3 DEF NoLine, Player
  <2>4. ASSUME game.winner # Nobody, after.winner # Nobody, after.winner # game.winner
        PROVE  after.winner = Opponent(game.winner)
    BY <2>2, <2>4 DEF Opponent, Player, Nobody
  <2> QED BY <1>3, <2>1, <2>3, <2>4
<1> QED BY <1>2, <1>5, <1>6

LEMMA ReloadKeepsTelling ==
    ASSUME EngineInv, Reload
    PROVE  EngineInv'
<1> DEFINE b     == game.board
           after == Recompute(b)
<1>1. game' = after /\ b \in Board
  BY DEF Reload, EngineInv, TypeOK, Game
<1>2. /\ after.board = b /\ after.next_player = game.next_player
      /\ after.winner = game.winner /\ after.is_draw = game.is_draw
  BY ReloadTellsTheSame
<1>3. /\ after.winner = Nobody => after.winning_cells = {}
      /\ after.winner # Nobody =>
             /\ \A x \in after.winning_cells : b[x] = after.winner
             /\ \E s \in Lines!Segments : s \subseteq after.winning_cells
  BY <1>1, RecomputeFindsLines
<1>4. after \in Game
  BY <1>1, RecomputeType
<1> HIDE DEF after
<1>5. TypeOK' /\ TellsTheTurn' /\ TellsTheDraw'
  BY <1>1, <1>2, <1>4 DEF EngineInv, TypeOK, TellsTheTurn, TellsTheDraw
<1>6. TellsTheWinner'
  BY <1>1, <1>2, <1>3 DEF EngineInv, TellsTheWinner
<1> QED BY <1>5, <1>6 DEF EngineInv

LEMMA EngineNext == EngineInv /\ [Next]_vars => EngineInv'
<1>1. EngineInv /\ UNCHANGED vars => EngineInv'
  BY DEF vars, EngineInv, TypeOK, TellsTheTurn, TellsTheWinner, TellsTheDraw
<1> QED BY <1>1, DropKeepsTelling, ReloadKeepsTelling DEF Next

LEMMA EngineAlways == Spec => []EngineInv
  BY NewGameTells, EngineNext, PTL DEF Spec

(* TypeOK holds in every reachable state.                                  *)
THEOREM TypeCorrect == Spec => []TypeOK
<1>1. EngineInv => TypeOK
  BY DEF EngineInv
<1> QED BY <1>1, EngineAlways, PTL

(* The cells that are reported with a win are the winner's and contain a   *)
(* straight segment of WinLength cells, after a drop and after a reload.   *)
THEOREM WinsAreShown == Spec => []WinningCellsAreALine
<1>1. Rules!Segments = Lines!Segments
  BY DEF Rules!Segments, Lines!Segments, Rules!Cells, Lines!Cells, Rules!Segment, Lines!Segment
<1>2. EngineInv => WinningCellsAreALine
  BY <1>1 DEF EngineInv, TellsTheWinner, WinningCellsAreALine
<1> QED BY <1>2, EngineAlways, PTL

(* A game is over, or its player to move has a column to drop into.        *)
THEOREM NeverStuck == Spec => []AlwaysPlayable
<1>1. EngineInv => AlwaysPlayable
  <2> SUFFICES ASSUME EngineInv, ~Over(game)
               PROVE  \E c \in Col : CanDrop(game, game.next_player, c)
    BY DEF AlwaysPlayable
  <2>1. NoLine(game.board) /\ ~Lines!Full(game.board)
    BY DEF EngineInv, TellsTheWinner, TellsTheDraw, Over
  <2>2. PICK r \in Row, c \in Col : game.board[<<r, c>>] = Empty
    BY <2>1 DEF Lines!Full, Lines!Cells, Row, Col, Empty
  <2>3. EmptyRows(game.board, c) # {}
    BY <2>2 DEF EmptyRows
  <2> QED BY <2>3 DEF CanDrop
<1> QED BY <1>1, EngineAlways, PTL

-----------------------------------------------------------------------------
(* The refinement: a drop is a move of GameRules, a reload a stutter.      *)

LEMMA SameRules ==
    /\ Rules!Cells = Lines!Cells
    /\ \A b, p : Rules!HasLine(b, p) <=> Lines!HasLine(b, p)
    /\ \A b : Rules!Full(b) <=> Lines!Full(b)
    /\ \A b, cell : Rules!Supported(b, cell) <=> Lines!Supported(b, cell)
  BY DEF Rules!Cells, Lines!Cells, Rules!HasLine, Lines!HasLine, Rules!Segments, Lines!Segments,
         Rules!Segment, Lines!Segment, Rules!Full, Lines!Full, Rules!Supported, Lines!Supported

LEMMA DropIsMove ==
    ASSUME EngineInv, NEW p \in Player, NEW c, DropPiece(p, c)
    PROVE  Rules!Next
<1> DEFINE b     == game.board
           cell  == <<LowestEmptyRow(b, c), c>>
           after == Drop(game, p, c)
<1>1. game' = after /\ CanDrop(game, p, c)
  BY DEF DropPiece
<1>2. /\ p = game.next_player /\ NoLine(b) /\ ~Lines!Full(b)
      /\ cell \in Lines!Cells /\ b[cell] = 0 /\ Lines!Supported(b, cell)
      /\ after \in Game /\ after.board = [b EXCEPT ![cell] = p]
      /\ after.next_player = Opponent(p)
      /\ after.winner = IF Lines!HasLine(after.board, p) THEN p ELSE Nobody
      /\ after.is_draw <=> ~Lines!HasLine(after.board, p) /\ Lines!Full(after.board)
  BY <1>1, DropTells
<1>3. Outcome(game) = 0
  BY <1>1 DEF CanDrop, Over, Outcome, Nobody
<1> HIDE DEF cell, after
<1>4. Outcome(after) = IF Lines!HasLine(after.board, p) THEN p
                       ELSE IF Lines!Full(after.board) THEN 3 ELSE 0
  BY <1>2 DEF Outcome, Nobody
<1>5. Rules!Move(cell)
  BY <1>1, <1>2, <1>3, <1>4, SameRules DEF Rules!Move, Rules!Open, Rules!Drawn, Opponent
<1>6. cell \in Rules!Cells
  BY <1>2, SameRules
<1> QED BY <1>5, <1>6 DEF Rules!Next

(* The engine implements GameRules: what drop and the reload from a board  *)
(* compute around one piece, on the top row and from the number of pieces  *)
(* is the game that the rules of Connect 4 define.                         *)
THEOREM EnginePlaysByTheRules == Spec => ImplementsRules
<1>1. Init => Rules!Init
  <2> SUFFICES ASSUME Init PROVE Rules!Init
    OBVIOUS
  <2>1. Rules!Cells = Cell
    BY DEF Rules!Cells, Cell, Row, Col
  <2> QED BY <2>1 DEF Init, NewGame, EmptyBoard, Empty, Nobody, Outcome, Rules!Init, Rules!Open
<1>2. EngineInv /\ [Next]_vars => [Rules!Next]_(Rules!vars)
  <2> SUFFICES ASSUME EngineInv, [Next]_vars PROVE Rules!Next \/ UNCHANGED Rules!vars
    OBVIOUS
  <2>1. CASE Reload
    BY <2>1, ReloadTellsTheSame DEF Reload, Rules!vars, Outcome
  <2>2. CASE UNCHANGED vars
    BY <2>2 DEF vars, Rules!vars, Outcome
  <2> QED BY <2>1, <2>2, DropIsMove DEF Next
<1> QED BY <1>1, <1>2, EngineAlways, PTL DEF Spec, ImplementsRules, Rules!Spec
=============================================================================
