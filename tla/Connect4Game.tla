---------------------------- MODULE Connect4Game ----------------------------
(***************************************************************************)
(* One game played on the engine alone: a sequence of calls of drop, legal *)
(* and illegal ones, with the object re-created from its board at any      *)
(* point.  The server does exactly that between any two moves: it saves    *)
(* game.board and builds the next object from it, so everything but the    *)
(* board has to be recomputed.                                             *)
(***************************************************************************)
EXTENDS Connect4

VARIABLE game

vars == <<game>>

Init == game = NewGame

(* A call of drop with arguments the handlers may pass: any column, either *)
(* player.                                                                 *)
DropPiece(p, c) == /\ CanDrop(game, p, c)
                   /\ game' = Drop(game, p, c)

(* store.save_game followed by store.load_game.                            *)
Reload == game' = Recompute(game.board)

Next == \/ \E p \in Player, c \in -1 .. Cols : DropPiece(p, c)
        \/ Reload

Spec == Init /\ [][Next]_vars

-----------------------------------------------------------------------------
Rules == INSTANCE GameRules
         WITH position <- game.board, turn <- game.next_player, outcome <- Outcome(game)

(* The engine, with its win search around the last piece, its draw test on *)
(* the top row and its reconstruction of turn and result from the board,   *)
(* plays by the rules: every drop is a legal move with the right result    *)
(* and a reload changes nothing (game.py:46-137).                          *)
ImplementsRules == Rules!Spec

(* Every attribute is of its type (game.py:33-40).                         *)
TypeOK == game \in Game

(* The cells reported as the winning line are a win: they are at least     *)
(* WinLength cells, all the winner's, and they contain a straight segment; *)
(* there are none exactly when nobody won (game.py:69-72, 132-134).        *)
WinningCellsAreALine ==
    IF game.winner = Nobody THEN game.winning_cells = {}
    ELSE /\ \A cell \in game.winning_cells : game.board[cell] = game.winner
         /\ \E s \in Rules!Segments : s \subseteq game.winning_cells

(* While the game is not over the player to move has a legal column, so a  *)
(* game cannot get stuck short of a result: the draw test on the top row   *)
(* alone notices every full board (game.py:118-120).                       *)
AlwaysPlayable ==
    Over(game) \/ \E c \in Col : CanDrop(game, game.next_player, c)
=============================================================================
