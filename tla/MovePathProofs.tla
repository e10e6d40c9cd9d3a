--------------------------- MODULE MovePathProofs ---------------------------
(***************************************************************************)
(* Theorems about MovePath, for any board size, any number of handlers and *)
(* any bounds.                                                             *)
(***************************************************************************)
EXTENDS MovePath, Connect4Proofs

USE BoardAssumption, MovePathAssumption

-----------------------------------------------------------------------------
(* Type correctness.                                                       *)

(* A piece that is on its way from drop to the database is in a column of  *)
(* the board: drop checked it.                                             *)
DroppedInBounds ==
    \A h \in Handlers :
        pc[h] \in {"save"} \cup Unrecorded => job[h].column \in Col

TypeInv == TypeOK /\ DroppedInBounds

LEMMA NoJobType == NoJob \in Job
<1>1. NewGame \in Game
  BY EmptyBoardIsNewGame
<1> QED BY <1>1 DEF NoJob, Request, Job, Player, Row

LEMMA RecordType ==
    ASSUME NEW j \in Job, j.column \in Col
    PROVE  RecordOf(j) \in [player : Player, column : Col, row : Row,
                            move_number : Nat]
<1>1. MoveNumber(j.game.board) \in Nat
  BY PiecesAreFinite DEF MoveNumber
<1> QED BY <1>1 DEF RecordOf, Job

(* What a handler has after trying a drop on a well-formed object.         *)
LEMMA TryDropType ==
    ASSUME TypeInv, NEW h \in Handlers, NEW game \in Game, TryDrop(h, game)
    PROVE  /\ pc' \in [Handlers -> Locations]
           /\ job' \in [Handlers -> Job]
           /\ DroppedInBounds'
<1> DEFINE p == job[h].player
           c == job[h].column
<1>1. job[h] \in Job /\ p \in Player
  BY DEF TypeInv, TypeOK, Job
<1>2. CASE CanDrop(game, p, c)
  <2>1. /\ Drop(game, p, c) \in Game
        /\ c \in Col
        /\ LowestEmptyRow(game.board, c) \in Row
    BY <1>1, <1>2, DropType
  <2>2. /\ job' = [job EXCEPT ![h] = Dropped(job[h], game)]
        /\ pc' = [pc EXCEPT ![h] = "save"]
    BY <1>2 DEF TryDrop, Goto
  <2>3. Dropped(job[h], game) \in Job /\ Dropped(job[h], game).column = c
    BY <2>1, <1>1 DEF Dropped, Job
  <2>4. job' \in [Handlers -> Job]
    BY <2>2, <2>3 DEF TypeInv, TypeOK
  <2>5. pc' \in [Handlers -> Locations]
    BY <2>2 DEF TypeInv, TypeOK, Locations
  <2>6. DroppedInBounds'
    BY <2>1, <2>2, <2>3 DEF TypeInv, TypeOK, DroppedInBounds, Unrecorded
  <2> QED BY <2>4, <2>5, <2>6
<1>3. CASE ~CanDrop(game, p, c)
  <2>1. job' = job /\ pc' = [pc EXCEPT ![h] = "discard"]
    BY <1>3 DEF TryDrop, Goto
  <2> QED BY <2>1 DEF TypeInv, TypeOK, DroppedInBounds, Locations, Unrecorded
<1> QED BY <1>2, <1>3

LEMMA TypeInit == Init => TypeInv
<1> SUFFICES ASSUME Init PROVE TypeInv
  OBVIOUS
<1>1. EmptyBoard \in Board
  BY EmptyBoardIsNewGame
<1>2. TypeOK
  BY <1>1, NoJobType DEF Init, TypeOK, Locations, Player, Nobody
<1>3. DroppedInBounds
  BY DEF Init, DroppedInBounds, Unrecorded
<1> QED BY <1>2, <1>3 DEF TypeInv

LEMMA TypeNext == TypeInv /\ [Next]_vars => TypeInv'
<1> SUFFICES ASSUME TypeInv, [Next]_vars PROVE TypeInv'
  OBVIOUS
<1> USE DEF TypeInv
<1>1. ASSUME NEW h \in Handlers, NEW p \in Player, NEW c \in 0 .. Cols, Acquire(h, p, c)
      PROVE  TypeInv'
  <2>1. Request(p, c) \in Job
    BY EmptyBoardIsNewGame DEF Request, Job, Row
  <2>2. TypeOK'
    BY <1>1, <2>1 DEF Acquire, Goto, TypeOK, Locations, dbVars, counters
  <2>3. DroppedInBounds'
    BY <1>1 DEF Acquire, Goto, TypeOK, DroppedInBounds, Unrecorded
  <2> QED BY <2>2, <2>3
<1>2. ASSUME NEW h \in Handlers, LoadBoard(h) PROVE TypeInv'
  <2>1. Recompute(board) \in Game
    BY <1>2, RecomputeType DEF LoadBoard, TypeOK
  <2>2. TryDrop(h, Recompute(board))
    BY <1>2 DEF LoadBoard
  <2>3. pc' \in [Handlers -> Locations] /\ job' \in [Handlers -> Job] /\ DroppedInBounds'
    BY <2>1, <2>2, TryDropType
  <2> QED BY <1>2, <2>3 DEF LoadBoard, TypeOK, redisVars, dbVars, counters
<1>3. ASSUME NEW h \in Handlers, LoadMissing(h) PROVE TypeInv'
  <2>1. TypeOK'
    BY <1>3 DEF LoadMissing, Goto, TypeOK, Locations, redisVars, dbVars, counters
  <2>2. DroppedInBounds'
    BY <1>3 DEF LoadMissing, Goto, TypeOK, DroppedInBounds, Unrecorded
  <2> QED BY <2>1, <2>2
<1>4. ASSUME NEW h \in Handlers, SaveFresh(h) PROVE TypeInv'
  <2>1. TryDrop(h, NewGame)
    BY <1>4 DEF SaveFresh
  <2>2. pc' \in [Handlers -> Locations] /\ job' \in [Handlers -> Job] /\ DroppedInBounds'
    BY <2>1, EmptyBoardIsNewGame, TryDropType
  <2> QED BY <1>4, <2>2, EmptyBoardIsNewGame DEF SaveFresh, TypeOK, dbVars, counters
<1>5. ASSUME NEW h \in Handlers, Save(h) PROVE TypeInv'
  <2>1. job[h].game.board \in Board
    BY DEF TypeOK, Job, Game
  <2>2. TypeOK'
    BY <1>5, <2>1 DEF Save, Goto, TypeOK, Locations, dbVars, counters
  <2>3. DroppedInBounds'
    BY <1>5 DEF Save, Goto, TypeOK, DroppedInBounds, Unrecorded
  <2> QED BY <2>2, <2>3
<1>6. ASSUME NEW h \in Handlers, Release(h) PROVE TypeInv'
  <2>1. TypeOK'
    BY <1>6, NoJobType DEF Release, Goto, TypeOK, Locations, dbVars, counters
  <2>2. DroppedInBounds'
    BY <1>6 DEF Release, Goto, TypeOK, DroppedInBounds, Unrecorded
  <2> QED BY <2>1, <2>2
<1>7. ASSUME NEW r \in Readers, FetchMissing(r) \/ Recover(r) \/ RecoverFail(r)
      PROVE  TypeInv'
  <2>1. TypeOK'
    BY <1>7, EmptyBoardIsNewGame
       DEF FetchMissing, Recover, RecoverFail, TypeOK, redisVars, dbVars, counters
  <2>2. DroppedInBounds'
    BY <1>7 DEF FetchMissing, Recover, RecoverFail, DroppedInBounds
  <2> QED BY <2>1, <2>2
<1>8. ASSUME NEW h \in Handlers, PersistCommit(h) PROVE TypeInv'
  <2>1. job[h] \in Job /\ job[h].column \in Col
    BY <1>8 DEF PersistCommit, TypeOK, DroppedInBounds, Unrecorded
  <2>2. moves' \subseteq [player : Player, column : Col, row : Row,
                          move_number : Nat]
    BY <1>8, <2>1, RecordType DEF PersistCommit, TypeOK
  <2>3. Finished(job[h].game) \in [status : {"PLAYING", "FINISHED", "DRAW"},
                                   winner : Player \cup {Nobody}]
    BY <2>1 DEF Finished, Job, Game
  <2>4. /\ row' \in [status : {"PLAYING", "FINISHED", "DRAW"}, winner : Player \cup {Nobody}]
        /\ rated' \in Nat
    BY <1>8, <2>3 DEF PersistCommit, TypeOK
  <2>5. pc' \in [Handlers -> Locations]
    BY <1>8 DEF PersistCommit, Goto, TypeOK, Locations
  <2>6. TypeOK'
    BY <1>8, <2>2, <2>4, <2>5 DEF PersistCommit, TypeOK, redisVars, counters
  <2>7. DroppedInBounds'
    BY <1>8 DEF PersistCommit, Goto, TypeOK, DroppedInBounds, Unrecorded
  <2> QED BY <2>6, <2>7
<1>9. ASSUME NEW h \in Handlers, PersistFail(h) PROVE TypeInv'
  <2>1. TypeOK'
    BY <1>9 DEF PersistFail, Goto, TypeOK, Locations, redisVars, dbVars
  <2>2. DroppedInBounds'
    BY <1>9 DEF PersistFail, Goto, TypeOK, DroppedInBounds, Unrecorded
  <2> QED BY <2>1, <2>2
<1>10. ASSUME NEW h \in Handlers, Reply(h) PROVE TypeInv'
  <2>1. TypeOK'
    BY <1>10, NoJobType DEF Reply, Goto, TypeOK, Locations, redisVars, dbVars, counters
  <2>2. DroppedInBounds'
    BY <1>10 DEF Reply, Goto, TypeOK, DroppedInBounds, Unrecorded
  <2> QED BY <2>1, <2>2
<1>11. CASE Expire
  BY <1>11 DEF Expire, TypeOK, DroppedInBounds, dbVars, counters
<1>12. CASE LoseBoard
  BY <1>12 DEF LoseBoard, TypeOK, DroppedInBounds, dbVars
<1>13. CASE Restart
  <2>1. TypeOK'
    BY <1>13, NoJobType DEF Restart, TypeOK, Locations, redisVars
  <2>2. DroppedInBounds'
    BY <1>13 DEF Restart, DroppedInBounds, Unrecorded
  <2> QED BY <2>1, <2>2
<1>14. CASE UNCHANGED vars
  BY <1>14 DEF vars, TypeOK, DroppedInBounds
<1> QED BY <1>1, <1>2, <1>3, <1>4, <1>5, <1>6, <1>7, <1>8, <1>9, <1>10, <1>11,
           <1>12, <1>13, <1>14 DEF Next, Step

(* TypeOK holds in every reachable state.                                  *)
THEOREM TypeCorrect == Spec => []TypeOK
<1>1. TypeInv => TypeOK
  BY DEF TypeInv
<1> QED BY TypeInit, TypeNext, <1>1, PTL DEF Spec

-----------------------------------------------------------------------------
(* The lock.  All the code gives a handler is the key that SET NX wrote;   *)
(* what makes it exclusive is that nobody but its holder removes it, which *)
(* is so as long as holders finish within its 5 seconds.                   *)

HolderInv == \A h \in Handlers : pc[h] \in Critical => lock = h

(* TryDrop stays inside the lock.                                          *)
LEMMA TryDropLocation ==
    ASSUME TypeOK, NEW h \in Handlers, NEW game, TryDrop(h, game)
    PROVE  /\ \A g \in Handlers : g # h => pc'[g] = pc[g] /\ job'[g] = job[g]
           /\ \/ /\ pc'[h] = "save"
                 /\ CanDrop(game, job[h].player, job[h].column)
                 /\ job'[h].game = Drop(game, job[h].player, job[h].column)
              \/ pc'[h] = "discard"
  BY DEF TryDrop, Goto, TypeOK, Dropped

LEMMA HolderNext ==
    ASSUME ~SlowHandlers, TypeInv, HolderInv, [Next]_vars
    PROVE  HolderInv'
<1> USE DEF TypeInv, TypeOK, HolderInv
<1>1. ASSUME NEW h \in Handlers, NEW p \in Player, NEW c \in 0 .. Cols, Acquire(h, p, c)
      PROVE  HolderInv'
  BY <1>1 DEF Acquire, Goto, Critical
<1>2. ASSUME NEW h \in Handlers, LoadBoard(h) \/ SaveFresh(h) PROVE HolderInv'
  <2>1. PICK game : TryDrop(h, game)
    BY <1>2 DEF LoadBoard, SaveFresh
  <2>2. \A g \in Handlers : g # h => pc'[g] = pc[g]
    BY <2>1, TryDropLocation
  <2>3. pc[h] \in Critical /\ lock' = lock
    BY <1>2 DEF LoadBoard, SaveFresh, Critical, redisVars
  <2> QED BY <2>2, <2>3
<1>3. ASSUME NEW h \in Handlers, LoadMissing(h) \/ Save(h) PROVE HolderInv'
  BY <1>3 DEF LoadMissing, Save, Goto, Critical, redisVars
<1>4. ASSUME NEW h \in Handlers, Release(h) PROVE HolderInv'
  BY <1>4 DEF Release, Goto, Critical
<1>5. ASSUME NEW h \in Handlers,
             PersistCommit(h) \/ PersistFail(h) \/ Reply(h)
      PROVE  HolderInv'
  BY <1>5 DEF PersistCommit, PersistFail, Reply, Goto, Critical, redisVars
<1>6. CASE Expire
  BY <1>6 DEF Expire
<1>7. CASE LoseBoard
  BY <1>7 DEF LoseBoard
<1>8. CASE Restart
  BY <1>8 DEF Restart, Critical
<1>9. ASSUME NEW r \in Readers, FetchMissing(r) \/ Recover(r) \/ RecoverFail(r)
      PROVE  HolderInv'
  BY <1>9 DEF FetchMissing, Recover, RecoverFail, redisVars
<1>10. CASE UNCHANGED vars
  BY <1>10 DEF vars
<1> QED BY <1>1, <1>2, <1>3, <1>4, <1>5, <1>6, <1>7, <1>8, <1>9, <1>10 DEF Next, Step

LEMMA HolderInit == Init => HolderInv
  BY DEF Init, HolderInv, Critical

(* If no holder outlives the 5 seconds, at most one handler at a time is   *)
(* inside acquire_game_lock.                                               *)
THEOREM LockExcludes ==
    ASSUME ~SlowHandlers PROVE Spec => []MutualExclusion
<1>1. TypeInv /\ HolderInv /\ [Next]_vars => HolderInv'
  BY HolderNext
<1>2. HolderInv => MutualExclusion
  BY DEF HolderInv, MutualExclusion
<1> QED BY TypeInit, TypeNext, HolderInit, <1>1, <1>2, PTL DEF Spec

-----------------------------------------------------------------------------
(* No move is lost.                                                        *)

(* What the holder of the lock read is still what Redis holds: the object  *)
(* it is about to save is one legal move ahead of the board, unless Redis  *)
(* dropped the board meanwhile.                                            *)
ReadIsFresh ==
    \A h \in Handlers :
        /\ pc[h] = "save" /\ board # NoBoard => LegalMove(board, job[h].game.board)
        /\ pc[h] = "refresh" => board = NoBoard

LEMMA DropIsLegalMove ==
    ASSUME NEW b \in Board, NEW p \in Player, NEW c, CanDrop(Recompute(b), p, c)
    PROVE  LegalMove(b, Drop(Recompute(b), p, c).board)
<1>1. c \in Col
  BY DEF CanDrop
<1> QED BY <1>1 DEF LegalMove

LEMMA ReadIsFreshNext ==
    ASSUME ~SlowHandlers, Readers = {}, TypeInv, HolderInv, ReadIsFresh, [Next]_vars
    PROVE  ReadIsFresh'
<1> USE DEF TypeInv, TypeOK, ReadIsFresh
<1> DEFINE Keeps(h) == /\ board' = board
                       /\ pc'[h] \notin {"save", "refresh"}
                       /\ \A g \in Handlers : g # h => pc'[g] = pc[g] /\ job'[g] = job[g]
<1>0. ASSUME NEW h \in Handlers, Keeps(h) PROVE ReadIsFresh'
  BY <1>0
<1>1. ASSUME NEW h \in Handlers, NEW p \in Player, NEW c \in 0 .. Cols, Acquire(h, p, c)
      PROVE  ReadIsFresh'
  BY <1>0, <1>1 DEF Acquire, Goto
<1>2. ASSUME NEW h \in Handlers, LoadBoard(h) PROVE ReadIsFresh'
  <2>1. board \in Board /\ board' = board /\ job[h].player \in Player
    BY <1>2 DEF LoadBoard, redisVars, Job
  <2>2. TryDrop(h, Recompute(board))
    BY <1>2 DEF LoadBoard
  <2>3. CASE pc'[h] = "save"
    <3>1. LegalMove(board, job'[h].game.board)
      BY <2>1, <2>2, <2>3, TryDropLocation, DropIsLegalMove
    <3> QED BY <2>1, <2>2, <2>3, <3>1, TryDropLocation
  <2>4. CASE pc'[h] = "discard"
    BY <1>0, <2>1, <2>2, <2>4, TryDropLocation
  <2> QED BY <2>2, <2>3, <2>4, TryDropLocation
<1>3. ASSUME NEW h \in Handlers, LoadMissing(h) PROVE ReadIsFresh'
  BY <1>3 DEF LoadMissing, Goto, redisVars
<1>4. ASSUME NEW h \in Handlers, NEW g \in Handlers, g # h,
             SaveFresh(h) \/ Save(h)
      PROVE  pc[g] \notin {"save", "refresh"}
  BY <1>4 DEF HolderInv, Critical, SaveFresh, Save
<1>5. ASSUME NEW h \in Handlers, SaveFresh(h) PROVE ReadIsFresh'
  <2>1. board' = EmptyBoard /\ EmptyBoard \in Board /\ job[h].player \in Player
    BY <1>5, EmptyBoardIsNewGame DEF SaveFresh, Job
  <2>2. TryDrop(h, Recompute(EmptyBoard))
    BY <1>5, EmptyBoardIsNewGame DEF SaveFresh
  <2>3. \A g \in Handlers : g # h => pc'[g] \notin {"save", "refresh"}
    BY <1>4, <1>5, <2>2, TryDropLocation
  <2>4. CASE pc'[h] = "save"
    <3>1. LegalMove(EmptyBoard, job'[h].game.board)
      BY <2>1, <2>2, <2>4, TryDropLocation, DropIsLegalMove
    <3> QED BY <2>1, <2>3, <2>4, <3>1
  <2>5. CASE pc'[h] = "discard"
    BY <2>3, <2>5
  <2> QED BY <2>2, <2>4, <2>5, TryDropLocation
<1>6. ASSUME NEW h \in Handlers, Save(h) PROVE ReadIsFresh'
  BY <1>4, <1>6 DEF Save, Goto
<1>7. ASSUME NEW h \in Handlers,
             Release(h) \/ PersistCommit(h) \/ PersistFail(h) \/ Reply(h)
      PROVE  ReadIsFresh'
  <2>1. Keeps(h)
    BY <1>7 DEF Release, PersistCommit, PersistFail, Reply, Goto, redisVars
  <2> QED BY <1>0, <2>1
<1>8. CASE Expire
  BY <1>8 DEF Expire
<1>9. CASE LoseBoard
  BY <1>9 DEF LoseBoard
<1>10. CASE Restart
  BY <1>10 DEF Restart
<1>11. CASE UNCHANGED vars
  BY <1>11 DEF vars
<1> QED BY <1>1, <1>2, <1>3, <1>5, <1>6, <1>7, <1>8, <1>9, <1>10, <1>11 DEF Next, Step

LEMMA ReadIsFreshInit == Init => ReadIsFresh
  BY DEF Init, ReadIsFresh

(* A step that changes the board Redis holds adds one legal piece to it.   *)
MoveOrLoss == board # NoBoard /\ board' \notin {board, NoBoard} => LegalMove(board, board')

LEMMA StepIsMove ==
    ASSUME Readers = {}, TypeInv, ReadIsFresh, [Next]_vars
    PROVE  MoveOrLoss
<1> SUFFICES ASSUME board # NoBoard, board' \notin {board, NoBoard}
             PROVE  LegalMove(board, board')
  BY DEF MoveOrLoss
<1>1. \E h \in Handlers : Save(h) \/ SaveFresh(h)
  BY DEF Next, Step, Acquire, LoadBoard, LoadMissing, Release, PersistCommit,
         PersistFail, Reply, Expire, LoseBoard, Restart, redisVars, vars
<1>2. PICK h \in Handlers : Save(h) \/ SaveFresh(h)
  BY <1>1
<1>3. CASE Save(h)
  BY <1>3 DEF Save, ReadIsFresh
<1>4. CASE SaveFresh(h)
  BY <1>4 DEF SaveFresh, ReadIsFresh
<1> QED BY <1>2, <1>3, <1>4

(* Without slow holders, and without a reader that re-creates a board, no  *)
(* handler overwrites what another one wrote: whatever replaces a board in *)
(* Redis is that board after one legal move.                               *)
THEOREM MovesAreNotLost ==
    ASSUME ~SlowHandlers, Readers = {} PROVE Spec => NoLostMove
<1>1. TypeInv /\ HolderInv /\ [Next]_vars => HolderInv'
  BY HolderNext
<1>2. TypeInv /\ HolderInv /\ ReadIsFresh /\ [Next]_vars => ReadIsFresh'
  BY ReadIsFreshNext
<1>3. TypeInv /\ ReadIsFresh /\ [Next]_vars =>
          [board # NoBoard /\ board' \notin {board, NoBoard} => LegalMove(board, board')]_vars
  BY StepIsMove DEF MoveOrLoss
<1> QED BY TypeInit, TypeNext, HolderInit, ReadIsFreshInit, <1>1, <1>2, <1>3, PTL
        DEF Spec, NoLostMove

-----------------------------------------------------------------------------
(* Whatever happens to the lock, Redis holds positions of a game.          *)

PositionInv ==
    /\ BoardIsLegal
    /\ \A h \in Handlers : pc[h] = "save" => LegalPosition(job[h].game.board)

LEMMA PositionInit == Init => PositionInv
  BY EmptyBoardIsLegal DEF Init, PositionInv, BoardIsLegal

LEMMA PositionNext == TypeInv /\ PositionInv /\ [Next]_vars => PositionInv'
<1> SUFFICES ASSUME TypeInv, PositionInv, [Next]_vars PROVE PositionInv'
  OBVIOUS
<1> USE DEF TypeInv, TypeOK, PositionInv, BoardIsLegal
<1>1. ASSUME NEW h \in Handlers, NEW p \in Player, NEW c \in 0 .. Cols, Acquire(h, p, c)
      PROVE  PositionInv'
  BY <1>1 DEF Acquire, Goto
<1>2. ASSUME NEW h \in Handlers, NEW b \in Board, LegalPosition(b), TryDrop(h, Recompute(b)),
             board' = b
      PROVE  PositionInv'
  <2>1. job[h].player \in Player
    BY DEF Job
  <2>2. pc'[h] = "save" => LegalPosition(job'[h].game.board)
    BY <1>2, <2>1, TryDropLocation, DropKeepsPositionLegal
  <2>3. \A g \in Handlers : g # h => pc'[g] = pc[g] /\ job'[g] = job[g]
    BY <1>2, TryDropLocation
  <2> QED BY <1>2, <2>2, <2>3
<1>3. ASSUME NEW h \in Handlers, LoadBoard(h) PROVE PositionInv'
  <2>1. board \in Board /\ LegalPosition(board)
    BY <1>3 DEF LoadBoard
  <2>2. TryDrop(h, Recompute(board)) /\ board' = board
    BY <1>3 DEF LoadBoard, redisVars
  <2> QED BY <1>2, <2>1, <2>2
<1>4. ASSUME NEW h \in Handlers, SaveFresh(h) PROVE PositionInv'
  <2>1. TryDrop(h, Recompute(EmptyBoard)) /\ board' = EmptyBoard
    BY <1>4, EmptyBoardIsNewGame DEF SaveFresh
  <2> QED BY <1>2, <2>1, EmptyBoardIsNewGame, EmptyBoardIsLegal
<1>5. ASSUME NEW h \in Handlers, LoadMissing(h) PROVE PositionInv'
  BY <1>5 DEF LoadMissing, Goto, redisVars
<1>6. ASSUME NEW h \in Handlers, Save(h) PROVE PositionInv'
  BY <1>6 DEF Save, Goto
<1>7. ASSUME NEW h \in Handlers,
             Release(h) \/ PersistCommit(h) \/ PersistFail(h) \/ Reply(h)
      PROVE  PositionInv'
  <2>1. /\ board' = board
        /\ pc'[h] # "save"
        /\ \A g \in Handlers : g # h => pc'[g] = pc[g] /\ job'[g] = job[g]
    BY <1>7 DEF Release, PersistCommit, PersistFail, Reply, Goto, redisVars
  <2> QED BY <2>1
<1>8. CASE Expire
  BY <1>8 DEF Expire
<1>9. CASE LoseBoard
  BY <1>9 DEF LoseBoard
<1>10. CASE Restart
  BY <1>10 DEF Restart, redisVars
<1>11. ASSUME NEW r \in Readers, FetchMissing(r) \/ Recover(r) \/ RecoverFail(r)
      PROVE  PositionInv'
  BY <1>11, EmptyBoardIsLegal DEF FetchMissing, Recover, RecoverFail, redisVars
<1>12. CASE UNCHANGED vars
  BY <1>12 DEF vars
<1> QED BY <1>1, <1>3, <1>4, <1>5, <1>6, <1>7, <1>8, <1>9, <1>10, <1>11, <1>12 DEF Next, Step

(* Slow holders and readers included: they can overwrite a move, but what  *)
(* they write is still a position a game can be in.                        *)
THEOREM BoardsAreLegal == Spec => []BoardIsLegal
<1>1. PositionInv => BoardIsLegal
  BY DEF PositionInv
<1> QED BY TypeInit, TypeNext, PositionInit, PositionNext, <1>1, PTL DEF Spec
-----------------------------------------------------------------------------
(* The records.  The move that a handler has saved and the database does   *)
(* not have yet counts as recorded, for no other handler can make it so.   *)

Record == [player : Player, column : Col, row : Row, move_number : Nat]

Records == moves \cup {RecordOf(job[h]) : h \in {g \in Handlers : pc[g] \in Unrecorded}}

Replays(b, R) ==
    \A m, n \in R :
        /\ b[<<m.row, m.column>>] = m.player
        /\ m.player = IF m.move_number % 2 = 1 THEN 1 ELSE 2
        /\ m.move_number = n.move_number => m = n
        /\ m.column = n.column /\ m.row < n.row => m.move_number > n.move_number

(* No record is of a move after the board's last.                          *)
NumbersEnd(b, R) == \A m \in R : m.move_number <= MoveNumber(b)

LEMMA OneMoreRecord ==
    ASSUME NEW b \in Board, Settled(b), NEW c \in Col, EmptyRows(b, c) # {},
           NEW R \in SUBSET Record, Replays(b, R), NumbersEnd(b, R),
           NEW m \in Record, m.column = c, m.row = LowestEmptyRow(b, c),
           m.player = TurnByCount(b),
           m.move_number = MoveNumber(Place(b, c, TurnByCount(b)))
    PROVE  LET after == Place(b, c, TurnByCount(b))
           IN  Replays(after, R \cup {m}) /\ NumbersEnd(after, R \cup {m})
<1> DEFINE after == Place(b, c, TurnByCount(b))
           cell == <<LowestEmptyRow(b, c), c>>
           k == MoveNumber(b)
<1>1. TurnByCount(b) \in Player
  BY DEF TurnByCount, Player
<1>2. cell \in Cell /\ b[cell] = Empty /\ after = [b EXCEPT ![cell] = TurnByCount(b)]
  BY <1>1, PlaceFillsOneCell
<1>3. k \in Nat /\ MoveNumber(after) = k + 1
  BY <1>1, PlaceCountsOneMore, PiecesAreFinite DEF MoveNumber
<1>4. m.move_number = k + 1 /\ <<m.row, m.column>> = cell
  BY <1>3
<1>5. m.player = IF m.move_number % 2 = 1 THEN 1 ELSE 2
  BY <1>3, <1>4 DEF TurnByCount, MoveNumber
<1>6. after[cell] = m.player
  BY <1>2 DEF Board
<1>7. ASSUME NEW n \in R
      PROVE  /\ after[<<n.row, n.column>>] = n.player /\ n.move_number <= k
             /\ n.move_number \in Nat
             /\ n.column = m.column => n.row > m.row
  <2>1. /\ b[<<n.row, n.column>>] = n.player /\ n.player # Empty
        /\ n.move_number <= k /\ n.move_number \in Nat
        /\ n.row \in Row /\ n.column \in Col
    BY <1>7 DEF Replays, NumbersEnd, Record, Player, Empty
  <2>2. <<n.row, n.column>> \in Cell /\ <<n.row, n.column>> # cell
    BY <1>2, <2>1 DEF Cell
  <2>3. after[<<n.row, n.column>>] = n.player
    BY <1>2, <2>1, <2>2 DEF Board
  <2>4. ASSUME n.column = m.column PROVE n.row > m.row
    <3>1. n.row # m.row
      BY <1>4, <2>2, <2>4
    <3>2. m.row \in Row /\ b[<<m.row, c>>] = Empty
      BY <1>2, <1>4 DEF Record
    <3>3. ~(n.row < m.row)
      BY <2>1, <2>4, <3>2, ColumnFillsUp
    <3> QED BY <2>1, <3>1, <3>2, <3>3 DEF Row
  <2> QED BY <2>1, <2>3, <2>4
<1> HIDE DEF after, cell, k
<1>8. \A n \in R : /\ n.move_number <= k /\ n.move_number \in Nat
                   /\ n.column = m.column => n.row > m.row
  BY <1>7
<1>11. m.row \in Int /\ \A n \in R : n.row \in Int
  BY DEF Record, Row
<1>9. NumbersEnd(after, R \cup {m})
  <2>1. k + 1 <= k + 1 /\ \A i \in Nat : i <= k => i <= k + 1
    BY <1>3
  <2> QED BY <1>3, <1>4, <1>8, <2>1, Zenon DEF NumbersEnd
<1>10. ASSUME NEW x \in R \cup {m}, NEW y \in R \cup {m}
       PROVE  /\ after[<<x.row, x.column>>] = x.player
              /\ x.player = IF x.move_number % 2 = 1 THEN 1 ELSE 2
              /\ x.move_number = y.move_number => x = y
              /\ x.column = y.column /\ x.row < y.row => x.move_number > y.move_number
  <2>1. CASE x = m /\ y = m
    BY <1>4, <1>5, <1>6, <1>11, <2>1
  <2>2. CASE x = m /\ y \in R
    <3>1. x.move_number > y.move_number
      BY <1>3, <1>4, <1>8, <2>2
    <3>2. x.move_number # y.move_number
      BY <1>3, <1>4, <1>8, <2>2
    <3> QED BY <1>4, <1>5, <1>6, <2>2, <3>1, <3>2
  <2>3. CASE x \in R /\ y = m
    <3>1. x.player = IF x.move_number % 2 = 1 THEN 1 ELSE 2
      BY <2>3 DEF Replays
    <3>2. ~(x.column = y.column /\ x.row < y.row)
      BY <1>8, <1>11, <2>3
    <3>3. x.move_number # y.move_number
      BY <1>3, <1>4, <1>8, <2>3
    <3> QED BY <1>7, <2>3, <3>1, <3>2, <3>3
  <2>4. CASE x \in R /\ y \in R
    BY <1>7, <2>4 DEF Replays
  <2> QED BY <1>10, <2>1, <2>2, <2>3, <2>4
<1> QED BY <1>9, <1>10 DEF Replays, after

(* As long as Redis loses nothing there is a board, so neither a handler   *)
(* nor a reader makes a new one, ...                                       *)
BoardStays ==
    losses = 0 => /\ board # NoBoard
                  /\ \A h \in Handlers : pc[h] # "refresh"
                  /\ \A r \in Readers : fetch[r] = "idle"

NextMove(b, j) ==
    /\ CanDrop(Recompute(b), j.player, j.column)
    /\ j.row = LowestEmptyRow(b, j.column)
    /\ j.game = Drop(Recompute(b), j.player, j.column)

LEMMA NextMoveFacts ==
    ASSUME NEW b \in Board, NEW j \in Job, NextMove(b, j)
    PROVE  /\ j.column \in Col /\ EmptyRows(b, j.column) # {}
           /\ j.player = TurnByCount(b)
           /\ j.game.board = Place(b, j.column, j.player)
<1>1. /\ Recompute(b) \in Game /\ Recompute(b).board = b
      /\ Recompute(b).next_player = TurnByCount(b)
  BY RecomputeType
<1>2. j.player \in Player
  BY DEF Job
<1>3. Drop(Recompute(b), j.player, j.column).board = Place(b, j.column, j.player)
  BY <1>1, <1>2, DropType DEF NextMove
<1> QED BY <1>1, <1>3 DEF NextMove, CanDrop

(* ... and what a handler saves is a move on that board.                   *)
SavesNext == losses = 0 => \A h \in Handlers : pc[h] = "save" => NextMove(board, job[h])

LEMMA BoardStaysNext ==
    ASSUME TypeInv, BoardStays, [Next]_vars
    PROVE  BoardStays'
<1> USE DEF TypeInv, TypeOK, BoardStays
<1> SUFFICES ASSUME losses' = 0
             PROVE  /\ board' # NoBoard
                    /\ \A h \in Handlers : pc'[h] # "refresh"
                    /\ \A r \in Readers : fetch'[r] = "idle"
  OBVIOUS
<1>1. ~LoseBoard
  BY DEF LoseBoard
<1>2. losses = 0
  BY <1>1 DEF Next, Step, Acquire, LoadBoard, LoadMissing, SaveFresh, Save, Release, PersistCommit,
              PersistFail, Reply, FetchMissing, Recover, RecoverFail, Expire, Restart, counters,
              vars
<1>3. /\ board # NoBoard /\ board \in Board
      /\ \A h \in Handlers : pc[h] # "refresh"
      /\ \A r \in Readers : fetch[r] = "idle"
  BY <1>2
<1>4. ASSUME NEW h \in Handlers, LoadBoard(h) \/ Save(h) PROVE BoardStays'
  <2>1. CASE LoadBoard(h)
    <3>1. board' = board /\ fetch' = fetch /\ TryDrop(h, Recompute(board))
      BY <2>1 DEF LoadBoard, redisVars
    <3> QED BY <1>3, <3>1, TryDropLocation
  <2>2. CASE Save(h)
    <3>1. job[h].game.board \in Board
      BY DEF Job, Game
    <3> QED BY <1>3, <2>2, <3>1, MovePathAssumption DEF Save, Goto
  <2> QED BY <1>4, <2>1, <2>2
<1>5. ASSUME NEW h \in Handlers, ~LoadBoard(h), ~Save(h), Step(h) \/ PersistFail(h)
      PROVE  BoardStays'
  <2>1. Release(h) \/ PersistCommit(h) \/ Reply(h) \/ PersistFail(h)
    BY <1>3, <1>5 DEF Step, LoadMissing, SaveFresh
  <2> QED BY <1>3, <2>1 DEF Release, PersistCommit, Reply, PersistFail, Goto, redisVars
<1>6. ASSUME NEW h \in Handlers, NEW p \in Player, NEW c \in 0 .. Cols, Acquire(h, p, c)
      PROVE  BoardStays'
  BY <1>3, <1>6 DEF Acquire, Goto
<1>7. ASSUME NEW r \in Readers, FetchMissing(r) \/ Recover(r) \/ RecoverFail(r) PROVE FALSE
  BY <1>3, <1>7 DEF FetchMissing, Recover, RecoverFail
<1>8. CASE Expire
  BY <1>3, <1>8 DEF Expire
<1>9. CASE Restart
  BY <1>3, <1>9 DEF Restart, redisVars
<1>10. CASE UNCHANGED vars
  BY <1>3, <1>10 DEF vars
<1>11. BoardStays'
  BY <1>1, <1>4, <1>5, <1>6, <1>7, <1>8, <1>9, <1>10 DEF Next
<1> QED BY <1>11

(* While Redis loses nothing, a step saves a move or keeps the board, and  *)
(* it takes a record away only with a transaction that fails or a process  *)
(* that dies.                                                              *)
Quiet ==
    /\ board' = board
    /\ Records' \subseteq Records
    /\ failures' = 0 /\ crashes' = 0 => failures = 0 /\ crashes = 0 /\ Records' = Records

LEMMA SameRecords ==
    ASSUME moves' = moves,
           \A g \in Handlers : /\ pc'[g] \in Unrecorded <=> pc[g] \in Unrecorded
                               /\ pc[g] \in Unrecorded => job'[g] = job[g]
    PROVE  Records' = Records
  BY DEF Records, RecordOf

LEMMA QuietSteps ==
    ASSUME TypeInv, BoardStays, [Next]_vars, losses' = 0
    PROVE  Quiet \/ \E h \in Handlers : Save(h)
<1> USE DEF TypeInv, TypeOK
<1>1. ~LoseBoard
  BY DEF LoseBoard
<1>2. losses = 0
  BY <1>1 DEF Next, Step, Acquire, LoadBoard, LoadMissing, SaveFresh, Save, Release, PersistCommit,
              PersistFail, Reply, FetchMissing, Recover, RecoverFail, Expire, Restart, counters,
              vars
<1>3. /\ board # NoBoard
      /\ \A h \in Handlers : pc[h] # "refresh"
      /\ \A r \in Readers : fetch[r] = "idle"
  BY <1>2 DEF BoardStays
<1>4. ASSUME NEW h \in Handlers, NEW p \in Player, NEW c \in 0 .. Cols, Acquire(h, p, c)
      PROVE  Quiet
  <2>1. Records' = Records
    BY <1>4, SameRecords DEF Acquire, Goto, Unrecorded, dbVars
  <2> QED BY <1>4, <2>1 DEF Acquire, Quiet, counters
<1>5. ASSUME NEW h \in Handlers, LoadBoard(h) PROVE Quiet
  <2>1. TryDrop(h, Recompute(board)) /\ pc[h] = "load" /\ UNCHANGED <<board, moves, counters>>
    BY <1>5 DEF LoadBoard, redisVars, dbVars
  <2>2. Records' = Records
    BY <2>1, TryDropLocation, SameRecords DEF Unrecorded
  <2> QED BY <2>1, <2>2 DEF Quiet, counters
<1>6. ASSUME NEW h \in Handlers, Release(h) \/ Reply(h) PROVE Quiet
  <2>1. Records' = Records
    BY <1>6, SameRecords DEF Release, Reply, Goto, Unrecorded, dbVars
  <2> QED BY <1>6, <2>1 DEF Release, Reply, Quiet, counters, redisVars
<1>7. ASSUME NEW h \in Handlers, PersistCommit(h) PROVE Quiet
  <2>1. /\ moves' = moves \cup {RecordOf(job[h])} /\ pc[h] = "commit"
        /\ pc' = [pc EXCEPT ![h] = "reply"] /\ UNCHANGED <<board, job, counters>>
    BY <1>7 DEF PersistCommit, Goto, redisVars
  <2>2. \A g \in Handlers : pc'[g] \in Unrecorded <=> g # h /\ pc[g] \in Unrecorded
    BY <2>1 DEF Unrecorded
  <2>3. pc[h] \in Unrecorded
    BY <2>1 DEF Unrecorded
  <2>4. \A g \in Handlers : RecordOf(job[g])' = RecordOf(job[g])
    BY <2>1 DEF RecordOf
  <2>5. Records' = Records
    BY <2>1, <2>2, <2>3, <2>4 DEF Records
  <2> QED BY <2>1, <2>5 DEF Quiet, counters
<1>8. ASSUME NEW h \in Handlers, PersistFail(h) PROVE Quiet
  <2>1. /\ UNCHANGED <<board, job, moves>> /\ failures' # 0
        /\ \A g \in Handlers : pc'[g] \in Unrecorded => pc[g] \in Unrecorded
    BY <1>8 DEF PersistFail, Goto, redisVars, dbVars, Unrecorded
  <2>2. Records' \subseteq Records
    BY <2>1 DEF Records, RecordOf
  <2> QED BY <2>1, <2>2 DEF Quiet
<1>9. CASE Restart
  <2>1. /\ UNCHANGED <<board, moves>> /\ crashes' # 0
        /\ \A g \in Handlers : pc'[g] \notin Unrecorded
    BY <1>9 DEF Restart, redisVars, Unrecorded
  <2>2. Records' \subseteq Records
    BY <2>1 DEF Records
  <2> QED BY <2>1, <2>2 DEF Quiet
<1>10. CASE Expire \/ UNCHANGED vars
  <2>1. UNCHANGED <<board, pc, job, moves, failures, crashes>>
    BY <1>10 DEF Expire, vars, dbVars, counters
  <2>2. Records' = Records
    BY <2>1, SameRecords
  <2> QED BY <2>1, <2>2 DEF Quiet
<1>11. ASSUME NEW r \in Readers, FetchMissing(r) \/ Recover(r) \/ RecoverFail(r) PROVE FALSE
  BY <1>3, <1>11 DEF FetchMissing, Recover, RecoverFail
<1>12. ASSUME NEW h \in Handlers, LoadMissing(h) \/ SaveFresh(h) PROVE FALSE
  BY <1>3, <1>12 DEF LoadMissing, SaveFresh
<1> QED BY <1>1, <1>4, <1>5, <1>6, <1>7, <1>8, <1>9, <1>10, <1>11, <1>12 DEF Next, Step

(* What drop computes from the board that was read.                        *)
LEMMA DropIsNextMove ==
    ASSUME TypeInv, board \in Board, NEW h \in Handlers, TryDrop(h, Recompute(board)),
           pc'[h] = "save"
    PROVE  NextMove(board, job'[h])
<1>1. job' = [job EXCEPT ![h] = Dropped(job[h], Recompute(board))]
      /\ CanDrop(Recompute(board), job[h].player, job[h].column)
  BY DEF TryDrop, Goto, TypeInv, TypeOK
<1>2. job'[h] = Dropped(job[h], Recompute(board))
  BY <1>1 DEF TypeInv, TypeOK
<1>3. Recompute(board).board = board
  BY RecomputeType
<1> QED BY <1>1, <1>2, <1>3 DEF Dropped, NextMove

LEMMA SavesNextNext ==
    ASSUME ~SlowHandlers, TypeInv, HolderInv, BoardStays, SavesNext, [Next]_vars
    PROVE  SavesNext'
<1> USE DEF TypeInv, TypeOK
<1> SUFFICES ASSUME losses' = 0, NEW k \in Handlers, pc'[k] = "save"
             PROVE  NextMove(board', job'[k])
  BY DEF SavesNext
<1>1. ~LoseBoard
  BY DEF LoseBoard
<1>2. losses = 0
  BY <1>1 DEF Next, Step, Acquire, LoadBoard, LoadMissing, SaveFresh, Save, Release, PersistCommit,
              PersistFail, Reply, FetchMissing, Recover, RecoverFail, Expire, Restart, counters,
              vars
<1>3. /\ board # NoBoard /\ board \in Board
      /\ \A h \in Handlers : pc[h] # "refresh"
      /\ \A r \in Readers : fetch[r] = "idle"
  BY <1>2 DEF BoardStays
<1>4. pc[k] = "save" => NextMove(board, job[k])
  BY <1>2 DEF SavesNext
<1>5. ASSUME board' = board, pc[k] = "save", job'[k] = job[k]
      PROVE  NextMove(board', job'[k])
  BY <1>4, <1>5
<1>6. ASSUME NEW h \in Handlers, NEW p \in Player, NEW c \in 0 .. Cols, Acquire(h, p, c)
      PROVE  NextMove(board', job'[k])
  BY <1>5, <1>6 DEF Acquire, Goto
<1>7. ASSUME NEW h \in Handlers, LoadBoard(h) PROVE NextMove(board', job'[k])
  <2>1. TryDrop(h, Recompute(board)) /\ board' = board
    BY <1>7 DEF LoadBoard, redisVars
  <2>2. CASE k = h
    <3>1. NextMove(board, job'[k])
      BY <1>3, <2>1, <2>2, DropIsNextMove
    <3> QED BY <2>1, <3>1
  <2>3. CASE k # h
    BY <1>5, <2>1, <2>3, TryDropLocation
  <2> QED BY <2>2, <2>3
<1>8. ASSUME NEW h \in Handlers, Save(h) PROVE FALSE
  <2>1. pc[h] = "save" /\ pc[k] = "save" /\ k # h
    BY <1>8 DEF Save, Goto
  <2> QED BY <2>1 DEF HolderInv, Critical
<1>9. ASSUME NEW h \in Handlers, LoadMissing(h) \/ SaveFresh(h) PROVE FALSE
  BY <1>3, <1>9 DEF LoadMissing, SaveFresh
<1>10. ASSUME NEW h \in Handlers,
              Release(h) \/ PersistCommit(h) \/ PersistFail(h) \/ Reply(h)
       PROVE  NextMove(board', job'[k])
  <2>1. board' = board /\ pc[k] = "save" /\ job'[k] = job[k]
    BY <1>10 DEF Release, PersistCommit, PersistFail, Reply, Goto, redisVars
  <2> QED BY <1>5, <2>1
<1>11. ASSUME NEW r \in Readers, FetchMissing(r) \/ Recover(r) \/ RecoverFail(r) PROVE FALSE
  BY <1>3, <1>11 DEF FetchMissing, Recover, RecoverFail
<1>12. CASE Restart
  BY <1>12 DEF Restart
<1>13. CASE Expire \/ UNCHANGED vars
  BY <1>5, <1>13 DEF Expire, vars
<1> QED BY <1>1, <1>6, <1>7, <1>8, <1>9, <1>10, <1>11, <1>12, <1>13 DEF Next, Step

(* A save records one move more: the piece it put on the board.            *)
LEMMA SaveRecords ==
    ASSUME TypeInv, NEW h \in Handlers, Save(h), NextMove(board, job[h]), board \in Board
    PROVE  /\ board' = Place(board, job[h].column, TurnByCount(board))
           /\ Records' = Records \cup {RecordOf(job[h])}
           /\ UNCHANGED <<failures, crashes, losses, moves>>
<1> USE DEF TypeInv, TypeOK
<1>1. /\ pc[h] = "save" /\ pc' = [pc EXCEPT ![h] = "keep"]
      /\ board' = job[h].game.board
      /\ UNCHANGED <<job, moves, failures, crashes, losses>>
  BY DEF Save, Goto, dbVars, counters
<1>2. \A g \in Handlers : pc'[g] \in Unrecorded <=> g = h \/ pc[g] \in Unrecorded
  BY <1>1 DEF Unrecorded
<1>3. \A g \in Handlers : RecordOf(job[g])' = RecordOf(job[g])
  BY <1>1 DEF RecordOf
<1>4. Records' = Records \cup {RecordOf(job[h])}
  BY <1>1, <1>2, <1>3 DEF Records
<1>5. job[h] \in Job
  OBVIOUS
<1> QED BY <1>1, <1>4, <1>5, NextMoveFacts

LEMMA RecordsAreTyped == TypeInv => Records \in SUBSET Record
<1> SUFFICES ASSUME TypeInv PROVE Records \in SUBSET Record
  OBVIOUS
<1>1. moves \subseteq Record
  BY DEF TypeInv, TypeOK, Record
<1>2. ASSUME NEW h \in Handlers, pc[h] \in Unrecorded PROVE RecordOf(job[h]) \in Record
  <2>1. job[h] \in Job /\ job[h].column \in Col
    BY <1>2 DEF TypeInv, TypeOK, DroppedInBounds
  <2> QED BY <2>1, RecordType DEF Record
<1> QED BY <1>1, <1>2 DEF Records

RecordsInv == losses = 0 => Replays(board, Records) /\ NumbersEnd(board, Records)

PiecesInv ==
    failures = 0 /\ crashes = 0 /\ losses = 0 => Pieces(board) = CellsOf(Records)

LEMMA RecordsInit == Init => BoardStays /\ SavesNext /\ RecordsInv /\ PiecesInv
<1> SUFFICES ASSUME Init PROVE BoardStays /\ SavesNext /\ RecordsInv /\ PiecesInv
  OBVIOUS
<1>1. board = EmptyBoard /\ moves = {} /\ pc = [h \in Handlers |-> "idle"]
  BY DEF Init
<1>2. BoardStays
  <2>1. EmptyBoard # NoBoard
    BY EmptyBoardIsNewGame, MovePathAssumption
  <2> QED BY <2>1 DEF Init, BoardStays
<1>3. SavesNext
  BY <1>1 DEF SavesNext
<1>4. Records = {}
  BY <1>1 DEF Records, Unrecorded
<1>5. Pieces(board) = {}
  BY <1>1 DEF Pieces, EmptyBoard
<1> QED BY <1>2, <1>3, <1>4, <1>5 DEF RecordsInv, PiecesInv, Replays, NumbersEnd, CellsOf

LEMMA RecordsNext ==
    ASSUME TypeInv, PositionInv, BoardStays, SavesNext, RecordsInv, PiecesInv, [Next]_vars
    PROVE  RecordsInv' /\ PiecesInv'
<1> SUFFICES ASSUME losses' = 0
             PROVE  RecordsInv' /\ PiecesInv'
  BY DEF RecordsInv, PiecesInv
<1>1. losses = 0
  <2>1. ~LoseBoard
    BY DEF LoseBoard, TypeInv, TypeOK
  <2> QED BY <2>1 DEF Next, Step, Acquire, LoadBoard, LoadMissing, SaveFresh, Save, Release,
              PersistCommit, PersistFail, Reply, FetchMissing, Recover, RecoverFail, Expire,
              Restart, counters, vars
<1>2. board \in Board /\ Settled(board)
  BY <1>1 DEF BoardStays, PositionInv, BoardIsLegal, LegalPosition, TypeInv, TypeOK
<1>3. CASE Quiet
  <2>1. RecordsInv'
    BY <1>1, <1>3 DEF Quiet, RecordsInv, Replays, NumbersEnd
  <2>2. PiecesInv'
    BY <1>1, <1>3 DEF Quiet, PiecesInv
  <2> QED BY <2>1, <2>2
<1>4. ASSUME NEW h \in Handlers, Save(h) PROVE RecordsInv' /\ PiecesInv'
  <2> DEFINE c == job[h].column
             t == TurnByCount(board)
             m == RecordOf(job[h])
  <2>1. NextMove(board, job[h])
    BY <1>1, <1>4 DEF SavesNext, Save
  <2>2. /\ c \in Col /\ EmptyRows(board, c) # {}
        /\ m.column = c /\ m.row = LowestEmptyRow(board, c) /\ m.player = t
        /\ m.move_number = MoveNumber(Place(board, c, t))
    <3>1. job[h] \in Job /\ board \in Board
      BY <1>2 DEF TypeInv, TypeOK
    <3> QED BY <2>1, <3>1, NextMoveFacts DEF NextMove, RecordOf
  <2>3. /\ board' = Place(board, c, t)
        /\ Records' = Records \cup {m}
        /\ UNCHANGED <<failures, crashes, losses>>
    BY <1>2, <1>4, <2>1, SaveRecords
  <2>4. m \in Record /\ Records \in SUBSET Record
    <3>1. job[h] \in Job
      BY DEF TypeInv, TypeOK
    <3> QED BY <2>2, <3>1, RecordType, RecordsAreTyped DEF Record
  <2>5. RecordsInv'
    <3>1. Replays(board, Records) /\ NumbersEnd(board, Records)
      BY <1>1 DEF RecordsInv
    <3> HIDE DEF c, t, m
    <3>2. Replays(Place(board, c, t), Records \cup {m}) /\ NumbersEnd(Place(board, c, t), Records \cup {m})
      BY <1>2, <2>2, <2>4, <3>1, OneMoreRecord DEF t
    <3> QED BY <2>3, <3>2 DEF RecordsInv
  <2>6. PiecesInv'
    <3>1. t \in Player
      BY DEF TurnByCount, Player
    <3>2. /\ <<m.row, m.column>> \in Cell
          /\ board' = [board EXCEPT ![<<m.row, m.column>>] = t]
      BY <1>2, <2>2, <2>3, <3>1, PlaceFillsOneCell
    <3> HIDE DEF c, t, m
    <3>3. Pieces(board') = Pieces(board) \cup {<<m.row, m.column>>}
      BY <1>2, <3>1, <3>2 DEF Pieces, Board, Player, Empty
    <3>4. CellsOf(Records') = CellsOf(Records) \cup {<<m.row, m.column>>}
      BY <2>3 DEF CellsOf
    <3> QED BY <1>1, <2>3, <3>3, <3>4 DEF PiecesInv
  <2> QED BY <2>5, <2>6
<1> QED BY <1>3, <1>4, QuietSteps

LEMMA RecordsHold ==
    ASSUME ~SlowHandlers
    PROVE  Spec => [](TypeInv /\ RecordsInv /\ PiecesInv)
<1>1. TypeInv /\ HolderInv /\ [Next]_vars => HolderInv'
  BY HolderNext
<1>2. TypeInv /\ BoardStays /\ [Next]_vars => BoardStays'
  BY BoardStaysNext
<1>3. TypeInv /\ HolderInv /\ BoardStays /\ SavesNext /\ [Next]_vars => SavesNext'
  BY SavesNextNext
<1>4. /\ TypeInv /\ PositionInv /\ BoardStays /\ SavesNext /\ RecordsInv /\ PiecesInv
      /\ [Next]_vars
      => RecordsInv' /\ PiecesInv'
  BY RecordsNext
<1> QED BY TypeInit, TypeNext, HolderInit, PositionInit, PositionNext, RecordsInit,
           <1>1, <1>2, <1>3, <1>4, PTL DEF Spec

(* If no holder outlives the 5 seconds, the rows of table moves give, in   *)
(* the order of their numbers, a part of the game on the board, whatever   *)
(* commits fail or overtake each other and wherever the process dies.      *)
THEOREM RecordsReplay ==
    ASSUME ~SlowHandlers PROVE Spec => []RecordsReplayByNumber
<1>1. RecordsInv => RecordsReplayByNumber
  BY DEF RecordsInv, Replays, Records, RecordsReplayByNumber
<1> QED BY <1>1, RecordsHold, PTL

(* ... and as long as no commit fails and the process does not die, every  *)
(* piece on the board has its row or a handler that is about to write it.  *)
THEOREM NothingUnaccounted ==
    ASSUME ~SlowHandlers PROVE Spec => []EveryPieceAccountedFor
<1>1. CellsOf(Records) = CellsOf(moves) \cup CellsOf(InFlight)
  <2> DEFINE Late == {RecordOf(job[h]) : h \in {g \in Handlers : pc[g] \in Unrecorded}}
  <2>1. CellsOf(Records) = CellsOf(moves) \cup CellsOf(Late)
    BY DEF CellsOf, Records
  <2>2. \A j \in InFlight : <<RecordOf(j).row, RecordOf(j).column>> = <<j.row, j.column>>
    BY DEF RecordOf
  <2>3. Late = {RecordOf(j) : j \in InFlight}
    BY DEF InFlight
  <2> HIDE DEF Late
  <2>4. CellsOf(Late) = CellsOf(InFlight)
    BY <2>2, <2>3 DEF CellsOf
  <2> QED BY <2>1, <2>4
<1>2. PiecesInv => EveryPieceAccountedFor
  BY <1>1 DEF PiecesInv, EveryPieceAccountedFor
<1> QED BY <1>2, RecordsHold, PTL

-----------------------------------------------------------------------------
(* The refinement of GameRules.                                            *)

LEMMA SameGeometry ==
    /\ \A b : Geometry!Result(b) = Lines!Result(b)
    /\ Rules!Cells = Lines!Cells
    /\ \A b, p : Rules!HasLine(b, p) <=> Lines!HasLine(b, p)
    /\ \A b : Rules!Full(b) <=> Lines!Full(b)
    /\ \A b, cell : Rules!Supported(b, cell) <=> Lines!Supported(b, cell)
  BY DEF Geometry!Result, Lines!Result, Geometry!HasLine, Geometry!Segments, Geometry!Segment,
         Geometry!Cells, Geometry!Full, Rules!Cells, Lines!Cells, Rules!HasLine, Lines!HasLine,
         Rules!Segments, Lines!Segments, Rules!Segment, Lines!Segment, Rules!Full, Lines!Full,
         Rules!Supported, Lines!Supported

(* What the rules say of the board after a move.                           *)
LEMMA MoveDecidesResult ==
    ASSUME NEW b \in Board, Settled(b), NEW j \in Job, NextMove(b, j)
    PROVE  LET cell  == <<j.row, j.column>>
               after == j.game.board
               p     == TurnByCount(b)
           IN  /\ Lines!Result(b) = 0
               /\ cell \in Lines!Cells /\ b[cell] = 0 /\ Lines!Supported(b, cell)
               /\ after \in Board /\ after = [b EXCEPT ![cell] = p]
               /\ TurnByCount(after) = 3 - p
               /\ Lines!Result(after) = IF Lines!HasLine(after, p) THEN p
                                        ELSE IF Lines!Full(after) THEN 3 ELSE 0
<1> DEFINE c     == j.column
           after == Place(b, c, TurnByCount(b))
           p     == TurnByCount(b)
<1>1. c \in Col /\ EmptyRows(b, c) # {} /\ j.game.board = after /\ j.row = LowestEmptyRow(b, c)
  BY NextMoveFacts DEF NextMove
<1>2. p \in Player
  BY DEF TurnByCount, Player
<1>3. Lines!Result(b) = 0
  BY RecomputeKnowsTheEnd DEF NextMove, CanDrop
<1>4. NoLine(b)
  BY <1>3 DEF Lines!Result, NoLine
<1>5. /\ <<j.row, c>> \in Lines!Cells /\ b[<<j.row, c>>] = 0
      /\ Lines!Supported(b, <<j.row, c>>)
      /\ after \in Board /\ after = [b EXCEPT ![<<j.row, c>>] = p]
      /\ \A q \in Player : q # p => ~Lines!HasLine(after, q)
  BY <1>1, <1>2, <1>4, DropPlaysByTheRules
<1>6. TurnByCount(after) = 3 - p
  BY <1>1, <1>2, PlaceCountsOneMore DEF Opponent
<1> HIDE DEF after, p, c
<1>7. Lines!Result(after) = IF Lines!HasLine(after, p) THEN p
                            ELSE IF Lines!Full(after) THEN 3 ELSE 0
  BY <1>2, <1>5 DEF Lines!Result, Player
<1> QED BY <1>1, <1>3, <1>5, <1>6, <1>7 DEF c, p

LEMMA StepFollowsRules ==
    ASSUME TypeInv, PositionInv, BoardStays, SavesNext, losses = 0, losses' = 0, [Next]_vars
    PROVE  [Rules!Next]_(Rules!vars)
<1>1. CASE Quiet
  BY <1>1 DEF Quiet, Rules!vars, RedisBoard
<1>2. ASSUME NEW h \in Handlers, Save(h) PROVE Rules!Next
  <2> DEFINE cell  == <<job[h].row, job[h].column>>
             after == job[h].game.board
  <2>1. job[h] \in Job /\ board \in Board /\ Settled(board) /\ board # NoBoard
    BY DEF BoardStays, PositionInv, BoardIsLegal, LegalPosition, TypeInv, TypeOK
  <2>2. NextMove(board, job[h]) /\ board' = after
    BY <1>2 DEF SavesNext, Save
  <2>3. /\ Lines!Result(board) = 0
        /\ cell \in Lines!Cells /\ board[cell] = 0 /\ Lines!Supported(board, cell)
        /\ after \in Board /\ after = [board EXCEPT ![cell] = TurnByCount(board)]
        /\ TurnByCount(after) = 3 - TurnByCount(board)
        /\ Lines!Result(after) = IF Lines!HasLine(after, TurnByCount(board)) THEN TurnByCount(board)
                                 ELSE IF Lines!Full(after) THEN 3 ELSE 0
    BY <2>1, <2>2, MoveDecidesResult
  <2>4. RedisBoard = board /\ RedisBoard' = after
    BY <2>1, <2>2, <2>3, MovePathAssumption DEF RedisBoard
  <2> HIDE DEF cell, after
  <2>5. Rules!Move(cell)
    BY <2>3, <2>4, SameGeometry DEF Rules!Move, Rules!Open, Rules!Drawn
  <2> QED BY <2>3, <2>5, SameGeometry DEF Rules!Next
<1> QED BY <1>1, <1>2, QuietSteps

LEMMA RulesInit == Init => Rules!Init
<1> SUFFICES ASSUME Init PROVE Rules!Init
  OBVIOUS
<1>1. RedisBoard = EmptyBoard
  BY DEF Init, RedisBoard
<1>2. /\ EmptyBoard \in Board /\ Settled(EmptyBoard) /\ Recompute(EmptyBoard) = NewGame
      /\ Recompute(EmptyBoard).next_player = TurnByCount(EmptyBoard)
  BY EmptyBoardIsNewGame, EmptyBoardIsLegal, RecomputeType DEF LegalPosition
<1>3. TurnByCount(EmptyBoard) = 1 /\ ~Over(Recompute(EmptyBoard))
  BY <1>2 DEF NewGame, Over
<1>4. Geometry!Result(EmptyBoard) = 0
  BY <1>2, <1>3, RecomputeKnowsTheEnd, SameGeometry
<1>5. Rules!Cells = Cell
  BY DEF Rules!Cells, Cell, Row, Col
<1> QED BY <1>1, <1>3, <1>4, <1>5 DEF EmptyBoard, Empty, Rules!Init, Rules!Open

(* If no holder outlives the 5 seconds and Redis loses no board, the       *)
(* boards that Redis holds are a game played by the rules, whatever the    *)
(* handlers, failed commits and restarts do in between.                    *)
THEOREM RedisPlaysByTheRules ==
    ASSUME ~SlowHandlers, MaxLosses = 0 PROVE Spec => ImplementsRules
<1> DEFINE NoLosses == losses = 0
<1>1. Init => NoLosses
  BY DEF Init
<1>2. NoLosses /\ TypeInv /\ [Next]_vars => NoLosses'
  BY DEF TypeInv, TypeOK, Next, Step, Acquire, LoadBoard, LoadMissing, SaveFresh, Save, Release,
         PersistCommit, PersistFail, Reply, FetchMissing, Recover, RecoverFail, Expire, LoseBoard,
         Restart, counters, vars
<1>3. TypeInv /\ HolderInv /\ [Next]_vars => HolderInv'
  BY HolderNext
<1>4. TypeInv /\ BoardStays /\ [Next]_vars => BoardStays'
  BY BoardStaysNext
<1>5. TypeInv /\ HolderInv /\ BoardStays /\ SavesNext /\ [Next]_vars => SavesNext'
  BY SavesNextNext
<1>6. /\ TypeInv /\ PositionInv /\ BoardStays /\ SavesNext /\ NoLosses /\ NoLosses'
      /\ [Next]_vars
      => [Rules!Next]_(Rules!vars)
  BY StepFollowsRules
<1>7. Init => BoardStays /\ SavesNext
  BY RecordsInit
<1> QED BY TypeInit, TypeNext, HolderInit, PositionInit, PositionNext, RulesInit,
           <1>1, <1>2, <1>3, <1>4, <1>5, <1>6, <1>7, PTL
        DEF Spec, ImplementsRules, Rules!Spec

-----------------------------------------------------------------------------
(* The result.  Of the moves on their way to the database at most one      *)
(* ended the game.                                                         *)

Decides(h) == pc[h] \in Unrecorded /\ Over(job[h].game)

Decided == Over(Recompute(board))

(* It ended it as the board shows, and nothing is rated yet; ...           *)
DecidersAgree ==
    \A g, h \in Handlers :
        /\ Decides(h) => Decided /\ rated = 0 /\ Finished(job[h].game) = Finished(Recompute(board))
        /\ Decides(g) /\ Decides(h) => g = h

(* ... while the row shows the result exactly if it was rated.             *)
RowShowsResult ==
    /\ rated \in {0, 1}
    /\ rated = 1 => Decided /\ row = Finished(Recompute(board))
    /\ rated = 0 => row.winner = Nobody /\ row.status # "DRAW"
    /\ crashes = 0 /\ row.status # "PLAYING" => rated = 1

ResultIsOnItsWay ==
    Decided /\ failures = 0 /\ crashes = 0 /\ rated = 0 => \E h \in Handlers : Decides(h)

ResultInv == losses = 0 => DecidersAgree /\ RowShowsResult /\ ResultIsOnItsWay

LEMMA ResultInit == Init => ResultInv
<1> SUFFICES ASSUME Init PROVE ResultInv
  OBVIOUS
<1>1. ~Decided
  <2>1. Recompute(EmptyBoard) = NewGame
    BY EmptyBoardIsNewGame
  <2> QED BY <2>1 DEF Init, Decided, Over, NewGame
<1>2. \A h \in Handlers : ~Decides(h)
  BY DEF Init, Decides, Unrecorded
<1> QED BY <1>1, <1>2 DEF Init, ResultInv, DecidersAgree, RowShowsResult, ResultIsOnItsWay

(* A step that leaves the deciders, the board and the row alone.           *)
LEMMA ResultKept ==
    ASSUME DecidersAgree, RowShowsResult, ResultIsOnItsWay,
           board' = board, row' = row, rated' = rated,
           crashes' = crashes, failures' = failures,
           \A g \in Handlers : /\ pc'[g] \in Unrecorded <=> pc[g] \in Unrecorded
                               /\ pc[g] \in Unrecorded => job'[g] = job[g]
    PROVE  DecidersAgree' /\ RowShowsResult' /\ ResultIsOnItsWay'
<1>1. Decided' = Decided /\ \A g \in Handlers : Decides(g)' <=> Decides(g)
  BY DEF Decided, Decides
<1>2. \A g \in Handlers : Decides(g) => job'[g] = job[g]
  BY DEF Decides
<1>3. RowShowsResult' /\ ResultIsOnItsWay'
  BY <1>1 DEF RowShowsResult, ResultIsOnItsWay
<1>4. DecidersAgree'
  BY <1>1, <1>2 DEF DecidersAgree
<1> QED BY <1>3, <1>4

(* A step that takes some deciders away, and counts that as a failure.     *)
LEMMA ResultForgotten ==
    ASSUME DecidersAgree, RowShowsResult,
           board' = board, rated' = rated, failures' # 0 \/ crashes' # 0,
           \/ row' = row /\ crashes' = crashes
           \/ crashes' # 0 /\ row' = IF row.status = "PLAYING"
                                   THEN [status |-> "FINISHED", winner |-> row.winner] ELSE row,
           \A g \in Handlers : pc'[g] \in Unrecorded => pc[g] \in Unrecorded /\ job'[g] = job[g]
    PROVE  DecidersAgree' /\ RowShowsResult' /\ ResultIsOnItsWay'
<1>1. Decided' = Decided /\ \A g \in Handlers : Decides(g)' => Decides(g) /\ job'[g] = job[g]
  BY DEF Decided, Decides
<1>2. DecidersAgree'
  BY <1>1 DEF DecidersAgree
<1>3. rated = 1 => row.status # "PLAYING"
  BY DEF RowShowsResult, Finished
<1>4. RowShowsResult'
  BY <1>1, <1>3 DEF RowShowsResult
<1>5. ResultIsOnItsWay'
  BY DEF ResultIsOnItsWay
<1> QED BY <1>2, <1>4, <1>5

LEMMA SaveDecides ==
    ASSUME TypeInv, DecidersAgree, RowShowsResult, ResultIsOnItsWay, NEW h \in Handlers, Save(h),
           board \in Board, Settled(board), NextMove(board, job[h])
    PROVE  DecidersAgree' /\ RowShowsResult' /\ ResultIsOnItsWay'
<1> DEFINE j == job[h]
<1>1. /\ j \in Job /\ j.player \in Player /\ j.game = Drop(Recompute(board), j.player, j.column)
      /\ CanDrop(Recompute(board), j.player, j.column)
  BY DEF TypeInv, TypeOK, Job, NextMove
<1>2. /\ pc' = [pc EXCEPT ![h] = "keep"] /\ board' = j.game.board
      /\ UNCHANGED <<job, row, rated, failures, crashes>>
  BY DEF Save, Goto, dbVars, counters
<1>3. ~Decided
  BY <1>1 DEF CanDrop, Decided
<1>4. rated = 0 /\ \A g \in Handlers : ~Decides(g)
  BY <1>3 DEF DecidersAgree, RowShowsResult
<1>5. Recompute(j.game.board).winner = j.game.winner /\ Recompute(j.game.board).is_draw = j.game.is_draw
  BY <1>1, DropAndReloadAgree
<1>6. /\ Decided' <=> Over(j.game)
      /\ Finished(Recompute(board')) = Finished(j.game)
  BY <1>2, <1>5 DEF Decided, Over, Finished
<1>7. \A g \in Handlers : Decides(g)' <=> g = h /\ Over(j.game)
  <2>1. \A g \in Handlers : pc'[g] \in Unrecorded <=> g = h \/ pc[g] \in Unrecorded
    BY <1>2 DEF TypeInv, TypeOK, Unrecorded
  <2> QED BY <1>2, <1>4, <2>1 DEF Decides
<1> HIDE DEF j
<1>8. \A g \in Handlers : Decides(g)' => job'[g].game = j.game
  BY <1>2, <1>7 DEF j
<1>9. DecidersAgree'
  BY <1>2, <1>4, <1>6, <1>7, <1>8 DEF DecidersAgree
<1>10. RowShowsResult'
  BY <1>2, <1>4 DEF RowShowsResult
<1>11. ResultIsOnItsWay'
  BY <1>6, <1>7 DEF ResultIsOnItsWay
<1> QED BY <1>9, <1>10, <1>11

LEMMA CommitDecides ==
    ASSUME TypeInv, DecidersAgree, RowShowsResult, ResultIsOnItsWay, NEW h \in Handlers,
           PersistCommit(h)
    PROVE  DecidersAgree' /\ RowShowsResult' /\ ResultIsOnItsWay'
<1>1. /\ pc[h] \in Unrecorded /\ pc' = [pc EXCEPT ![h] = "reply"]
      /\ UNCHANGED <<board, job, failures, crashes>>
  BY DEF PersistCommit, Goto, redisVars, counters, Unrecorded
<1>2. \A g \in Handlers : pc'[g] \in Unrecorded <=> g # h /\ pc[g] \in Unrecorded
  BY <1>1 DEF TypeInv, TypeOK, Unrecorded
<1>3. Decided' = Decided /\ \A g \in Handlers : Decides(g)' <=> g # h /\ Decides(g)
  BY <1>1, <1>2 DEF Decided, Decides
<1>4. CASE Decides(h)
  <2>1. row' = Finished(job[h].game) /\ rated' = rated + 1
    BY <1>4 DEF PersistCommit, Finishes, Decides
  <2>2. rated = 0 /\ Decided /\ Finished(job[h].game) = Finished(Recompute(board))
    BY <1>4 DEF DecidersAgree
  <2>3. \A g \in Handlers : ~Decides(g)'
    BY <1>3, <1>4 DEF DecidersAgree
  <2>4. rated' = 1 /\ row' = Finished(Recompute(board))
    BY <2>1, <2>2
  <2> QED BY <1>1, <1>3, <2>2, <2>3, <2>4 DEF DecidersAgree, RowShowsResult, ResultIsOnItsWay
<1>5. CASE ~Decides(h)
  <2>1. row' = row /\ rated' = rated
    BY <1>1, <1>5 DEF PersistCommit, Finishes, Decides
  <2>2. \A g \in Handlers : Decides(g)' <=> Decides(g)
    BY <1>3, <1>5
  <2>3. DecidersAgree'
    BY <1>1, <1>3, <2>1, <2>2 DEF DecidersAgree
  <2>4. RowShowsResult' /\ ResultIsOnItsWay'
    BY <1>1, <1>3, <2>1, <2>2 DEF RowShowsResult, ResultIsOnItsWay
  <2> QED BY <2>3, <2>4
<1> QED BY <1>4, <1>5

LEMMA ResultNext ==
    ASSUME TypeInv, PositionInv, BoardStays, SavesNext, ResultInv, [Next]_vars
    PROVE  ResultInv'
<1> SUFFICES ASSUME losses' = 0
             PROVE  DecidersAgree' /\ RowShowsResult' /\ ResultIsOnItsWay'
  BY DEF ResultInv
<1> USE DEF TypeInv, TypeOK
<1>1. ~LoseBoard
  BY DEF LoseBoard
<1>2. losses = 0
  BY <1>1 DEF Next, Step, Acquire, LoadBoard, LoadMissing, SaveFresh, Save, Release, PersistCommit,
              PersistFail, Reply, FetchMissing, Recover, RecoverFail, Expire, Restart, counters,
              vars
<1>3. /\ board # NoBoard /\ board \in Board /\ Settled(board)
      /\ \A h \in Handlers : pc[h] # "refresh"
      /\ \A r \in Readers : fetch[r] = "idle"
  BY <1>2 DEF BoardStays, PositionInv, BoardIsLegal, LegalPosition
<1>4. DecidersAgree /\ RowShowsResult /\ ResultIsOnItsWay
  BY <1>2 DEF ResultInv
<1>5. ASSUME NEW h \in Handlers, NEW p \in Player, NEW c \in 0 .. Cols, Acquire(h, p, c)
      PROVE  DecidersAgree' /\ RowShowsResult' /\ ResultIsOnItsWay'
  <2>1. /\ board' = board /\ row' = row /\ rated' = rated
        /\ crashes' = crashes /\ failures' = failures
    BY <1>5 DEF Acquire, dbVars, counters
  <2>2. \A g \in Handlers : /\ pc'[g] \in Unrecorded <=> pc[g] \in Unrecorded
                            /\ pc[g] \in Unrecorded => job'[g] = job[g]
    BY <1>5 DEF Acquire, Goto, Unrecorded
  <2> QED BY <1>4, <2>1, <2>2, ResultKept, Zenon
<1>6. ASSUME NEW h \in Handlers, LoadBoard(h)
      PROVE  DecidersAgree' /\ RowShowsResult' /\ ResultIsOnItsWay'
  <2>1. /\ TryDrop(h, Recompute(board)) /\ pc[h] = "load"
        /\ board' = board /\ row' = row /\ rated' = rated
        /\ crashes' = crashes /\ failures' = failures
    BY <1>6 DEF LoadBoard, redisVars, dbVars, counters
  <2>2. \A g \in Handlers : /\ pc'[g] \in Unrecorded <=> pc[g] \in Unrecorded
                            /\ pc[g] \in Unrecorded => job'[g] = job[g]
    BY <2>1, TryDropLocation DEF Unrecorded
  <2> QED BY <1>4, <2>1, <2>2, ResultKept, Zenon
<1>7. ASSUME NEW h \in Handlers, Save(h)
      PROVE  DecidersAgree' /\ RowShowsResult' /\ ResultIsOnItsWay'
  <2>1. NextMove(board, job[h])
    BY <1>2, <1>7 DEF SavesNext, Save
  <2> QED BY <1>3, <1>4, <1>7, <2>1, SaveDecides
<1>8. ASSUME NEW h \in Handlers, Release(h) \/ Reply(h)
      PROVE  DecidersAgree' /\ RowShowsResult' /\ ResultIsOnItsWay'
  <2>1. /\ board' = board /\ row' = row /\ rated' = rated
        /\ crashes' = crashes /\ failures' = failures
    BY <1>8 DEF Release, Reply, redisVars, dbVars, counters
  <2>2. \A g \in Handlers : /\ pc'[g] \in Unrecorded <=> pc[g] \in Unrecorded
                            /\ pc[g] \in Unrecorded => job'[g] = job[g]
    BY <1>8 DEF Release, Reply, Goto, Unrecorded
  <2> QED BY <1>4, <2>1, <2>2, ResultKept, Zenon
<1>9. ASSUME NEW h \in Handlers, PersistCommit(h)
      PROVE  DecidersAgree' /\ RowShowsResult' /\ ResultIsOnItsWay'
  BY <1>4, <1>9, CommitDecides
<1>10. ASSUME NEW h \in Handlers, PersistFail(h)
       PROVE  DecidersAgree' /\ RowShowsResult' /\ ResultIsOnItsWay'
  <2>1. /\ board' = board /\ row' = row /\ rated' = rated
        /\ crashes' = crashes /\ failures' # 0
        /\ \A g \in Handlers : pc'[g] \in Unrecorded => pc[g] \in Unrecorded /\ job'[g] = job[g]
    BY <1>10 DEF PersistFail, Goto, redisVars, dbVars, Unrecorded
  <2>2. /\ failures' # 0 \/ crashes' # 0
        /\ \/ row' = row /\ crashes' = crashes
           \/ crashes' # 0 /\ row' = IF row.status = "PLAYING"
                                   THEN [status |-> "FINISHED", winner |-> row.winner] ELSE row
    BY <2>1
  <2> QED BY <1>4, <2>1, <2>2, ResultForgotten, Zenon
<1>11. CASE Restart
  <2>1. /\ UNCHANGED <<board, rated>> /\ crashes' # 0
        /\ row' = IF row.status = "PLAYING"
                  THEN [status |-> "FINISHED", winner |-> row.winner] ELSE row
        /\ \A g \in Handlers : pc'[g] \in Unrecorded => pc[g] \in Unrecorded /\ job'[g] = job[g]
    BY <1>11 DEF Restart, redisVars, Unrecorded
  <2> QED BY <1>4, <2>1, ResultForgotten
<1>12. CASE Expire \/ UNCHANGED vars
  <2>1. /\ board' = board /\ row' = row /\ rated' = rated /\ pc' = pc /\ job' = job
        /\ crashes' = crashes /\ failures' = failures
    BY <1>12 DEF Expire, vars, dbVars, counters
  <2> QED BY <1>4, <2>1, ResultKept, Zenon
<1>13. ASSUME NEW r \in Readers, FetchMissing(r) \/ Recover(r) \/ RecoverFail(r) PROVE FALSE
  BY <1>3, <1>13 DEF FetchMissing, Recover, RecoverFail
<1>14. ASSUME NEW h \in Handlers, LoadMissing(h) \/ SaveFresh(h) PROVE FALSE
  BY <1>3, <1>14 DEF LoadMissing, SaveFresh
<1> QED BY <1>1, <1>5, <1>6, <1>7, <1>8, <1>9, <1>10, <1>11, <1>12, <1>13, <1>14 DEF Next, Step

LEMMA ResultHolds ==
    ASSUME ~SlowHandlers
    PROVE  Spec => [](TypeInv /\ PositionInv /\ BoardStays /\ ResultInv)
<1>1. TypeInv /\ HolderInv /\ [Next]_vars => HolderInv'
  BY HolderNext
<1>2. TypeInv /\ BoardStays /\ [Next]_vars => BoardStays'
  BY BoardStaysNext
<1>3. TypeInv /\ HolderInv /\ BoardStays /\ SavesNext /\ [Next]_vars => SavesNext'
  BY SavesNextNext
<1>4. TypeInv /\ PositionInv /\ BoardStays /\ SavesNext /\ ResultInv /\ [Next]_vars => ResultInv'
  BY ResultNext
<1>5. Init => BoardStays /\ SavesNext
  BY RecordsInit
<1> QED BY TypeInit, TypeNext, HolderInit, PositionInit, PositionNext, ResultInit,
           <1>1, <1>2, <1>3, <1>4, <1>5, PTL DEF Spec

(* If no holder outlives the 5 seconds, the result in table games is the   *)
(* one on the board, it is rated when it is written and at most once, and  *)
(* it is missing only if a commit failed or the process died.              *)
THEOREM ResultsAreRecordedOnce ==
    ASSUME ~SlowHandlers PROVE Spec => []ResultIsRecordedOnce
<1>1. BoardStays /\ ResultInv => ResultIsRecordedOnce
  <2> SUFFICES ASSUME BoardStays, ResultInv, losses = 0
               PROVE  ResultIsRecordedOnce
    BY DEF ResultIsRecordedOnce
  <2>1. DecidersAgree /\ RowShowsResult /\ ResultIsOnItsWay
    BY DEF ResultInv
  <2>2. RedisGame = Recompute(board)
    BY DEF BoardStays, RedisGame, RedisBoard
  <2>3. \A h \in Handlers : pc[h] \notin Unrecorded => ~Decides(h)
    BY DEF Decides
  <2> QED BY <2>1, <2>2, <2>3 DEF RowShowsResult, ResultIsOnItsWay, Decided, ResultIsRecordedOnce
<1> QED BY ResultHolds, <1>1, PTL

-----------------------------------------------------------------------------
(* Progress                                                                *)

(* The prover reasons about weak fairness but cannot compute ENABLED.  The *)
(* theorems below assume of it what the guards of the actions say: a       *)
(* handler that has begun can always go on, and Redis can always drop a    *)
(* lock whose holder has left it.                                          *)
StepsAreEnabled ==
    /\ \A h \in Handlers : pc[h] # "idle" => ENABLED <<Step(h)>>_vars
    /\ lock # Unlocked /\ pc[lock] \notin Critical => ENABLED <<Expire>>_vars

(* Where a handler may be next.                                            *)
Later(place) ==
    {"idle"} \cup CASE place = "load"    -> {"refresh", "save", "discard"}
                    [] place = "refresh" -> {"save", "discard"}
                    [] place = "save"    -> {"keep"}
                    [] place = "keep"    -> {"commit"}
                    [] place = "commit"  -> {"reply"}
                    [] OTHER             -> {}

(* Only a step of its own, a failed transaction or a restart moves it on.  *)
LEMMA PlacesInOrder ==
    ASSUME TypeOK, NEW h \in Handlers, pc[h] # "idle", [Next]_vars
    PROVE  /\ pc'[h] = pc[h] \/ pc'[h] \in Later(pc[h])
           /\ Step(h) => pc'[h] \in Later(pc[h]) /\ pc'[h] # pc[h]
<1>1. pc \in [Handlers -> Locations]
  BY DEF TypeOK
<1>2. ASSUME NEW g \in Handlers, NEW game, TryDrop(g, game)
      PROVE  pc'[g] \in {"save", "discard"} /\ \A k \in Handlers \ {g} : pc'[k] = pc[k]
  BY <1>2, TryDropLocation
<1>3. ASSUME NEW g \in Handlers, Step(g)
      PROVE  /\ pc[g] # "idle" /\ pc'[g] \in Later(pc[g]) /\ pc'[g] # pc[g]
             /\ \A k \in Handlers \ {g} : pc'[k] = pc[k]
  <2>1. CASE LoadBoard(g) \/ SaveFresh(g)
    <3>1. PICK game : TryDrop(g, game)
      BY <2>1 DEF LoadBoard, SaveFresh
    <3>2. pc'[g] \in {"save", "discard"} /\ \A k \in Handlers \ {g} : pc'[k] = pc[k]
      BY <1>2, <3>1
    <3>3. pc[g] = "load" \/ pc[g] = "refresh"
      BY <2>1 DEF LoadBoard, SaveFresh
    <3> QED BY <3>2, <3>3 DEF Later
  <2>2. CASE LoadMissing(g)
    BY <1>1, <2>2 DEF LoadMissing, Goto, Later
  <2>3. CASE Save(g)
    BY <1>1, <2>3 DEF Save, Goto, Later
  <2>4. CASE Release(g)
    BY <1>1, <2>4 DEF Release, Goto, Later
  <2>5. CASE PersistCommit(g) \/ Reply(g)
    BY <1>1, <2>5 DEF PersistCommit, Reply, Goto, Later
  <2> QED BY <1>3, <2>1, <2>2, <2>3, <2>4, <2>5 DEF Step
<1>4. ASSUME NEW g \in Handlers, PersistFail(g) PROVE pc'[h] = pc[h] \/ pc'[h] \in Later(pc[h])
  BY <1>1, <1>4 DEF PersistFail, Goto, Later
<1>5. ASSUME NEW g \in Handlers, NEW p, NEW c, Acquire(g, p, c) PROVE pc'[h] = pc[h]
  BY <1>1, <1>5 DEF Acquire, Goto
<1>6. CASE Restart
  BY <1>6 DEF Restart, Later
<1>7. ASSUME \/ Expire \/ LoseBoard \/ UNCHANGED vars
             \/ \E r \in Readers : FetchMissing(r) \/ Recover(r) \/ RecoverFail(r)
      PROVE  pc' = pc
  BY <1>7 DEF Expire, LoseBoard, vars, FetchMissing, Recover, RecoverFail
<1> QED BY <1>3, <1>4, <1>5, <1>6, <1>7 DEF Next

LEMMA LeavesPlace ==
    ASSUME NEW h \in Handlers, NEW place \in Locations \ {"idle"}
    PROVE  FairSpec /\ []StepsAreEnabled => (pc[h] = place ~> pc[h] \in Later(place))
<1>1. TypeOK /\ pc[h] = place /\ [Next]_vars => (pc[h] = place)' \/ (pc[h] \in Later(place))'
  BY PlacesInOrder
<1>2. TypeOK /\ pc[h] = place /\ [Next]_vars /\ <<Step(h)>>_vars => (pc[h] \in Later(place))'
  BY PlacesInOrder
<1>3. StepsAreEnabled => (pc[h] = place => ENABLED <<Step(h)>>_vars)
  BY DEF StepsAreEnabled
<1>4. FairSpec => Spec /\ Continues(h)
  BY DEF FairSpec
<1> QED BY <1>1, <1>2, <1>3, <1>4, TypeCorrect, PTL DEF Spec, Continues

(* Nobody but the holder frees its lock or lets it expire, and outside the *)
(* critical section it stays until the lock is free.                       *)
LEMMA HolderKeepsLock ==
    ASSUME TypeOK, NEW h \in Handlers, lock = h, [Next]_vars
    PROVE  /\ lock' \in {h, Unlocked}
           /\ pc[h] \notin Critical /\ lock' = h => pc'[h] \notin Critical
<1>1. pc \in [Handlers -> Locations] /\ h # Unlocked
  BY MovePathAssumption DEF TypeOK
<1>2. lock' \in {h, Unlocked}
  BY <1>1 DEF Next, Step, Acquire, LoadBoard, LoadMissing, SaveFresh, Save, Release, PersistCommit,
              PersistFail, Reply, FetchMissing, Recover, RecoverFail, Expire, LoseBoard, Restart,
              redisVars, vars
<1>3. ASSUME pc[h] = "idle" PROVE pc'[h] = "idle"
  <2>1. ASSUME NEW g \in Handlers, Step(g) PROVE g # h
    BY <1>3, <2>1 DEF Step, LoadBoard, LoadMissing, SaveFresh, Save, Release, PersistCommit, Reply
  <2>2. ASSUME NEW g \in Handlers, LoadBoard(g) \/ SaveFresh(g) PROVE pc'[h] = "idle"
    BY <1>3, <2>1, <2>2, TryDropLocation DEF LoadBoard, SaveFresh, Step
  <2>3. ASSUME NEW g \in Handlers, LoadMissing(g) \/ Save(g) \/ Release(g) \/ PersistCommit(g) \/ Reply(g)
        PROVE  pc'[h] = "idle"
    BY <1>1, <1>3, <2>1, <2>3 DEF LoadMissing, Save, Release, PersistCommit, Reply, Goto, Step
  <2>4. ASSUME NEW g \in Handlers, PersistFail(g) PROVE pc'[h] = "idle"
    BY <1>1, <1>3, <2>4 DEF PersistFail, Goto
  <2>5. ASSUME NEW g, NEW p, NEW c, Acquire(g, p, c) PROVE FALSE
    BY <1>1, <2>5 DEF Acquire
  <2>6. CASE Restart
    BY <2>6 DEF Restart
  <2>7. ASSUME \/ Expire \/ LoseBoard \/ UNCHANGED vars
               \/ \E r \in Readers : FetchMissing(r) \/ Recover(r) \/ RecoverFail(r)
        PROVE  pc' = pc
    BY <2>7 DEF Expire, LoseBoard, vars, FetchMissing, Recover, RecoverFail
  <2> QED BY <1>3, <2>2, <2>3, <2>4, <2>5, <2>6, <2>7 DEF Next, Step
<1>4. ASSUME pc[h] # "idle", pc[h] \notin Critical PROVE pc'[h] \notin Critical
  <2>1. pc[h] \in {"commit", "reply"}
    BY <1>1, <1>4 DEF Locations, Critical
  <2>2. pc'[h] = pc[h] \/ pc'[h] \in Later(pc[h])
    BY <1>4, PlacesInOrder
  <2> QED BY <2>1, <2>2 DEF Later, Critical
<1> QED BY <1>2, <1>3, <1>4 DEF Critical

LEMMA HolderLeaves ==
    ASSUME NEW h \in Handlers, NEW place \in Critical
    PROVE  FairSpec /\ []StepsAreEnabled
               => (lock = h /\ pc[h] = place
                   ~> lock = Unlocked \/ (lock = h /\ pc[h] \in Later(place)))
<1>1. place # "idle"
  BY DEF Critical
<1>2. TypeOK /\ lock = h /\ pc[h] = place /\ [Next]_vars
      => \/ (lock = h /\ pc[h] = place)'
         \/ (lock = Unlocked \/ (lock = h /\ pc[h] \in Later(place)))'
  BY <1>1, PlacesInOrder, HolderKeepsLock
<1>3. TypeOK /\ lock = h /\ pc[h] = place /\ [Next]_vars /\ <<Step(h)>>_vars
      => (lock = Unlocked \/ (lock = h /\ pc[h] \in Later(place)))'
  BY <1>1, PlacesInOrder, HolderKeepsLock
<1>4. StepsAreEnabled => (lock = h /\ pc[h] = place => ENABLED <<Step(h)>>_vars)
  BY <1>1 DEF StepsAreEnabled
<1>5. FairSpec => Spec /\ Continues(h)
  BY DEF FairSpec
<1> QED BY <1>2, <1>3, <1>4, <1>5, TypeCorrect, PTL DEF Spec, Continues

LEMMA LeftLockExpires ==
    ASSUME NEW h \in Handlers
    PROVE  FairSpec /\ []StepsAreEnabled
               => (lock = h /\ pc[h] \notin Critical ~> lock = Unlocked)
<1>1. h # Unlocked
  BY MovePathAssumption
<1>2. TypeOK /\ lock = h /\ pc[h] \notin Critical /\ [Next]_vars
      => (lock = h /\ pc[h] \notin Critical)' \/ (lock = Unlocked)'
  BY HolderKeepsLock
<1>3. lock = h /\ <<Expire>>_vars => (lock = Unlocked)'
  BY DEF Expire
<1>4. StepsAreEnabled => (lock = h /\ pc[h] \notin Critical => ENABLED <<Expire>>_vars)
  BY <1>1 DEF StepsAreEnabled
<1>5. FairSpec => Spec /\ LocksExpire
  BY DEF FairSpec
<1> QED BY <1>2, <1>3, <1>4, <1>5, TypeCorrect, PTL DEF Spec, LocksExpire

LEMMA HolderFreesLock ==
    ASSUME NEW h \in Handlers
    PROVE  FairSpec /\ []StepsAreEnabled => (lock = h ~> lock = Unlocked)
<1> DEFINE Leaves(place) == FairSpec /\ []StepsAreEnabled
               => (lock = h /\ pc[h] = place
                   ~> lock = Unlocked \/ (lock = h /\ pc[h] \in Later(place)))
<1>1. \A place \in Critical : Leaves(place)
  BY HolderLeaves
<1> HIDE DEF Leaves
<1>2. Leaves("load") /\ Leaves("refresh") /\ Leaves("save") /\ Leaves("keep") /\ Leaves("discard")
  BY <1>1 DEF Critical
<1> USE DEF Leaves
<1>3. /\ pc[h] \in Later("load")
             => pc[h] \notin Critical \/ pc[h] = "refresh" \/ pc[h] = "save" \/ pc[h] = "discard"
      /\ pc[h] \in Later("refresh")
             => pc[h] \notin Critical \/ pc[h] = "save" \/ pc[h] = "discard"
      /\ pc[h] \in Later("save") => pc[h] \notin Critical \/ pc[h] = "keep"
      /\ pc[h] \in Later("keep") => pc[h] \notin Critical
      /\ pc[h] \in Later("discard") => pc[h] \notin Critical
  BY DEF Later, Critical
<1>4. \/ pc[h] \notin Critical \/ pc[h] = "load" \/ pc[h] = "refresh" \/ pc[h] = "save"
      \/ pc[h] = "keep" \/ pc[h] = "discard"
  BY DEF Critical
<1> QED BY <1>2, <1>3, <1>4, LeftLockExpires, PTL

(* However its holder ends, the lock does not stay taken (store.py 53-59). *)
THEOREM LocksAreFreed == FairSpec /\ []StepsAreEnabled => LockIsFreed
<1>1. FairSpec /\ []StepsAreEnabled => \A h \in Handlers : [](lock = h => <>(lock = Unlocked))
  <2>1. ASSUME NEW h \in Handlers
        PROVE  FairSpec /\ []StepsAreEnabled => [](lock = h => <>(lock = Unlocked))
    BY HolderFreesLock, PTL
  <2> QED BY <2>1
<1>2. (\A h \in Handlers : [](lock = h => <>(lock = Unlocked)))
      => [](\A h \in Handlers : lock = h => <>(lock = Unlocked))
  OBVIOUS
<1>3. (\A h \in Handlers : lock = h => <>(lock = Unlocked)) /\ lock \in Handlers
      => <>(lock = Unlocked)
  OBVIOUS
<1>4. TypeOK => lock \in Handlers \/ lock = Unlocked
  BY DEF TypeOK
<1>5. FairSpec => Spec
  BY DEF FairSpec
<1> QED BY <1>1, <1>2, <1>3, <1>4, <1>5, TypeCorrect, PTL DEF LockIsFreed

-----------------------------------------------------------------------------
(* A result on its way to the database arrives, or something is lost.      *)

Rated == rated > 0 \/ failures > 0 \/ crashes > 0 \/ losses > 0

Carries(h, place) == pc[h] = place /\ Over(job[h].game)

LEMMA CarrierKeepsOn ==
    ASSUME TypeOK, NEW h \in Handlers, NEW place \in Unrecorded, Carries(h, place), [Next]_vars
    PROVE  /\ Rated' \/ Carries(h, place)' \/ (place = "keep" /\ Carries(h, "commit")')
           /\ Step(h) => Rated' \/ (place = "keep" /\ Carries(h, "commit")')
<1>1. /\ pc \in [Handlers -> Locations] /\ job \in [Handlers -> Job]
      /\ rated \in Nat /\ failures \in Nat /\ crashes \in Nat /\ losses \in Nat
      /\ pc[h] = place /\ place \in {"keep", "commit"} /\ Over(job[h].game)
  BY DEF TypeOK, Carries, Unrecorded
<1>2. ASSUME NEW g \in Handlers, Step(g), g # h PROVE Carries(h, place)'
  <2>1. CASE LoadBoard(g) \/ SaveFresh(g)
    <3>1. PICK game : TryDrop(g, game)
      BY <2>1 DEF LoadBoard, SaveFresh
    <3>2. pc'[h] = pc[h] /\ job'[h] = job[h]
      BY <1>1, <1>2, <3>1 DEF TryDrop, Goto
    <3> QED BY <1>1, <3>2 DEF Carries
  <2>2. CASE LoadMissing(g) \/ Save(g) \/ Release(g) \/ PersistCommit(g) \/ Reply(g)
    <3>1. pc'[h] = pc[h] /\ job'[h] = job[h]
      BY <1>1, <1>2, <2>2 DEF LoadMissing, Save, Release, PersistCommit, Reply, Goto
    <3> QED BY <1>1, <3>1 DEF Carries
  <2> QED BY <1>2, <2>1, <2>2 DEF Step
<1>3. ASSUME Step(h) PROVE Rated' \/ (place = "keep" /\ Carries(h, "commit")')
  <2>1. CASE place = "keep"
    <3>1. Release(h)
      BY <1>1, <1>3, <2>1 DEF Step, LoadBoard, LoadMissing, SaveFresh, Save, PersistCommit, Reply
    <3>2. pc'[h] = "commit" /\ job' = job
      BY <1>1, <2>1, <3>1 DEF Release, Goto
    <3> QED BY <1>1, <2>1, <3>2 DEF Carries
  <2>2. CASE place = "commit"
    <3>1. PersistCommit(h)
      BY <1>1, <1>3, <2>2 DEF Step, LoadBoard, LoadMissing, SaveFresh, Save, Release, Reply
    <3>2. rated' = rated + 1
      BY <1>1, <3>1 DEF PersistCommit, Finishes
    <3> QED BY <1>1, <3>2 DEF Rated
  <2> QED BY <1>1, <2>1, <2>2
<1>4. ASSUME NEW g \in Handlers, PersistFail(g) PROVE Rated'
  BY <1>1, <1>4 DEF PersistFail, Rated
<1>5. ASSUME NEW g \in Handlers, NEW p, NEW c, Acquire(g, p, c) PROVE Carries(h, place)'
  <2>1. g # h
    BY <1>1, <1>5 DEF Acquire
  <2>2. pc'[h] = pc[h] /\ job'[h] = job[h]
    BY <1>1, <1>5, <2>1 DEF Acquire, Goto
  <2> QED BY <1>1, <2>2 DEF Carries
<1>6. CASE Restart \/ LoseBoard
  BY <1>1, <1>6 DEF Restart, LoseBoard, Rated
<1>7. ASSUME \/ Expire \/ UNCHANGED vars
             \/ \E r \in Readers : FetchMissing(r) \/ Recover(r) \/ RecoverFail(r)
      PROVE  Carries(h, place)'
  <2>1. pc' = pc /\ job' = job
    BY <1>7 DEF Expire, vars, FetchMissing, Recover, RecoverFail
  <2> QED BY <1>1, <2>1 DEF Carries
<1>8. ASSUME NEW g \in Handlers, Step(g)
      PROVE  Rated' \/ Carries(h, place)' \/ (place = "keep" /\ Carries(h, "commit")')
  BY <1>2, <1>3, <1>8
<1>9. Rated' \/ Carries(h, place)' \/ (place = "keep" /\ Carries(h, "commit")')
  BY <1>4, <1>5, <1>6, <1>7, <1>8 DEF Next
<1> QED BY <1>3, <1>9

LEMMA CarriedResultArrives ==
    ASSUME NEW h \in Handlers
    PROVE  FairSpec /\ []StepsAreEnabled => [](Decides(h) => <>Rated)
<1>1. FairSpec => Spec /\ Continues(h)
  BY DEF FairSpec
<1>2. /\ TypeOK /\ Carries(h, "keep") /\ [Next]_vars
           => (Carries(h, "keep") \/ Carries(h, "commit") \/ Rated)'
      /\ TypeOK /\ Carries(h, "commit") /\ [Next]_vars => (Carries(h, "commit") \/ Rated)'
      /\ TypeOK /\ Carries(h, "keep") /\ [Next]_vars /\ <<Step(h)>>_vars
           => (Carries(h, "commit") \/ Rated)'
      /\ TypeOK /\ Carries(h, "commit") /\ [Next]_vars /\ <<Step(h)>>_vars => Rated'
  BY CarrierKeepsOn DEF Unrecorded
<1>3. StepsAreEnabled => (Carries(h, "keep") \/ Carries(h, "commit") => ENABLED <<Step(h)>>_vars)
  BY DEF StepsAreEnabled, Carries
<1>4. Decides(h) => Carries(h, "keep") \/ Carries(h, "commit")
  BY DEF Decides, Carries, Unrecorded
<1> QED BY <1>1, <1>2, <1>3, <1>4, TypeCorrect, PTL DEF Spec, Continues

LEMMA ResultIsCarried ==
    ASSUME TypeInv, PositionInv, BoardStays, ResultInv, Geometry!Result(RedisBoard) # 0
    PROVE  Rated \/ \E h \in Handlers : Decides(h)
<1> SUFFICES ASSUME ~Rated PROVE \E h \in Handlers : Decides(h)
  OBVIOUS
<1>1. rated = 0 /\ failures = 0 /\ crashes = 0 /\ losses = 0
  BY DEF Rated, TypeInv, TypeOK
<1>2. board \in Board /\ Settled(board) /\ RedisBoard = board
  BY <1>1 DEF BoardStays, PositionInv, BoardIsLegal, LegalPosition, TypeInv, TypeOK, RedisBoard
<1>3. Decided
  BY <1>2, SameGeometry, RecomputeKnowsTheEnd DEF Decided
<1> QED BY <1>1, <1>3 DEF ResultInv, ResultIsOnItsWay

(* If no holder outlives the 5 seconds, every finished game is rated in    *)
(* the end, unless a commit fails, the process dies or Redis loses it      *)
(* (websocket.py 255-270).                                                 *)
THEOREM ResultsArrive ==
    ASSUME ~SlowHandlers
    PROVE  FairSpec /\ []StepsAreEnabled => FinishedGameIsRated
<1>1. FairSpec /\ []StepsAreEnabled => \A h \in Handlers : [](Decides(h) => <>Rated)
  BY CarriedResultArrives
<1>2. (\A h \in Handlers : [](Decides(h) => <>Rated))
      => [](\A h \in Handlers : Decides(h) => <>Rated)
  OBVIOUS
<1>3. (\A h \in Handlers : Decides(h) => <>Rated) /\ (\E h \in Handlers : Decides(h)) => <>Rated
  OBVIOUS
<1>4. TypeInv /\ PositionInv /\ BoardStays /\ ResultInv
      => (Geometry!Result(RedisBoard) # 0 => Rated \/ \E h \in Handlers : Decides(h))
  BY ResultIsCarried
<1>5. FairSpec => Spec
  BY DEF FairSpec
<1> QED BY <1>1, <1>2, <1>3, <1>4, <1>5, ResultHolds, PTL DEF FinishedGameIsRated, Rated
=============================================================================
