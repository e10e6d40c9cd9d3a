------------------------------ MODULE MovePath ------------------------------
(***************************************************************************)
(* The path of a move through the server, for one game: the WebSocket      *)
(* handler _handle_move (app/websocket.py) and the REST handler make_move  *)
(* (app/routes/games.py), the lock and the board they share in Redis       *)
(* (app/store.py), the rows they write to PostgreSQL, and get_game, which  *)
(* stores an empty board when Redis has none.                              *)
(*                                                                         *)
(* A handler is one asyncio task, a WebSocket connection's receive loop or *)
(* a REST request.  It is split at its awaits: whatever stands between two *)
(* of them is one action.  The game is in play: its row has two players.   *)
(***************************************************************************)
EXTENDS Connect4

CONSTANTS
    WsHandlers, RestHandlers,  \* the tasks that handle moves of this game
    Readers,        \* the tasks that answer GET /games/{game_id}
    SlowHandlers,   \* may a handler hold the lock longer than its 5 seconds?
    MaxCrashes,     \* bound on restarts of the server process
    MaxFailures,    \* bound on database transactions that fail
    MaxLosses,      \* bound on how often Redis drops the board (TTL, eviction)
    Unlocked,       \* the value of lock when the key lock:{game_id} is unset
    NoBoard         \* the value of board when the key game:{game_id} is unset

Handlers == WsHandlers \cup RestHandlers

ASSUME MovePathAssumption ==
    /\ WsHandlers \cap RestHandlers = {}
    /\ SlowHandlers \in BOOLEAN
    /\ MaxCrashes \in Nat /\ MaxFailures \in Nat /\ MaxLosses \in Nat
    /\ Unlocked \notin Handlers
    /\ NoBoard \notin Board

VARIABLES
    lock,      \* Redis lock:{game_id}.  Its value is always "1": the holder
               \* kept here is read by Expire and by properties, never by handlers
    board,     \* Redis game:{game_id}
    pc,        \* the await each handler is at
    job,       \* the local variables of each handler
    moves,     \* rows of table moves for this game
    row,       \* the row of table games
    rated,     \* how many Elo updates this game has caused
    fetch,     \* what each reader is about to do
    crashes, failures, losses

redisVars == <<lock, board>>
dbVars    == <<moves, row, rated>>
counters  == <<crashes, failures, losses>>
vars      == <<lock, board, pc, job, moves, row, rated, fetch, crashes, failures, losses>>

Locations == {"idle", "load", "refresh", "save", "keep", "discard",
              "commit", "reply"}

(* Where a handler is inside "async with acquire_game_lock".               *)
Critical == {"load", "refresh", "save", "keep", "discard"}

(* Where it has saved a piece that the database does not have yet.         *)
Unrecorded == {"keep", "commit"}

Request(p, c) == [player |-> p, column |-> c, row |-> 0, game |-> NewGame]

NoJob == Request(1, 0)

Job == [player : Player, column : Int, row : Row, game : Game]

MoveNumber(b) == Cardinality(Pieces(b))

Init ==
    /\ lock = Unlocked
    /\ board = EmptyBoard
    /\ pc = [h \in Handlers |-> "idle"]
    /\ job = [h \in Handlers |-> NoJob]
    /\ moves = {}
    /\ row = [status |-> "PLAYING", winner |-> Nobody]
    /\ rated = 0
    /\ fetch = [r \in Readers |-> "idle"]
    /\ crashes = 0 /\ failures = 0 /\ losses = 0

Goto(h, location) == pc' = [pc EXCEPT ![h] = location]

-----------------------------------------------------------------------------
(* Fault: SET without NX.                                                  *)
AcquireWithoutNX(h, p, c) ==
    /\ pc[h] = "idle"
    /\ lock' = h
    /\ job' = [job EXCEPT ![h] = Request(p, c)]
    /\ Goto(h, "load")
    /\ UNCHANGED <<board, dbVars, fetch, counters>>

(* A move message or request arrives and SET NX takes the lock.  If the    *)
(* key is set the handler answers "retry" and nothing changes.             *)
Acquire(h, p, c) ==
    /\ pc[h] = "idle"
    /\ lock = Unlocked
    /\ lock' = h
    /\ job' = [job EXCEPT ![h] = Request(p, c)]
    /\ Goto(h, "load")
    /\ UNCHANGED <<board, dbVars, fetch, counters>>

(* The local variables after a drop on game.                               *)
Dropped(j, game) ==
    [player |-> j.player, column |-> j.column,
     row  |-> LowestEmptyRow(game.board, j.column),
     game |-> Drop(game, j.player, j.column)]

(* game.drop on the loaded object: no await between reading the board and  *)
(* the outcome, so it belongs to the step that read it.                    *)
TryDrop(h, game) ==
    \/ /\ CanDrop(game, job[h].player, job[h].column)
       /\ job' = [job EXCEPT ![h] = Dropped(job[h], game)]
       /\ Goto(h, "save")
    \/ /\ ~CanDrop(game, job[h].player, job[h].column)
       /\ Goto(h, "discard")
       /\ UNCHANGED job

(* load_game when the key exists.                                          *)
LoadBoard(h) ==
    /\ pc[h] = "load"
    /\ board # NoBoard
    /\ \E game \in {Recompute(board)} : TryDrop(h, game)
    /\ UNCHANGED <<redisVars, dbVars, fetch, counters>>

(* load_game raises KeyError: REST answers 404, WebSocket goes on to save  *)
(* a fresh board.                                                          *)
LoadMissing(h) ==
    /\ pc[h] = "load"
    /\ board = NoBoard
    /\ Goto(h, IF h \in WsHandlers THEN "refresh" ELSE "discard")
    /\ UNCHANGED <<redisVars, job, dbVars, fetch, counters>>

SaveFresh(h) ==
    /\ pc[h] = "refresh"
    /\ board' = EmptyBoard
    /\ TryDrop(h, NewGame)
    /\ UNCHANGED <<lock, dbVars, fetch, counters>>

(* save_game: an unconditional SET.                                        *)
Save(h) ==
    /\ pc[h] = "save"
    /\ board' = job[h].game.board
    /\ Goto(h, "keep")
    /\ UNCHANGED <<lock, job, dbVars, fetch, counters>>

(* Leaving the lock deletes the key, whoever set it last.  A refused move  *)
(* ends here.                                                              *)
Release(h) ==
    /\ pc[h] \in {"keep", "discard"}
    /\ lock' = Unlocked
    /\ IF pc[h] = "keep"
       THEN Goto(h, "commit") /\ UNCHANGED job
       ELSE Goto(h, "idle") /\ job' = [job EXCEPT ![h] = NoJob]
    /\ UNCHANGED <<board, dbVars, fetch, counters>>

-----------------------------------------------------------------------------
(* The database transaction, after the lock is gone.                       *)

(* Faults: moves are numbered by the rows that exist already; rows count   *)
(* from the bottom.                                                        *)
RecordByCount(j) ==
    [player |-> j.player, column |-> j.column, row |-> j.row,
     move_number |-> Cardinality(moves) + 1]

RecordFromBottom(j) ==
    [player |-> j.player, column |-> j.column, row |-> (Rows - 1) - j.row,
     move_number |-> MoveNumber(j.game.board)]

RecordOf(j) == [player |-> j.player, column |-> j.column, row |-> j.row,
                move_number |-> MoveNumber(j.game.board)]

(* finish_game.                                                            *)
Finished(g) == [status |-> IF g.is_draw THEN "DRAW" ELSE "FINISHED",
                winner |-> g.winner]

(* Faults: only a win finishes the row; the result is taken from the board *)
(* in Redis and not from the move.                                         *)
FinishesByWin(j)   == j.game.winner # Nobody
FinishesByRedis(j) == board # NoBoard /\ Over(Recompute(board))

Finishes(j) == Over(j.game)

(* record_move and, when the move ended the game, finish_game and the Elo  *)
(* update become visible together.                                         *)
PersistCommit(h) ==
    /\ pc[h] = "commit"
    /\ moves' = moves \cup {RecordOf(job[h])}
    /\ IF Finishes(job[h])
       THEN row' = Finished(job[h].game) /\ rated' = rated + 1
       ELSE UNCHANGED <<row, rated>>
    /\ Goto(h, "reply")
    /\ UNCHANGED <<redisVars, job, fetch, counters>>

(* The transaction fails; the exception is logged and swallowed.           *)
PersistFail(h) ==
    /\ failures < MaxFailures
    /\ pc[h] = "commit"
    /\ failures' = failures + 1
    /\ Goto(h, "reply")
    /\ UNCHANGED <<redisVars, job, dbVars, fetch, crashes, losses>>

(* log_event, then the broadcast or the HTTP response.                     *)
Reply(h) ==
    /\ pc[h] = "reply"
    /\ Goto(h, "idle")
    /\ job' = [job EXCEPT ![h] = NoJob]
    /\ UNCHANGED <<redisVars, dbVars, fetch, counters>>

-----------------------------------------------------------------------------
(* get_game.  A board that Redis has is the answer, and nothing changes;   *)
(* if it has none, the row of the game is looked up.                       *)
FetchMissing(r) ==
    /\ fetch[r] = "idle"
    /\ board = NoBoard
    /\ fetch' = [fetch EXCEPT ![r] = "recover"]
    /\ UNCHANGED <<redisVars, pc, job, dbVars, counters>>

(* The row exists: save_game of a new board, without the lock, whatever    *)
(* Redis holds by now.                                                     *)
Recover(r) ==
    /\ fetch[r] = "recover"
    /\ board' = EmptyBoard
    /\ fetch' = [fetch EXCEPT ![r] = "idle"]
    /\ UNCHANGED <<lock, pc, job, dbVars, counters>>

(* The look-up fails: 404.                                                 *)
RecoverFail(r) ==
    /\ fetch[r] = "recover"
    /\ fetch' = [fetch EXCEPT ![r] = "idle"]
    /\ UNCHANGED <<redisVars, pc, job, dbVars, counters>>

-----------------------------------------------------------------------------
(* Fault: the key has no expiry.                                           *)
NoExpiry == FALSE

(* EX 5: Redis drops the lock.  Without slow handlers that happens only to *)
(* a lock whose holder has died.                                           *)
Expire ==
    /\ lock # Unlocked
    /\ SlowHandlers \/ pc[lock] \notin Critical
    /\ lock' = Unlocked
    /\ UNCHANGED <<board, pc, job, dbVars, fetch, counters>>

(* The board outlives its sliding TTL, or Redis loses it.                  *)
LoseBoard ==
    /\ losses < MaxLosses
    /\ board # NoBoard
    /\ board' = NoBoard
    /\ losses' = losses + 1
    /\ UNCHANGED <<lock, pc, job, dbVars, fetch, crashes, failures>>

(* The process dies and starts again: its tasks are gone, what Redis holds *)
(* stays, open transactions roll back, and lifespan runs                   *)
(* cleanup_stale_games before any request is served.                       *)
Restart ==
    /\ crashes < MaxCrashes
    /\ crashes' = crashes + 1
    /\ pc' = [h \in Handlers |-> "idle"]
    /\ job' = [h \in Handlers |-> NoJob]
    /\ fetch' = [r \in Readers |-> "idle"]
    /\ row' = IF row.status = "PLAYING"
              THEN [status |-> "FINISHED", winner |-> row.winner] ELSE row
    /\ UNCHANGED <<redisVars, moves, rated, failures, losses>>

-----------------------------------------------------------------------------
Step(h) ==
    \/ LoadBoard(h) \/ LoadMissing(h) \/ SaveFresh(h) \/ Save(h) \/ Release(h)
    \/ PersistCommit(h) \/ Reply(h)

Next ==
    \/ \E h \in Handlers : \/ \E p \in Player, c \in 0 .. Cols : Acquire(h, p, c)
                           \/ Step(h)
                           \/ PersistFail(h)
    \/ \E r \in Readers : FetchMissing(r) \/ Recover(r) \/ RecoverFail(r)
    \/ Expire \/ LoseBoard \/ Restart

Spec == Init /\ [][Next]_vars

(* The event loop runs every task that is ready and Redis and PostgreSQL   *)
(* answer; Redis drops expired keys.  Nothing makes a player move.         *)
Continues(h)  == WF_vars(Step(h))
LocksExpire   == WF_vars(Expire)

FairSpec == Spec /\ (\A h \in Handlers : Continues(h)) /\ LocksExpire

-----------------------------------------------------------------------------
(* Properties.                                                             *)

(* Every variable is of its type.                                          *)
TypeOK ==
    /\ lock \in Handlers \cup {Unlocked}
    /\ board \in Board \cup {NoBoard}
    /\ pc \in [Handlers -> Locations]
    /\ job \in [Handlers -> Job]
    /\ moves \subseteq [player : Player, column : Col, row : Row,
                        move_number : Nat]
    /\ row \in [status : {"PLAYING", "FINISHED", "DRAW"}, winner : Player \cup {Nobody}]
    /\ rated \in Nat /\ fetch \in [Readers -> {"idle", "recover"}]
    /\ crashes \in Nat /\ failures \in Nat /\ losses \in Nat

(* At most one handler is inside acquire_game_lock (store.py:41-59).       *)
MutualExclusion ==
    \A g, h \in Handlers : pc[g] \in Critical /\ pc[h] \in Critical => g = h

(* Every board Redis holds is a position of a game, whatever happens to    *)
(* the lock: handlers that lose it can lose moves but never leave a        *)
(* floating piece or let a player move twice (websocket.py:233-245).       *)
BoardIsLegal == board # NoBoard => LegalPosition(board)

LegalMove(b, c) ==
    LET game == Recompute(b)
    IN  \E p \in Player, col \in Col :
            CanDrop(game, p, col) /\ c = Drop(game, p, col).board

(* Two simultaneous requests cannot corrupt each other's state             *)
(* (routes/games.py:54-55): whatever a handler writes over a board is that *)
(* board after one legal move.  The board only ever disappears because     *)
(* Redis drops it.                                                         *)
NoLostMove ==
    [][board # NoBoard /\ board' \notin {board, NoBoard} => LegalMove(board, board')]_vars

(* While Redis keeps the board, the boards it holds are a game played by   *)
(* the rules: lock, load, drop, save and restarts together implement       *)
(* GameRules (websocket.py:228-245, routes/games.py:76-102).               *)
RedisBoard == IF board = NoBoard THEN EmptyBoard ELSE board
RedisGame  == Recompute(RedisBoard)

Geometry == INSTANCE BoardGeometry

Rules == INSTANCE GameRules
         WITH position <- RedisBoard, turn <- TurnByCount(RedisBoard),
              outcome <- Geometry!Result(RedisBoard)

ImplementsRules == Rules!Spec

(* The rows of table moves, in the order of their move_number, are a part  *)
(* of the game on the board whatever the order of the commits: numbers are *)
(* unique and give the turn, every recorded piece is on the board, and a   *)
(* piece has a higher number than the pieces below it                      *)
(* (websocket.py:250-254, repository.py:111-141).                          *)
RecordsReplayByNumber ==
    losses = 0 =>
        \A m, n \in moves :
            /\ board[<<m.row, m.column>>] = m.player
            /\ m.player = IF m.move_number % 2 = 1 THEN 1 ELSE 2
            /\ m.move_number = n.move_number => m = n
            /\ m.column = n.column /\ m.row < n.row => m.move_number > n.move_number

CellsOf(records) == {<<m.row, m.column>> : m \in records}

InFlight == {job[h] : h \in {g \in Handlers : pc[g] \in Unrecorded}}

(* Every piece on the board is recorded, or a handler that has saved it is *)
(* still on the way to the database; only a failed transaction or a        *)
(* restart can leave a piece without a record (websocket.py:245-273).      *)
EveryPieceAccountedFor ==
    failures = 0 /\ crashes = 0 /\ losses = 0 =>
        Pieces(board) = CellsOf(moves) \cup CellsOf(InFlight)

(* The result in table games is the result on the board, it is rated       *)
(* exactly when it is written, at most once, and once the handlers are     *)
(* done a finished game has its result, unless a transaction failed or the *)
(* process died.  A row is finished without a result only by the cleanup   *)
(* of a restart (websocket.py:255-271, repository.py:144-168, 486-507).    *)
ResultIsRecordedOnce ==
    losses = 0 =>
        LET game == RedisGame
        IN  /\ rated <= 1
            /\ rated = 1 => Over(game) /\ row = Finished(game)
            /\ rated = 0 => row.winner = Nobody /\ row.status # "DRAW"
            /\ crashes = 0 /\ row.status # "PLAYING" => rated = 1
            /\ Over(game) /\ failures = 0 /\ crashes = 0
                   /\ (\A h \in Handlers : pc[h] \notin Unrecorded)
               => rated = 1

(* The lock does not stay taken, not even when its holder dies: a handler  *)
(* releases it or it expires (store.py:53-59).                             *)
LockIsFreed == lock # Unlocked ~> lock = Unlocked

(* A finished game is eventually rated, unless a transaction failed, the   *)
(* process died or Redis lost the board (websocket.py:255-270).            *)
FinishedGameIsRated ==
    Geometry!Result(RedisBoard) # 0 ~> rated > 0 \/ failures > 0 \/ crashes > 0 \/ losses > 0
=============================================================================
