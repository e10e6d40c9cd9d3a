# Connect 4 real-time prototype: models, checks and proofs

TLA+ modules of the server (Python, FastAPI, Redis, PostgreSQL) and of the parts of its browser client that
take part in its protocols, TLC configurations that check them on small instances, and TLAPS proofs of what
matters most for every instance. Line numbers refer to the files under `app/` and `static/`.

## 1. The system

One asyncio process serves REST requests and WebSocket connections. A handler runs alone until it awaits, so
every `await` is a point where another handler may run. State lives in four places that no transaction spans.

| Place | State | Written by |
|---|---|---|
| Redis | `game:{id}` (the board, 24 h), `lock:{id}` (5 s), `matchmaking:queue`, `matchmaking:expiry:{id}` (300 s), `matchmaking:result:{id}` (120 s) | store.py, matchmaking.py, websocket.py |
| PostgreSQL | `players` (rating), `games` (status, players, winner), `moves` | repository.py, called by every route |
| Process memory | rooms, player map, rematch votes, `_db_game_id`, user names, presence | connection_manager.py, websocket.py |
| Browser | game, side, board as last shown, timers, disabled buttons | app.js |

### Components

**Game engine** (game.py). State: the board, the player to move, winner, winning cells, draw. Operations:
`drop`, and the reconstruction of an object from its board, because only the board is stored. Correct when the
games it allows are those of the rules, whatever the points at which it was stored and reloaded.

**Store and lock** (store.py). `acquire_game_lock` is `SET lock:{id} "1" NX EX 5` and an unconditional
`DELETE`; `load_game`, `save_game`. Correct when handlers exclude each other, a lock is always freed, and no
move is overwritten.

**Move handlers** (websocket.py `_handle_move`, games.py `make_move`). Lock, load (the WebSocket handler
re-creates a lost board, the REST handler answers 404), drop, save, release; then a transaction that records
the move and, if the game is over, its result and the ratings; then the broadcast or the response. The
transaction may fail and the game goes on. Correct when board, rows of moves, result and ratings agree.

**Room** (connection_manager.py, websocket.py `_handle_identify`, `_handle_rematch`). Which connections are in
a game's room, who they are, who votes for a rematch, and under which row of `games` the room's moves are
recorded. The last connection that leaves, or is pruned by a failing broadcast, purges all of it. Correct when
a rematch takes both players, each game is recorded apart, and nothing is left over.

**Matchmaking** (matchmaking.py and its part of app.js). A queue ordered by rating; the joiner matches the
first valid candidate within 200 points, creates the game and leaves a result for the player who waits, whose
browser polls for it. Correct when a match has two players who both learn of it and agree on their sides.

**Game records** (repository.py, games.py). Rows go from WAITING through PLAYING to FINISHED or DRAW; a waiting
game may be cancelled; a restart marks open games FINISHED. Every operation reads a row and writes it later.
Correct when a game has one joiner, a cancelled game is not in play, and a result is written once.

**Game screen** (app.js 628-684, 907-916, 1101-1226, 1266-1284). A page holds a socket, the board it was last
shown, a count of reconnect attempts and timers. It enters a game with a socket and a GET, shows whatever a
broadcast or an answer brings, reconnects with backoff when its socket closes, and fetches the board again.
Correct when both pages end with the stored board and no old timer disturbs a live connection.

**Elo ratings and statistics** (repository.py 144-202, 301-358, 386-462). The transaction of a game's last move
writes its result and reads and writes two ratings; totals, streak and leaderboard are computed from the rows.
Correct when no change of a rating is lost or made twice, the statistics count exactly the rated games, and
the transactions of different games end.

**Players** (players.py), **presence** (`heartbeat`, `online_count`), **audit** (audit.py), and the **lobby and
replay screens**. The rest, validation models, markup, migrations, deployment, keeps no state of its own;
`PROJECT.json` lists every part with its status.

### Interactions

- Browser to server: REST calls, and one WebSocket per open game whose messages the server handles one by one.
- WebSocket and REST handlers of one game meet in the lock and the board, and in the rows of the game.
- A room's rematch writes the board (without the lock) and `_db_game_id`, which the move handler reads after it
  has released the lock.
- Matchmaking and the lobby both create rows and boards; the match reaches the other player through Redis.
- A restart (`lifespan`) ends every handler, marks open games FINISHED and empties the queue; Redis keeps the
  rest, and the browsers reconnect or keep polling.

### What is hard

Interleavings at awaits; a lock that expires under its holder; saves and commits that are not atomic together;
restarts between them; keys that expire; broken connections that are noticed late, by somebody else's
broadcast; answers that arrive after the screen that asked for them is gone. `PROJECT.json` lists these hazards
at their lines, with the properties that watch them or the reason why none does yet.

## 2. Modules

| Module | Models | Composes |
|---|---|---|
| `Connect4` | game.py as operators over a board of any size | |
| `BoardGeometry` | reference definitions: segments, full, supported, result | |
| `GameRules` | abstract specification: position, turn, outcome | `BoardGeometry` |
| `Connect4Game` | one game on the engine, with reloads; refines `GameRules` | `Connect4`, `GameRules` |
| `MovePath` | move handlers, lock, board, rows of one game, readers that re-create a lost board; refines `GameRules` | `Connect4`, `BoardGeometry`, `GameRules` |
| `Matchmaking` | the three endpoints, their keys, the browser's search | |
| `Room` | connections, identity, votes, rematch, rows of one room, the browser's buttons | |
| `Lobby` | create, join, cancel, their transactions and commits, the waiting card and its poll | |
| `GameScreen` | the two pages of a game, their sockets, broadcasts send by send, GET, reconnect, restarts | |
| `Ratings` | the transactions of finished games, the Elo formula, the statistics read from the rows | |
| `Connect4Proofs`, `Connect4GameProofs`, `MovePathProofs`, `LobbyProofs`, `RoomProofs`, `GameScreenProofs`, `MatchmakingProofs`, `RatingsProofs` | theorems | the modules they name |
| `MCMovePath`, `MCMatchmaking`, `MCRoom`, `MCLobby`, `MCGameScreen`, `MCRatings` | constants and symmetry for TLC | |

Operators whose comment begins with "Fault:" are no part of the specifications. Each is a plausible mistake in
the definition that follows it, and shows that a property would notice it.

### State and actions

*Connect4.* `Game` is the object's attributes, the board a function on `Row \X Col` with 0 for empty.
`CanDrop`/`Drop` are `drop` with its four errors as a guard; `FindWinningCells` is the search around the last
piece in four directions, `CheckDraw` the test of the top row, `Recompute` `_recompute_terminal` with the scan
order of the cells that decides which of several wins is reported. Rows, columns and line length are constants.

*MovePath.* `pc[h]` is the await a handler is at and `job[h]` its local variables. `Acquire` is `SET NX`;
`LoadBoard`, `LoadMissing`, `SaveFresh` and `Save` are `load_game`, the recovery and `save_game`, with `drop`
in the step that has read the board; `Release` the `DELETE`; `PersistCommit` and `PersistFail` the transaction;
`Reply` the end of the handler. `FetchMissing`, `Recover` and `RecoverFail` are `get_game` of a client
(`Readers`) that finds no board, asks the database for the row and stores an empty board without the lock; a
`get_game` that finds the board changes nothing and belongs to `GameScreen`. `Expire` is the lock's time to live, `LoseBoard` the board's, `Restart` the end of the process and the cleanup
of the next. Nobody reads who holds the lock: its value is always "1". `lock` names the holder for the sake of
`Expire` and the properties.

*Matchmaking.* `join`, `poll` and `leave` are each player's requests with the await they are at, or the answer
that waits to be taken; `client` is the browser. One action for each Redis command; creating the
game, its board and the result is one action, because nobody knows the new id before the result does. A poll
remembers whether the timer that sent it is still the current one, as app.js 546-550 does. Only Find Opponent is
disabled while a join is under way (app.js 517): Create, Join and Rejoin (`CreateGame`, `JoinWaiting`, `Rejoin`; their
requests are `visit`) can be pressed meanwhile, and `TakeJoin` takes the answer whatever the page shows by then, as
app.js 522-534 does. Create stops the search and sends a leave without awaiting it (`SendLeave`).

So three things do happen in the model that a user would not expect. A late "matched" takes a page out of the game it
shows (Find Opponent, then Rejoin, then the answer). A game that was created in the lobby is answered while its page
shows a match's game, and `myPlayer` becomes 1 there (app.js 447); `mixed` remembers it. A Create that stopped a search
fails, and nothing enables Find Opponent again (app.js 460); `failed` remembers it. `StaysInItsGame` therefore speaks
of pages that are `Settled`, which have no join, search or visit to the lobby under way, and says that nothing else can
move them; `SidesAgree` and `ButtonComesBack` name the other two as their exceptions.

*Room.* `at[s]` is the await of the handler of connection `s`; `inbox` a message on its way; `up` what the
network still carries. A position is the number of its pieces, and a game is over after `GameLength` moves.
`Disconnect` and `Broadcast` are the methods of those names; `HangUp` the end of a receive loop; `Vote`,
`Reset`, `NewBoard`, `CreateRow` and `FailRow` the rematch handler; `BeginMove` to `Announce` the move handler.
A browser moves and votes by what it was last shown (`seen`), and its New Game button is disabled from the
click to the rematch (`asked`). A game that is over stays over in a browser until the rematch message, even if the
broadcast of an older move comes late (`Shown`): that, and not the lock, is what keeps moves out of the reset.
`GamesAreRecordedApart` therefore assumes one page for each player. A second page that has not voted can send a
move between the reset and the new row, and it is recorded under the old game.

*Lobby.* `rows` is the table `games` as committed. `txn[<<p, op>>]` is a player's request: where its handler
is, its game, and what has become of its answer. `ReadRow` is `session.get` with the checks that follow it;
`UpdateRow` and `DeleteRow` the flush, which waits for a row another request has written (`Locked`);
`SaveBoard` the store of an empty board and the answer; `Commit` and `FailCommit` the end of `get_db`, which
FastAPI (0.133 or later, `pyproject.toml`) runs after it has sent the response. `client` and `poll` are the
browser's page and its `pollForOpponent` request; `Reload` is `resumeSession` after a reload, `Restart`
the end of the process with its transactions, and `cleanup_stale_games`. `joiners`, `undone`, `stale` and `raced` are
history: `stale` are the requests that read a row which another's commit changed since, `raced` the games that such a
request has written. No read takes a lock (repository.py 100, 476), so both happen: a second join overwrites the
first, and a cancel that read WAITING deletes a game that was joined meanwhile. `OneJoinerUnlessRaced`,
`SeatIsRecorded` and `OnlyRacesUndoJoins` say that such an outdated read is the only thing that does it.

`pollForOpponent` does not look, once its status arrives, at what its page did meanwhile (app.js 465-500), and
`TakeStatus` neither. So it does happen in the model that a late status takes a player out of another game,
starts a game without a side, or that its 404 wipes the id of a newer game, although `startGame` says
"Kill any lobby polls before entering the game" (app.js 629): `clearInterval` stops the next poll, not the one
in flight. `pollMatchmaking` has the guard that is missing here (`StaysInItsGame`).

*GameScreen.* `serve[s]` is the await of the server's handler of socket `s`, `job` and `todo` the board it
broadcasts and the sockets still to be sent to; `link`, `inbox` and `mail` are the network; `ws`, `shown`,
`over`, `attempts` and `timers` the page. A position is the number of its pieces, which decides the turn, and the
whole way of a move from the lock to the save is one action, because `MovePath` shows that handlers exclude each
other there. `Close` is the close handler with its count of attempts, `Reconnect` the timer it sets, which looks
whether its socket is still the page's (`StillWanted`) and fetches the board (`FetchBoard`). `StartGame` and
`Leave` are the functions of those names. `restoreGameState` takes its answer whenever it comes (`TakeAnswer`).
`Answer` is `get_game`, which waits for nothing: a page opens its connection and asks for the board at once (app.js
654-665, 1218-1219), and either may be served first. `LoseAnswer` is a request that fails by itself (app.js 686).

`behind` is history: the pages that may have missed the board in Redis. There are three ways. A page shows an older
board after a newer one, because broadcasts and answers overtake each other (`Show`). Its request is answered before
a move is saved and its connection enters the room after that move's broadcast has copied the room (`Misses`, in
`Broadcast`). Or its request fails (`LoseAnswer`). A page is no longer behind when it shows the board in Redis, or asks
again. The code does not prevent any of the three; `SettledPagesAgree` and `CatchesUp` say that there is no fourth.

*Ratings.* `at[g]` is where the transaction of game `g`'s last move is; it is open from `FinishGame` to `Commit`,
`Fail` or a `Restart`. `ReadFirst` and `ReadSecond` are the two `session.get`, in the order of the arguments;
`Flush` one `UPDATE players`, which waits for a row another transaction holds. The flush writes rows in the order
of their primary keys, so `Players` are numbers. `Gain` is the rounded formula as a table of the differences at
which it changes, computed from `round(32 / (1 + 10 ** (x / 400)))`; `AtLeastZero` is `max(0, ...)`.
`Outcome`, `Total`, `Listed`, `Extend` and `Streak` are `get_player_stats` and the counts of `get_leaderboard`
over the committed rows, in an order that `ORDER BY finished_at DESC` allows (`LatestFirst`). `ledger` and `raced`
are history.

## 3. Runs

| Run | Instance | Shows |
|---|---|---|
| `engine` | all games on 4x4, lines of 3 (42 700 states) | the engine, reloaded anywhere, implements `GameRules`; reported lines are lines; no game gets stuck |
| `move_path` | three handlers, 2x2, a restart, a failed transaction (15 813) | mutual exclusion, legal boards, no lost move, records that replay by number, every piece recorded or on its way, one result and one rating, `GameRules` implemented |
| `move_path_live` | a WebSocket and a REST handler and a reader, 1x2, the board lost once, a restart (33 276) | the board stays legal when it is re-created without the lock; the lock is freed, a finished game is rated |
| `lock_expiry` | a WebSocket and a REST handler, 2x2, slow holders | violated `NoLostMove`: a holder slower than 5 s overwrites a move |
| `matchmaking` | two players, one with three clicks and one with one, and one event: an expired key, a restart, or a click on Create, Join or Rejoin (191 330) | both sides of a match agree; nothing that is left of a search takes a settled page out of its game; the button comes back |
| `lost_match` | two players, one search each | violated `OpponentArrives`: a poll between claim and publication gives the search up |
| `room` | one page for each player, games of three moves, two votes each, two faults (416 704) | both votes for each rematch, games recorded apart while nothing fails, the last one out clears the room, a broken connection does not stay listed |
| `lobby` | a creator with two games and two joiners, overlapping transactions, one fault (316 816) | only an outdated read gets a second joiner in, gives a seat away or deletes a game in play; the board before the row; the creator's page does not wait on |
| `join_race` | a creator and two joiners, no faults | violated `JoinedOnce`: two joins that read before either wrote are both let in |
| `screen` | two pages, the first with two sockets, a click each, one mishap, the second page's attempts spent (528 518) | a page that has nothing more to hear shows the stored board unless it missed it in one of the three ways; timers leave a live connection alone; a page catches up or has given up |
| `stale_screen` | two pages, a click each, no mishaps | violated `SomebodyMayMove`: P2's request is answered before P1's move is saved, its connection enters the room after the broadcast, and with both pages in the game each shows the other's turn |
| `ratings` | three games of three players, one of them with the ratings 20 and 8, a failure, a restart (433 761) | ratings are those of the recorded games in order, unless two transactions read one rating; statistics count exactly the recorded games; the streak; no deadlock |

The four violated properties quote a comment, a docstring or a test; `PROJECT.json` ("findings") gives the lines.

### Bounds and why they suffice

- Boards: 4x4 with lines of 3 has wins in all four directions, wins that the last piece closes in the middle,
  several lines at once and full boards without a line. 2x2 with lines of 2 reaches a win with a spare cell and
  every race of two consecutive moves; 1x2 ends in a draw.
- Handlers: a race in `MovePath` needs two; the third shows that a handler that comes late to a freed lock
  changes nothing. Handlers and readers are reused, so the number of moves is bounded by the board only.
- `MaxCrashes`, `MaxFailures`, `MaxLosses`, `MaxFaults`, `MaxMishaps`, `MaxEvents` bound how often something goes wrong;
  one or two suffice for each hazard listed, since each needs one fault at the wrong place, or one of each of
  two connections. Where the bound is 1, two different faults do not meet in one behaviour of the run; the proofs have
  no such bound. `MaxVotes` 2 gives a second rematch, in which leftovers of the first do their harm.
- In `Room` a `GameLength` of 3 lets a move that waits for its record be overtaken by both that follow it, the
  last of which ends the game; one connection for each player, which may break and return, is what an undisturbed
  room has and what the votes, the purge and the prunes need.
- In `Lobby` two joiners and the creator's cancel are every kind of request that meets at one row; the second
  game is the one a page may be waiting for, or have joined, when the answer for the first arrives. A player
  has one request of each kind under way, and `MaxFaults` bounds commits and status requests that fail, reloads
  and restarts together.
- In `matchmaking` the two ratings differ by exactly the band, so the boundary is inside it. Three clicks are a search
  that is cancelled or left and a second one, in which leftovers of the first do their harm, or a search, another
  button and the late answer; the other player's click is its search. A player has one request of each kind under
  way: a second Create while the first is unanswered, say, is not modelled. Two players allow only one stale candidate
  of a scan; with three the state space is too large for liveness, and the proofs cover any number.
- In `screen` a second socket for one page is what its reconnects and old timers need; each socket is used again
  when both ends are done with it. One attempt suffices to run out of attempts, and `Earlier`, the attempts that the
  second page spent in an earlier game, to begin without any, since `startGame` does not reset the count. One mishap, a
  broken connection, a restart or a leave, suffices to miss a broadcast; a game of two moves has a move of each and an
  end.
- In `ratings` two games of one pair with opposite orders of the two reads are what a deadlock takes, and the third
  game shares a player with both; ratings of 20 and 8 reach the floor. `raced` says when two open transactions have
  read one player's rating: then one change is lost, which the code allows, and `RatingsAreSerial` says that it is
  the only way.

### Fairness

`FairSpec` assumes weak fairness of the steps of handlers and, in `MovePath`, of the lock's expiry: the event
loop resumes every task whose await is done, Redis answers, and Redis expires keys. In `Matchmaking` and
`Lobby` the timer of a search or of a waiting card fires and answers arrive. In `GameScreen` and
`Ratings` it is weak fairness of the disjunction of all steps of the system (`Step`): clicks and games are finite, so
the system comes to rest only when no such step is left. No click, message, loss, failure, expiry of another key or restart is
ever assumed to happen.

`CHECK_DEADLOCK FALSE` stands where the system really stops: a game that is over, players who click no more.

## 4. Proofs

`Connect4Proofs` and `Connect4GameProofs` (any board size and line length), `MovePathProofs` (any board,
handlers and bounds), `LobbyProofs` and `MatchmakingProofs` (any players and bounds), `RoomProofs` and
`GameScreenProofs` (any connections, game length and bounds) and `RatingsProofs` (any players, games and
ratings) are checked by TLAPS, about 10 500 obligations. They assume only `BoardAssumption`, `MovePathAssumption`,
`LobbyAssumption`, `MatchmakingAssumption`, `RoomAssumption`, `GameScreenAssumption` and `RatingsAssumption`, the
named assumptions on the constants, which TLC evaluates in the runs of the modules that declare them.

| Theorem | States |
|---|---|
| `TypeCorrect` (of `Connect4GameProofs`) | `TypeOK` is an invariant of `Connect4Game` |
| `EnginePlaysByTheRules` | `Connect4Game` implements `GameRules`, reloads included (`ImplementsRules`) |
| `WinsAreShown` | `WinningCellsAreALine` |
| `NeverStuck` | `AlwaysPlayable` |
| `TypeCorrect` (of `MovePathProofs`) | `TypeOK` is an invariant of `MovePath` |
| `LockExcludes` | if no holder outlives the lock (`~SlowHandlers`), `MutualExclusion` |
| `MovesAreNotLost` | under the same assumption and without readers, `NoLostMove`: each write over a board is one legal move |
| `BoardsAreLegal` | slow holders and re-created boards included, `BoardIsLegal` |
| `RecordsReplay` | under `~SlowHandlers`, `RecordsReplayByNumber` |
| `NothingUnaccounted` | under `~SlowHandlers`, `EveryPieceAccountedFor` |
| `ResultsAreRecordedOnce` | under `~SlowHandlers`, `ResultIsRecordedOnce` |
| `LocksAreFreed` | under `FairSpec` and `[]StepsAreEnabled` (see below), `LockIsFreed` |
| `ResultsArrive` | under the same assumptions and `~SlowHandlers`, `FinishedGameIsRated` |
| `RedisPlaysByTheRules` | under `~SlowHandlers` and if Redis loses no board, `MovePath` implements `GameRules` (its `ImplementsRules`) |
| `TypeCorrect` (of `LobbyProofs`) | `TypeOK` is an invariant of `Lobby` |
| `BoardComesFirst` | `BoardBeforeRow`, overlapping transactions included |
| `JoinsAreSingle` | `OneJoinerUnlessRaced` |
| `JoinsStay` | `OnlyRacesUndoJoins` |
| `SeatsAreRecorded` | `SeatIsRecorded` |
| `CreatorsArrive` | under `FairSpec`, `[]StepsAreEnabled` and `FaultsEnd`, `CreatorArrives` |
| `TypeCorrect` (of `RoomProofs`) | `TypeOK` is an invariant of `Room` |
| `VotesAreUsedOnce` | `RematchTakesBothVotes` |
| `GamesApart` | `GamesAreRecordedApart` |
| `EmptyRoomIsClean` | `LastOneOutClears` |
| `BrokenAreUnlisted` | under `FairSpec` and `[]StepsAreEnabled`, `BrokenIsUnlisted` |
| `TypeCorrect` (of `GameScreenProofs`) | `TypeOK` is an invariant of `GameScreen` |
| `TimersAreHarmless` | `KeepsItsConnection` |
| `PagesAgree` | `SettledPagesAgree` |
| `TypeCorrect` (of `MatchmakingProofs`) | `TypeOK` is an invariant of `Matchmaking` |
| `PlayersAgree` | `SidesAgree` |
| `NoLateAnswer` | `StaysInItsGame` |
| `TypeCorrect` (of `RatingsProofs`) | `TypeOK` is an invariant of `Ratings`: no rating falls below zero |
| `StatisticsAreExact` | `StatsMatchLedger` |
| `Serialisable` | `RatingsAreSerial` |
| `StreaksAreExact` | `StreakIsTheLatestRun` |
| `OrdersExist` | the query always has an order to answer in, so `StreaksAreExact` is never about none |
| `NoDeadlock` | while a transaction is open, some open transaction can go on |
| `EndsComeNearer` | each step of an open transaction lowers the number of steps before it, none raises one |

The engine. `GameRules` asks whether any segment of the board is of one player; `drop` looks around the last piece
only, counting in both senses of four directions, and `_recompute_terminal` around every piece. `WalkIsRun` says
what a walk collects, `LineIsRun` that the two walks of a direction make one unbroken run, `LongLineHasSegment` and
`SegmentMakesLongLine` that a run is long enough exactly if it contains a segment of the rules, and
`SearchIsRight` puts them together. If the board had no line, a line after a drop goes through the new piece
(`NoLine` is the part of the invariant that this takes), so the search around it misses none: `DropPlaysByTheRules`.
`TopRowIsEnough` says that on a settled board `check_draw`, which tests the top row, tests the board. `EngineInv`
is inductive: the object's turn, winner and draw are those of its board, and a game without a winner has no line.
`DropAndReloadAgree` says that an object rebuilt from its board is the one that `drop` left, but for which
of several lines it reports, so a reload is a stutter of the rules.

The move path. `LockExcludes`: `MutualExclusion` is not inductive by itself; `HolderInv` adds that a handler
inside the critical section is the one the lock names, which `Expire` respects because it takes the lock only
from a handler that has left or died. `MovesAreNotLost` adds `ReadIsFresh`: a handler at its save carries a
successor of the board that Redis still holds. It follows since nobody else writes while the holder is inside.
`BoardsAreLegal` does not need the lock: `PositionInv` says that every board a handler carries, and the one in
Redis, is a legal position, and `DropKeepsPositionLegal` that a drop by the player to move keeps it one. That
lemma is the engine's: `PlaceFillsOneCell`, `PlaceSettles` (no floating piece) and `PlaceAlternates` (the
counts of the two players differ by at most one, and the turn is who is behind) rest on
`LowestEmptyRowIsLowest` and on cardinalities of finite sets.

The records. A move that a handler has saved and not yet committed counts as recorded (`Records`), because nobody
else can make it so; a commit then changes nothing, and a failed one or a restart takes a record away. `SavesNext`
says that a handler about to save carries the one move that follows the board in Redis; saving adds one record,
with the next number, above everything in its column (`OneMoreRecord`), and nothing later removes a piece
(`BoardStays`). The result has the same shape: of the moves still to be recorded at most one decides the game
(`DecidersAgree`), since no move follows it; the row shows the result exactly if it was rated (`RowShowsResult`);
and a decided game that is neither rated nor failed has its decider on its way (`ResultIsOnItsWay`).
`RedisPlaysByTheRules` is the engine's theorem once more: the save is `SavesNext`'s move, whose result is the
board's (`MoveDecidesResult`), and every other step leaves the board alone.

The `lock_expiry` run is the other half of `LockExcludes`: without `~SlowHandlers` the code loses moves.

In `LobbyProofs`, `BoardComesFirst` adds `BoardIsSaved`: a join that is about to commit has stored its board,
which nothing takes away. `JoinsAreSingle` and `JoinsStay` share an invariant of three parts. `ReadHolds`: the status
that a request has read is still the row's, unless another request has changed the row since, which is what `stale`
records. `JoinersInv`: whoever joined a game that no stale request has written is its second player, and nobody joined
one that is still open; so the commit of a join that is not stale finds no joiner, and a commit of any kind that is not
stale finds no game in play. `Unborn`: a new game takes a row that nobody has used. Most actions are `Quiet`, they let
nobody past a read and leave the table alone, and are dealt with by one lemma. Nothing is assumed of the order of
transactions: a `SELECT ... FOR UPDATE` in `join_game` and `cancel_waiting_game` would leave `stale` empty, the code
has none, and the `join_race` run shows that it matters. `SeatsAreRecorded` follows the seat from the answer to the
page: `SeatInv` says that whoever is, or is told to be, second in another's game has a commit under way, or the seat
in a row that is past waiting, or a join that was undone; what is recorded stays by `ReadHolds`. `OwnInv` is needed
because a poll may take a page with an old side into a game: that game is its own. `CreatorsArrive` needs no more of
the transactions than `OpenInv`: stale or not, only a create works on a row that is not there yet, so nothing makes a
settled game wait again.

In `RoomProofs`, `VotesAreUsedOnce` rests on `VotesCountOnce`: each player has cast at least as many votes as there
were rematches, and one more while its vote is in the set, or while the handler that has just completed the set is
still to start the rematch. `EmptyRoomIsClean` rests on `RoomIsRunning`: as long as no broadcast has pruned a
connection, the room is exactly the connections whose handlers run, the identified ones are among them, and an
empty room has no votes and no row of a rematch. A handler that was pruned while it worked may write for the room
after the last one out has purged it, which is why `LastOneOutClears` speaks of `pruned = 0`.

`GamesApart` takes two invariants of an undisturbed room. `VotersWait`: a page whose vote is counted has seen the
end of the game, has no message on its way and no handler under way, and while a handler resets the room all others
are such pages. So a reset finds no move at the board and none that waits for its record. `Records` is about the
moves: the lock lets one at a time at the board and it saves the next number (`OneAtATime`); every move that waits
goes into the last row, where its number is free, and no two have the same one (`LateOnce`); and the last row is
never ahead of the board (`NotAhead`), except during a reset, when there is nobody to notice.

In `GameScreenProofs`, what a settled page shows is the end of a chain of promises. `PagesInformed` is the heart: a
page with an open or opening connection that is not behind has a request under way, or shows the board in Redis, or
that board is its answer, or in its mailbox, or some handler has still to send it to this connection. A new board
makes the promise anew, because its handler has still to broadcast it; the broadcast keeps it for every connection in
the room, and for one that is not in the room yet because its request is still under way, or was answered with this
board, or else the page is behind by definition. `NoneAhead` says that nothing under way is newer than the board in
Redis, so a page that showed it shows nothing newer after it; if it shows an older one it is behind. `Attached` says
that an open connection is its page's and is in the room, and `Unlisted` that no broadcast has a connection on its
list which is not open yet. A broken connection ends the promise, the reconnect's request renews it, and a restart ends
every connection.
`TimersAreHarmless` needs no more than the types: a timer's connection is free, and its page has another.

In `MatchmakingProofs`, `SidesKnown` follows a game from the match to the two browsers: a result key, the answer
to a poll and the answer to a join each belong to the player that the game has on that side. It is inductive with
`HasChosen`, a join that has taken a candidate knows it. A game that a Create's answer mixed
up (`mixed`) is excepted from then on. `CurrentPoll` says that a poll whose answer would still be used belongs to a
timer that is set; a settled page has none, so what is left over for it are polls that are ignored and leaves, which
touch only the button.

In `RatingsProofs`, `RowsMatchLedger` ties the rows, which the statistics read, to the ledger, which they do not:
the row of a game of the ledger is what its transaction wrote, and no other row has a winner or is a draw. The
cleanup keeps it because it looks for the status `PLAYING`, and a failed transaction because it leaves the row
alone. `HasReadBoth` keeps ratings at zero or above: what a transaction commits was computed from two ratings.

`Serialisable` needs to know what a transaction has read when it commits. `Isolated` says it: unless two of them
have read one player's rating at a time (`raced`), a rating that an open transaction has read is still the one in the
table (`Fresh`), no other open transaction has read that player's (`Apart`), and a row that the flush leaves out is
one that keeps its rating (`Unwritten`). `CommitSerial` then adds one game to the replay of the ledger. `StreaksAreExact` compares a loop with a definition that knows nothing of it:
`RoundCounts` says what one round adds, in terms of the run of equal outcomes at the front of the list; `DistinctStamps`
that no two results have one time, so every order of the query agrees on the recorded games, and only games that
were abandoned, which count as nothing, may change places. `Replay` and `Streak` are recursive functions, and what they
compute is proved with `LeastNat`: if a claim about the n-th round failed, it would fail at a least n. `NoDeadlock`
rests on `LocksAscend`, a transaction has locked only rows with smaller keys than the one it waits for: the one that
has got furthest waits for nobody.

### Liveness

The prover knows the rule of weak fairness but cannot compute `ENABLED`. Each module with a theorem about liveness
therefore defines `StepsAreEnabled`, which says of `ENABLED` what the guards of the actions say (a handler that is
not idle can take a step, a lock without its holder can expire, a page that polls can ask, and so on), and the
theorem assumes that it always holds. TLC evaluates `ENABLED`, and finds each of the three an invariant of the
instances of `move_path_live` (also with slow holders), `room` and `lobby`; no run lists them, since a model should
not be extended by its proofs, but copying the definition to the MC module repeats the check. The rest is proved: which step follows
which, that nobody else undoes it, and how the steps chain.

- `LocksAreFreed`: a handler only moves forward through its awaits (`PlacesInOrder`), so the holder leaves the critical
  section (`HolderLeaves`) and then either releases the lock or is found gone by the expiry (`LeftLockExpires`); in
  between the lock cannot change hands.
  `ResultsArrive`: the game's deciding move is carried by a handler on its way (`ResultIsOnItsWay`), and what it
  carries stays the same until it is recorded.
- `BrokenAreUnlisted`: the handler of a broken connection finishes what it is at, then handles the one message that may
  still wait, which is the last (nobody sends on a broken connection), and then finds out. Without the message counted
  the chain would be a circle.
- `CreatorsArrive`: a waiting page has asked for its game, for an earlier one, or not yet; the answer ends the waiting,
  or is of no use and it asks again. A request that is lost also makes it ask again; that this happens only
  finitely often is `FaultsEnd`, which every behaviour of the model satisfies because `faults` never exceeds
  `MaxFaults`, and which is assumed because counting it down is an induction over a temporal formula.

Model-checked only: `ButtonComesBack`, `CatchesUp` and `TransactionsEnd`. Their chains have no fixed length (the
candidates of a search, clicks and attempts, the games of all players), so the proof is an induction over a
leads-to, for which the prover has no rule; `NoDeadlock` and `EndsComeNearer` are all of `TransactionsEnd` but
that rule. Also `StepsAreEnabled` itself.

A convention of the proofs: every `CASE` expression has an `OTHER` arm. tlapm 1.4.5 accepts any equation between two
`CASE` expressions of which one has none, true or false.

## 5. Not modelled

- Validation models, wording, user names and the lists of names, styles, migrations, deployment and the audit log:
  no behaviour of the system depends on them.
- Registration and `active_game`: one insert that fails as a whole, and a read. What `active_game` misses during a
  rematch is listed as a hazard.
- Presence: a dictionary of timestamps that nothing else reads, updated without an await in between.
- Replay, history, durations, win rates and the order of the leaderboard: read-only queries of committed rows.
  `get_game_moves` sorts by `created_at` first, which may differ from the order of play when two transactions begin
  in the other order (repository.py 276); only `move_number`, of which `RecordsReplayByNumber` speaks, keeps it.
- In `Matchmaking`, three players (two joiners who take the same waiting one, matchmaking.py 91; the state space
  is too large for its liveness properties), games that are created but not committed, ratings that change in the
  queue, a reload of the page, and a second request of one kind before the first is answered.
- In `GameScreen`, a second game of the same page: an answer about the game that was left is shown in the next one
  (app.js 670). Rematches are `Room`'s.
- In `Ratings`, what a race of two transactions does to a rating beyond that it happens (`raced`); `k_factor` values
  other than the default 32.
