-------------------------------- MODULE Room --------------------------------
(***************************************************************************)
(* One WebSocket room: the connections the ConnectionManager keeps for it  *)
(* (app/connection_manager.py), the receive loop of each connection with   *)
(* its identify, move and rematch handlers (app/websocket.py), and the     *)
(* rows of table games that the room's moves are recorded under.           *)
(*                                                                         *)
(* A handler is split at its awaits.  The position is abstracted to the    *)
(* number of pieces: a game is over after GameLength moves.  What the lock *)
(* and the move's transaction do by themselves is module MovePath's.       *)
(***************************************************************************)
EXTENDS Integers, Sequences, FiniteSets

CONSTANTS
    Sockets,        \* the connections, over time
    Owner,          \* the player (1 or 2) whose browser opens a connection
    GameLength,     \* moves until a game is over
    MaxVotes,       \* bound on the rematch messages of a player
    MaxFaults,      \* bound on connections that break and transactions that fail
    Nothing         \* no board, no message

ASSUME RoomAssumption ==
    /\ IsFiniteSet(Sockets) /\ Owner \in [Sockets -> {1, 2}]
    /\ GameLength \in Nat \ {0}
    /\ MaxVotes \in Nat /\ MaxFaults \in Nat
    /\ Nothing \notin Nat /\ Nothing \notin {"identify", "move", "rematch"}

VARIABLES
    room,       \* manager._rooms[game_id], a set
    identified, \* the keys of manager._player_map[game_id]
    votes,      \* manager._rematch_votes[game_id]
    dbGame,     \* manager._db_game_id[game_id], or 0
    at,         \* the await each handler is at
    job,        \* what its handler carries across awaits
    up,         \* the connections the network still carries
    seen,       \* the pieces each browser was last shown
    asked,      \* the browsers whose New Game button is disabled
    inbox,      \* the message of each connection that waits to be received
    locked,     \* Redis lock:{game_id}
    board,      \* Redis game:{game_id}: its number of pieces
    rows,       \* the rows of table games of this room; 1 is the room's own
    cast,       \* votes of each player that were counted (history)
    rematches, pruned, drops, failures

manager  == <<room, identified, votes, dbGame>>
browser  == <<seen, asked>>
redis    == <<locked, board>>
counters == <<drops, failures>>
vars     == <<manager, at, job, up, browser, inbox, redis, rows, cast, rematches, pruned, counters>>

Players == {1, 2}

NewRow == [moves |-> [n \in 1 .. GameLength |-> 0], finishes |-> 0]
NoJob  == [pieces |-> 0, row |-> 0]

Places == {"closed", "receive", "greet", "load", "save", "lookup", "commit",
           "reset", "restart", "create", "announce"}

TypeOK ==
    /\ room \subseteq Sockets /\ identified \subseteq Sockets /\ up \subseteq Sockets
    /\ asked \subseteq Sockets
    /\ votes \subseteq Players
    /\ dbGame \in 0 .. Len(rows)
    /\ at \in [Sockets -> Places]
    /\ job \in [Sockets -> [pieces : 0 .. GameLength, row : 0 .. Len(rows)]]
    /\ seen \in [Sockets -> 0 .. GameLength]
    /\ inbox \in [Sockets -> {"identify", "move", "rematch", Nothing}]
    /\ locked \in BOOLEAN
    /\ board \in 0 .. GameLength \cup {Nothing}
    /\ rows \in Seq([moves : [1 .. GameLength -> Nat], finishes : Nat])
    /\ cast \in [Players -> Nat]
    /\ rematches \in Nat /\ pruned \in Nat
    /\ drops \in Nat /\ failures \in Nat /\ drops + failures <= MaxFaults

Init ==
    /\ room = {} /\ identified = {} /\ votes = {} /\ dbGame = 0
    /\ at = [s \in Sockets |-> "closed"]
    /\ job = [s \in Sockets |-> NoJob]
    /\ up = {}
    /\ seen = [s \in Sockets |-> 0]
    /\ asked = {}
    /\ inbox = [s \in Sockets |-> Nothing]
    /\ locked = FALSE /\ board = 0
    /\ rows = <<NewRow>>
    /\ cast = [p \in Players |-> 0]
    /\ rematches = 0 /\ pruned = 0 /\ drops = 0 /\ failures = 0

Turn(pieces) == 1 + (pieces % 2)

Goto(s, place) == at' = [at EXCEPT ![s] = place]

-----------------------------------------------------------------------------
(* ConnectionManager                                                       *)

(* Fault: the emptied room keeps its rematch state.                        *)
ForgetConnectionsOnly(left) ==
    /\ room' = room \ left
    /\ identified' = identified \ left
    /\ UNCHANGED <<votes, dbGame>>

(* Fault: a connection is only taken out of a room that becomes empty.     *)
DisconnectWhenEmpty(left) ==
    /\ room' = room \ left
    /\ IF room \cap left # {} /\ room \subseteq left
       THEN identified' = {} /\ votes' = {} /\ dbGame' = 0
       ELSE UNCHANGED <<identified, votes, dbGame>>

(* disconnect, for each connection in left: the last one out of the room   *)
(* clears all that the manager keeps for it.  A connection that is not in  *)
(* the room any more is only taken out of the map.                         *)
Disconnect(left) ==
    /\ room' = room \ left
    /\ IF room \cap left # {} /\ room \subseteq left
       THEN identified' = {} /\ votes' = {} /\ dbGame' = 0
       ELSE identified' = identified \ left /\ UNCHANGED <<votes, dbGame>>

(* broadcast: a send to a broken connection may fail, and then the         *)
(* connection is disconnected without a notice to the others.  The sends   *)
(* are one step here: their awaits matter for the order in which pages see *)
(* boards, and module GameScreen has them one by one.                      *)
Broadcast ==
    \E dead \in SUBSET (room \ up) :
        /\ Disconnect(dead)
        /\ pruned' = pruned + Cardinality(dead)

-----------------------------------------------------------------------------
(* The browsers and the network                                            *)

Pieces == IF board = Nothing THEN 0 ELSE board

(* connect, the identify message that a browser sends first, and the board *)
(* that restoreGameState fetches.                                          *)
Connect(s) ==
    /\ at[s] = "closed"
    /\ room' = room \cup {s}
    /\ up' = up \cup {s}
    /\ inbox' = [inbox EXCEPT ![s] = "identify"]
    /\ seen' = [seen EXCEPT ![s] = Pieces]
    /\ asked' = asked \ {s}
    /\ Goto(s, "receive")
    /\ UNCHANGED <<identified, votes, dbGame, job, redis, rows, cast, rematches, pruned, counters>>

Send(s, message) ==
    /\ s \in up /\ inbox[s] = Nothing
    /\ inbox' = [inbox EXCEPT ![s] = message]
    /\ UNCHANGED <<manager, at, job, up, seen, redis, rows, cast, rematches, pruned, counters>>

(* handleCellClick: not when the game is over, only in turn.               *)
SendMove(s) ==
    /\ seen[s] < GameLength /\ Owner[s] = Turn(seen[s])
    /\ Send(s, "move")
    /\ UNCHANGED asked

(* New Game is on the banner of a game that is over; a click disables it   *)
(* until the rematch message comes.                                        *)
SendRematch(s) ==
    /\ seen[s] = GameLength /\ s \notin asked /\ cast[Owner[s]] < MaxVotes
    /\ asked' = asked \cup {s}
    /\ Send(s, "rematch")

Drop(s) ==
    /\ s \in up /\ drops + failures < MaxFaults
    /\ up' = up \ {s}
    /\ drops' = drops + 1
    /\ UNCHANGED <<manager, at, job, browser, inbox, redis, rows, cast, rematches, pruned, failures>>

-----------------------------------------------------------------------------
(* The receive loop                                                        *)

Receive(s, message) ==
    /\ at[s] = "receive" /\ inbox[s] = message
    /\ inbox' = [inbox EXCEPT ![s] = Nothing]

Identify(s) ==
    /\ Receive(s, "identify")
    /\ identified' = identified \cup {s}
    /\ Goto(s, "greet")
    /\ UNCHANGED <<room, votes, dbGame, job, up, browser, redis, rows, cast, rematches, pruned, counters>>

(* WebSocketDisconnect comes after the messages that were received.        *)
(* disconnect_and_notify: its broadcast may find other broken connections, *)
(* and tells the opponent's browser to enable New Game again.              *)
HangUp(s) ==
    /\ at[s] = "receive" /\ inbox[s] = Nothing /\ s \notin up
    /\ \E dead \in IF s \in identified THEN SUBSET (room \ (up \cup {s})) ELSE {{}} :
          /\ Disconnect({s} \cup dead)
          /\ pruned' = pruned + Cardinality(dead)
    /\ asked' = IF s \in identified
                THEN asked \ {t \in room \cap up : Owner[t] # Owner[s]} ELSE asked
    /\ Goto(s, "closed")
    /\ UNCHANGED <<job, up, seen, inbox, redis, rows, cast, rematches, counters>>

(* _handle_move until the lock is held; a lock that is taken is answered   *)
(* with an error.                                                          *)
BeginMove(s) ==
    /\ Receive(s, "move")
    /\ IF locked THEN UNCHANGED <<locked, at>> ELSE locked' = TRUE /\ Goto(s, "load")
    /\ UNCHANGED <<manager, job, up, browser, board, rows, cast, rematches, pruned, counters>>

(* load_game, a fresh board if there is none, and drop, which wants the    *)
(* player's turn in a game that is not over.                               *)
Load(s) ==
    /\ at[s] = "load"
    /\ board' = Pieces
    /\ IF Pieces < GameLength /\ Owner[s] = Turn(Pieces)
       THEN /\ job' = [job EXCEPT ![s] = [pieces |-> Pieces + 1, row |-> 0]]
            /\ Goto(s, "save") /\ UNCHANGED locked
       ELSE locked' = FALSE /\ Goto(s, "receive") /\ UNCHANGED job
    /\ UNCHANGED <<manager, up, browser, inbox, rows, cast, rematches, pruned, counters>>

(* save_game and the release of the lock.                                  *)
Save(s) ==
    /\ at[s] = "save"
    /\ board' = job[s].pieces
    /\ locked' = FALSE
    /\ Goto(s, "lookup")
    /\ UNCHANGED <<manager, job, up, browser, inbox, rows, cast, rematches, pruned, counters>>

(* Fault: the room's own id is used, whatever rematch is on.               *)
RoomRow == 1

(* manager._db_game_id.get(game_id, game_id)                               *)
CurrentRow == IF dbGame = 0 THEN 1 ELSE dbGame

Lookup(s) ==
    /\ at[s] = "lookup"
    /\ job' = [job EXCEPT ![s] = [pieces |-> job[s].pieces, row |-> CurrentRow]]
    /\ Goto(s, "commit")
    /\ UNCHANGED <<manager, up, browser, inbox, redis, rows, cast, rematches, pruned, counters>>

Count(n) == n + 1

(* A row after record_move and, for the last move, finish_game and the Elo *)
(* update.                                                                 *)
Recorded(row, n) ==
    [moves    |-> [row.moves EXCEPT ![n] = Count(@)],
     finishes |-> IF n = GameLength THEN Count(row.finishes) ELSE row.finishes]

CommitMove(s) ==
    /\ at[s] = "commit"
    /\ rows' = [rows EXCEPT ![job[s].row] = Recorded(rows[job[s].row], job[s].pieces)]
    /\ Goto(s, "announce")
    /\ UNCHANGED <<manager, job, up, browser, inbox, redis, cast, rematches, pruned, counters>>

Failed == drops + failures < MaxFaults /\ failures' = failures + 1

FailMove(s) ==
    /\ at[s] = "commit"
    /\ Failed
    /\ Goto(s, "announce")
    /\ UNCHANGED <<manager, job, up, browser, inbox, redis, rows, cast, rematches, pruned, drops>>

(* The broadcast that ends the identify handler.                           *)
Greet(s) ==
    /\ at[s] = "greet"
    /\ Broadcast
    /\ Goto(s, "receive")
    /\ UNCHANGED <<job, up, browser, inbox, redis, rows, cast, rematches, counters>>

(* A game that is over stays so in a browser until the rematch message,    *)
(* which brings the board without pieces, whatever older board comes late. *)
Shown(s, pieces) == IF seen[s] = GameLength /\ pieces # 0 THEN GameLength ELSE pieces

(* The broadcast that ends a move or a rematch shows its board.            *)
Announce(s) ==
    /\ at[s] = "announce"
    /\ Broadcast
    /\ seen' = [t \in Sockets |-> IF t \in room \cap up THEN Shown(t, job[s].pieces) ELSE seen[t]]
    /\ asked' = IF job[s].pieces = 0 THEN asked \ (room \cap up) ELSE asked
    /\ job' = [job EXCEPT ![s] = NoJob]
    /\ Goto(s, "receive")
    /\ UNCHANGED <<up, inbox, redis, rows, cast, rematches, counters>>

(* Fault: the votes are not taken back when both are in.                   *)
VoteAndKeep(s) ==
    /\ Receive(s, "rematch")
    /\ votes' = votes \cup {Owner[s]}
    /\ cast' = [cast EXCEPT ![Owner[s]] = @ + 1]
    /\ IF votes' = Players
       THEN rematches' = rematches + 1 /\ Goto(s, "reset")
       ELSE UNCHANGED <<at, rematches>>
    /\ UNCHANGED <<room, identified, dbGame, job, up, browser, redis, rows, pruned, counters>>

(* _handle_rematch until its first await.  The identify message came       *)
(* first, so the vote is for the connection's own player.                  *)
Vote(s) ==
    /\ Receive(s, "rematch")
    /\ cast' = [cast EXCEPT ![Owner[s]] = @ + 1]
    /\ IF votes \cup {Owner[s]} = Players
       THEN votes' = {} /\ rematches' = rematches + 1 /\ Goto(s, "reset")
       ELSE votes' = votes \cup {Owner[s]} /\ UNCHANGED <<at, rematches>>
    /\ UNCHANGED <<room, identified, dbGame, job, up, browser, redis, rows, pruned, counters>>

(* redis.delete, then a new board: the lock is not taken.                  *)
Reset(s) ==
    /\ at[s] = "reset"
    /\ board' = Nothing
    /\ Goto(s, "restart")
    /\ UNCHANGED <<manager, job, up, browser, inbox, locked, rows, cast, rematches, pruned, counters>>

NewBoard(s) ==
    /\ at[s] = "restart"
    /\ board' = 0
    /\ Goto(s, "create")
    /\ UNCHANGED <<manager, job, up, browser, inbox, locked, rows, cast, rematches, pruned, counters>>

(* Fault: the id is used although its transaction was rolled back.         *)
CreateRowUncommitted(s) ==
    /\ at[s] = "create"
    /\ dbGame' = Len(rows) + 1
    /\ Goto(s, "announce")
    /\ UNCHANGED <<room, identified, votes, job, up, browser, inbox, redis, rows, cast, rematches,
                   pruned, counters>>

(* The new row, with both players, and the id the room records under.      *)
CreateRow(s) ==
    /\ at[s] = "create"
    /\ rows' = Append(rows, NewRow)
    /\ dbGame' = Len(rows')
    /\ Goto(s, "announce")
    /\ UNCHANGED <<room, identified, votes, job, up, browser, inbox, redis, cast, rematches, pruned, counters>>

FailRow(s) ==
    /\ at[s] = "create"
    /\ Failed
    /\ Goto(s, "announce")
    /\ UNCHANGED <<manager, job, up, browser, inbox, redis, rows, cast, rematches, pruned, drops>>

Step(s) ==
    \/ Identify(s) \/ Greet(s) \/ HangUp(s) \/ BeginMove(s) \/ Load(s) \/ Save(s) \/ Lookup(s)
    \/ CommitMove(s) \/ FailMove(s) \/ Announce(s) \/ Vote(s) \/ Reset(s) \/ NewBoard(s)
    \/ CreateRow(s) \/ FailRow(s)

Next == \E s \in Sockets :
    Step(s) \/ Connect(s) \/ SendMove(s) \/ SendRematch(s) \/ Drop(s)

Spec == Init /\ [][Next]_vars

(* The event loop runs every handler to its end.                           *)
Continues(s) == WF_vars(Step(s))

FairSpec == Spec /\ \A s \in Sockets : Continues(s)
-----------------------------------------------------------------------------
(* Each rematch takes a vote of each player that no other rematch used     *)
(* (websocket.py 166-170), however votes, reconnects and resets overlap.   *)
RematchTakesBothVotes == \A p \in Players : rematches <= cast[p]

OnePageEach == \A s, t \in Sockets : Owner[s] = Owner[t] => s = t

(* As long as nobody plays on two pages, no connection breaks and no       *)
(* transaction fails, the games of a room are recorded apart: a row has    *)
(* one move of each number and is finished, and rated, once                *)
(* (websocket.py 175-184, 252-271).  The reset does not take the lock: it  *)
(* is the browsers that keep moves away from it.                           *)
GamesAreRecordedApart ==
    OnePageEach /\ drops = 0 /\ failures = 0 =>
        \A r \in DOMAIN rows :
            rows[r].finishes <= 1 /\ \A n \in 1 .. GameLength : rows[r].moves[n] <= 1

(* "When the room is fully empty, purge all per-room state"                *)
(* (connection_manager.py 97-105): once every handler has ended nothing is *)
(* left for the next visitors of the room.  It may be otherwise after a    *)
(* broadcast pruned a connection whose handler was still to run.           *)
LastOneOutClears ==
    (pruned = 0 /\ \A s \in Sockets : at[s] = "closed") =>
        room = {} /\ identified = {} /\ votes = {} /\ dbGame = 0

(* A connection that broke does not stay listed as a connected player      *)
(* (_connected_player_numbers): its handler ends and takes it out.         *)
BrokenIsUnlisted ==
    \A s \in Sockets : s \notin up /\ s \in identified ~> s \in up \/ s \notin identified
=============================================================================
