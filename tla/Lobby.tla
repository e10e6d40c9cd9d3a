------------------------------- MODULE Lobby -------------------------------
(***************************************************************************)
(* The lobby: creating, joining and cancelling a game over REST            *)
(* (app/routes/games.py, with the repository functions they call), the     *)
(* session that commits each request (app/database.py), the clean-up on    *)
(* startup, and the browser's waiting card (static/app.js).                *)
(*                                                                         *)
(* A request runs in one READ COMMITTED transaction.  It is answered when  *)
(* its handler returns, and get_db commits after that: a row that a        *)
(* request wrote is seen by others only from its commit on, and is locked  *)
(* until then.  A player has one request of each kind under way at a time. *)
(***************************************************************************)
EXTENDS Integers, FiniteSets

CONSTANTS
    Players,
    Creators,       \* the players who create games
    MaxGames,       \* bound on the games created
    MaxFaults,      \* bound on commits and status requests that fail, reloads
                    \* of a page and restarts of the server, all together
    NoPlayer

ASSUME LobbyAssumption ==
    /\ Creators \subseteq Players
    /\ MaxGames \in Nat /\ MaxFaults \in Nat
    /\ NoPlayer \notin Players

Games == 1 .. MaxGames

VARIABLES
    created,    \* the number of games created so far; game 0 is no game
    rows,       \* table games, as committed
    boards,     \* the games that have a board in Redis
    txn,        \* each player's create, join and cancel requests
    poll,       \* each browser's GET /games/{id}/status
    client,     \* each browser
    joiners,    \* the players whose join of a game was committed (history)
    undone,     \* <<player, game>> of joins that were rolled back (history)
    stale,      \* requests under way that read a row which another changed since (history)
    raced,      \* the games that such a request has written (history)
    faults

history  == <<joiners, undone, stale, raced>>
database == <<created, rows, boards, history>>
vars     == <<database, txn, poll, client, faults>>

Ops      == {"create", "join", "cancel"}
Requests == Players \X Ops
Working  == {"write", "save", "commit"}

NoRow  == [player1 |-> NoPlayer, player2 |-> NoPlayer, status |-> "absent"]
NoTxn  == [at |-> "idle", game |-> 0, answer |-> "none"]
NoPoll == [game |-> 0, answer |-> "idle"]
Fresh  == [screen |-> "lobby", game |-> 0, side |-> 0, polling |-> 0]

TypeOK ==
    /\ created \in 0 .. MaxGames
    /\ rows \in [Games -> [player1 : Players \cup {NoPlayer}, player2 : Players \cup {NoPlayer},
                           status : {"absent", "waiting", "playing", "finished", "deleted"}]]
    /\ boards \subseteq Games
    /\ txn \in [Requests -> [at : {"idle", "read"} \cup Working, game : 0 .. created,
                             answer : {"none", "due", "ok", "refused"}]]
    /\ poll \in [Players -> [game : 0 .. created,
                             answer : {"idle", "asked", "waiting", "playing", "finished",
                                       "missing", "lost"}]]
    /\ client \in [Players -> [screen : {"lobby", "game"}, game : 0 .. created,
                               side : 0 .. 2, polling : 0 .. created]]
    /\ joiners \in [Games -> SUBSET Players]
    /\ undone \subseteq Players \X Games
    /\ stale \subseteq Requests /\ raced \subseteq Games
    /\ faults \in 0 .. MaxFaults

Init ==
    /\ created = 0
    /\ rows = [g \in Games |-> NoRow]
    /\ boards = {}
    /\ txn = [r \in Requests |-> NoTxn]
    /\ poll = [p \in Players |-> NoPoll]
    /\ client = [p \in Players |-> Fresh]
    /\ joiners = [g \in Games |-> {}] /\ undone = {} /\ stale = {} /\ raced = {}
    /\ faults = 0

Fault == faults < MaxFaults /\ faults' = faults + 1

-----------------------------------------------------------------------------
(* Transactions                                                            *)

(* The row is written by another request that has not committed.           *)
Locked(r, g) ==
    \E s \in Requests \ {r} : txn[s].game = g /\ txn[s].at \in {"save", "commit"}

Goto(r, at, answer) ==
    txn' = [txn EXCEPT ![r] = [at |-> at, game |-> txn[r].game, answer |-> answer]]

(* The page that sent a request hears its answer, unless it was reloaded.  *)
Heard(r, answer) == IF txn[r].answer = "due" THEN answer ELSE txn[r].answer

(* The request is over; it is kept as long as its answer is not taken.     *)
Close(r, answer) ==
    IF answer = "none" THEN txn' = [txn EXCEPT ![r] = NoTxn] ELSE Goto(r, "idle", answer)

(* create_game: the insert is flushed and answered in one go; nobody sees  *)
(* the row before its commit.                                              *)
ClickCreate(p) ==
    /\ p \in Creators /\ client[p].screen = "lobby" /\ txn[<<p, "create">>] = NoTxn
    /\ created < MaxGames
    /\ created' = created + 1
    /\ rows' = [rows EXCEPT ![created'] =
                    [player1 |-> p, player2 |-> NoPlayer, status |-> "absent"]]
    /\ txn' = [txn EXCEPT ![<<p, "create">>] = [at |-> "commit", game |-> created', answer |-> "ok"]]
    /\ UNCHANGED <<boards, history, poll, client, faults>>

(* The Join button of a game that the list showed when it was refreshed.   *)
ClickJoin(p, g) ==
    /\ client[p].screen = "lobby" /\ txn[<<p, "join">>] = NoTxn
    /\ g <= created /\ rows[g].status # "absent" /\ rows[g].player1 # p
    /\ txn' = [txn EXCEPT ![<<p, "join">>] = [at |-> "read", game |-> g, answer |-> "due"]]
    /\ UNCHANGED <<database, poll, client, faults>>

(* The Cancel button: the card is closed at once, the answer is ignored.   *)
ClickCancel(p) ==
    /\ client[p].screen = "lobby" /\ client[p].polling # 0 /\ client[p].game # 0
    /\ txn[<<p, "cancel">>] = NoTxn
    /\ client' = [client EXCEPT ![p] = Fresh]
    /\ txn' = [txn EXCEPT ![<<p, "cancel">>] =
                   [at |-> "read", game |-> client[p].game, answer |-> "none"]]
    /\ UNCHANGED <<database, poll, faults>>

(* Fault: the status of the row is not checked.                            *)
AnyGame(p, g)    == rows[g].status \in {"waiting", "playing"} /\ rows[g].player1 # p
AnyOwnGame(p, g) == rows[g].status \in {"waiting", "playing"} /\ rows[g].player1 = p

Joinable(p, g)    == rows[g].status = "waiting" /\ rows[g].player1 # p
Cancellable(p, g) == rows[g].status = "waiting" /\ rows[g].player1 = p

(* session.get and the checks of join_game and of cancel_waiting_game.     *)
(* Nothing is locked: other requests may read the row too.                 *)
ReadRow(p, op) ==
    LET r == <<p, op>> g == txn[r].game
    IN  /\ txn[r].at = "read"
        /\ IF IF op = "join" THEN Joinable(p, g) ELSE Cancellable(p, g)
           THEN Goto(r, "write", txn[r].answer)
           ELSE Close(r, Heard(r, "refused"))
        /\ UNCHANGED <<database, poll, client, faults>>

(* The UPDATE of a join waits for the row; it selects it by its id alone,  *)
(* and fails when there is no row any more (StaleDataError).               *)
UpdateRow(p) ==
    LET r == <<p, "join">> g == txn[r].game
    IN  /\ txn[r].at = "write" /\ ~Locked(r, g)
        /\ IF rows[g].status = "deleted"
           THEN Close(r, Heard(r, "refused")) /\ stale' = stale \ {r}
           ELSE Goto(r, "save", txn[r].answer) /\ UNCHANGED stale
        /\ UNCHANGED <<created, rows, boards, joiners, undone, raced, poll, client, faults>>

(* The DELETE of a cancel waits for the row too.                           *)
DeleteRow(p) ==
    LET r == <<p, "cancel">>
    IN  /\ txn[r].at = "write" /\ ~Locked(r, txn[r].game)
        /\ Goto(r, "commit", txn[r].answer)
        /\ UNCHANGED <<database, poll, client, faults>>

(* Fault: the board is left to the first request that misses it.           *)
AnswerWithoutBoard(p) ==
    LET r == <<p, "join">>
    IN  /\ txn[r].at = "save"
        /\ Goto(r, "commit", Heard(r, "ok"))
        /\ UNCHANGED <<database, poll, client, faults>>

(* join_existing_game stores an empty board and answers; then the commit.  *)
SaveBoard(p) ==
    LET r == <<p, "join">>
    IN  /\ txn[r].at = "save"
        /\ boards' = boards \cup {txn[r].game}
        /\ Goto(r, "commit", Heard(r, "ok"))
        /\ UNCHANGED <<created, rows, history, poll, client, faults>>

(* The row a request has written.                                          *)
Written(p, op, row) ==
    [player1 |-> row.player1,
     player2 |-> IF op = "join" THEN p ELSE row.player2,
     status  |-> CASE op = "create" -> "waiting"
                   [] op = "join"   -> "playing"
                   [] OTHER         -> "deleted"]

(* The requests that have read the row of g and not yet written it.        *)
Readers(g) == {s \in Requests : txn[s].at \in Working /\ txn[s].game = g}

Commit(p, op) ==
    LET r == <<p, op>> g == txn[r].game
    IN  /\ txn[r].at = "commit"
        /\ rows' = [rows EXCEPT ![g] = Written(p, op, rows[g])]
        /\ joiners' = IF op = "join" THEN [joiners EXCEPT ![g] = joiners[g] \cup {p}] ELSE joiners
        /\ raced' = IF r \in stale THEN raced \cup {g} ELSE raced
        /\ stale' = (stale \cup Readers(g)) \ {r}
        /\ Close(r, txn[r].answer)
        /\ UNCHANGED <<created, boards, undone, poll, client, faults>>

(* The commit fails after the answer was sent: get_db rolls back.          *)
FailCommit(p, op) ==
    LET r == <<p, op>>
    IN  /\ txn[r].at = "commit" /\ Fault
        /\ undone' = IF op = "join" THEN undone \cup {<<p, txn[r].game>>} ELSE undone
        /\ Close(r, txn[r].answer)
        /\ stale' = stale \ {r}
        /\ UNCHANGED <<created, rows, boards, joiners, raced, poll, client>>

-----------------------------------------------------------------------------
(* The browser                                                             *)

(* startGame: the side stays what it was.                                  *)
Play(c, g) == [screen |-> "game", game |-> g, side |-> c.side, polling |-> 0]

(* The browser takes the answer to a request.                              *)
Hear(r, answer) ==
    /\ txn[r].answer = answer
    /\ txn' = [txn EXCEPT ![r] = IF txn[r].at = "idle" THEN NoTxn
                                 ELSE [at |-> txn[r].at, game |-> txn[r].game, answer |-> "none"]]
    /\ UNCHANGED <<database, poll, faults>>

(* The waiting card, and pollForOpponent in place of an earlier poll.      *)
ShowWaiting(p) ==
    LET r == <<p, "create">>
    IN  /\ Hear(r, "ok")
        /\ client' = [client EXCEPT ![p] = [screen |-> client[p].screen, game |-> txn[r].game,
                                            side |-> 1, polling |-> txn[r].game]]

(* joinGame, once its request is answered.                                 *)
EnterGame(p) ==
    LET r == <<p, "join">>
    IN  /\ Hear(r, "ok")
        /\ client' = [client EXCEPT ![p] = [screen |-> "game", game |-> txn[r].game,
                                            side |-> 2, polling |-> 0]]

(* An error is only shown.                                                 *)
ShowError(p) == Hear(<<p, "join">>, "refused") /\ UNCHANGED client

(* pollForOpponent: the interval fires.                                    *)
Ask(p) ==
    /\ client[p].polling # 0 /\ poll[p] = NoPoll
    /\ poll' = [poll EXCEPT ![p] = [game |-> client[p].polling, answer |-> "asked"]]
    /\ UNCHANGED <<database, txn, client, faults>>

(* Fault: a row that is not there is answered like the others.             *)
StatusOfAny(g) == rows[g].status

(* game_status answers with what is committed.                             *)
Status(g) == IF rows[g].status \in {"absent", "deleted"} THEN "missing" ELSE rows[g].status

Answered(p, answer) ==
    /\ poll[p].answer = "asked"
    /\ poll' = [poll EXCEPT ![p] = [game |-> poll[p].game, answer |-> answer]]
    /\ UNCHANGED <<database, txn, client>>

AnswerStatus(p) == Answered(p, Status(poll[p].game)) /\ UNCHANGED faults

LoseStatus(p) == Answered(p, "lost") /\ Fault

(* What the callback does with the status of game g.                       *)
Follow(c, g, answer) ==
    CASE answer = "playing" -> Play(c, g)
      [] answer \in {"finished", "missing"} ->
             [screen |-> c.screen, game |-> 0, side |-> 0, polling |-> 0]
      [] OTHER -> c

Take(p, taken) ==
    /\ poll[p].answer \in taken
    /\ poll' = [poll EXCEPT ![p] = NoPoll]
    /\ client' = [client EXCEPT ![p] = Follow(client[p], poll[p].game, poll[p].answer)]
    /\ UNCHANGED <<database, txn, faults>>

(* Fault: a request in flight is marked so, and an error leaves the mark.  *)
TakeStatusUnlessLost(p) == Take(p, {"waiting", "playing", "finished", "missing"})

(* The callback does not look at what its page has done since it asked.    *)
TakeStatus(p) == Take(p, {"waiting", "playing", "finished", "missing", "lost"})

(* A reload drops every answer under way; resumeSession asks for the game  *)
(* that the page had saved and goes on from its status.                    *)
Resumed(c) ==
    CASE c.game # 0 /\ c.side = 1 /\ Status(c.game) = "waiting" ->
             [screen |-> "lobby", game |-> c.game, side |-> 1, polling |-> c.game]
      [] c.game # 0 /\ c.side # 0 /\ Status(c.game) = "playing" -> Play(c, c.game)
      [] OTHER -> Fresh

Unheard(t) ==
    IF t.at = "idle" THEN NoTxn ELSE [at |-> t.at, game |-> t.game, answer |-> "none"]

Reload(p) ==
    /\ Fault
    /\ poll' = [poll EXCEPT ![p] = NoPoll]
    /\ client' = [client EXCEPT ![p] = Resumed(client[p])]
    /\ txn' = [r \in Requests |-> IF r[1] = p THEN Unheard(txn[r]) ELSE txn[r]]
    /\ UNCHANGED database

-----------------------------------------------------------------------------
(* The server stops: what is not committed is rolled back and what is not  *)
(* answered fails.  On startup cleanup_stale_games ends every open game.   *)
Aborted(t) ==
    IF t.answer = "none" THEN NoTxn
    ELSE [at |-> "idle", game |-> t.game, answer |-> IF t.answer = "due" THEN "refused" ELSE t.answer]

Restart ==
    /\ Fault
    /\ rows' = [g \in Games |->
                   IF rows[g].status \in {"waiting", "playing"}
                   THEN [player1 |-> rows[g].player1, player2 |-> rows[g].player2,
                         status |-> "finished"]
                   ELSE rows[g]]
    /\ undone' = undone \cup {j \in Players \X Games :
                                  txn[<<j[1], "join">>].game = j[2] /\ txn[<<j[1], "join">>].at = "commit"}
    /\ txn' = [r \in Requests |-> Aborted(txn[r])]
    /\ poll' = [p \in Players |->
                   IF poll[p].answer = "asked" THEN [game |-> poll[p].game, answer |-> "lost"]
                   ELSE poll[p]]
    /\ stale' = {}
    /\ UNCHANGED <<created, boards, joiners, raced, client>>

Serve(p) ==
    \/ ReadRow(p, "join") \/ ReadRow(p, "cancel")
    \/ UpdateRow(p) \/ DeleteRow(p) \/ SaveBoard(p)
    \/ \E op \in Ops : Commit(p, op)

Click(p) == ClickCreate(p) \/ ClickCancel(p) \/ \E g \in Games : ClickJoin(p, g)

Listen(p) == ShowWaiting(p) \/ EnterGame(p) \/ ShowError(p)

Next ==
    \/ \E p \in Players :
           \/ Click(p) \/ Serve(p) \/ Listen(p)
           \/ Ask(p) \/ AnswerStatus(p) \/ TakeStatus(p)
           \/ LoseStatus(p) \/ Reload(p) \/ \E op \in Ops : FailCommit(p, op)
    \/ Restart

Spec == Init /\ [][Next]_vars

(* Handlers run to their end, an open page takes its answers, and its      *)
(* interval keeps firing.  Nobody has to click.                            *)
Fairness(p) ==
    /\ WF_vars(Serve(p)) /\ WF_vars(Listen(p))
    /\ WF_vars(Ask(p)) /\ WF_vars(AnswerStatus(p)) /\ WF_vars(TakeStatus(p))

FairSpec == Spec /\ \A p \in Players : Fairness(p)

-----------------------------------------------------------------------------
(* Properties                                                              *)

(* A game is joined once: a join is refused when the game is not joinable  *)
(* (routes/games.py, join_existing_game: 404 if not joinable).  The code   *)
(* does not see to it (run join_race).                                     *)
JoinedOnce == \A g \in Games : Cardinality(joiners[g]) <= 1

(* Only one thing gets a second player into a joined game: a join that had *)
(* read the row before another request changed it, and wrote it after      *)
(* (repository.py 100-107).  Requests that merely overlap, and one whose   *)
(* commit fails under another, do not.                                     *)
OneJoinerUnlessRaced == \A g \in Games \ raced : Cardinality(joiners[g]) <= 1

(* Whoever was let into another player's game is that game's second player *)
(* in the database, from the commit on: the seat is lost only when the     *)
(* commit itself was, or to a request that wrote the row on the strength   *)
(* of an outdated one.                                                     *)
SeatIsRecorded ==
    \A p \in Players : \A g \in Games \ raced :
        /\ client[p].screen = "game" /\ client[p].side = 2 /\ client[p].game = g
        /\ rows[g].player1 # p
        /\ ~(txn[<<p, "join">>].game = g /\ txn[<<p, "join">>].at = "commit")
        /\ <<p, g>> \notin undone
        => rows[g].player2 = p

(* A game that was joined goes on with its two players until it ends.      *)
(* What deletes it, or gives its seat away, is the commit of a request     *)
(* that read the row while the game still waited: of a cancel or another   *)
(* join (repository.py 100-107, 476-482), never of one that came later.    *)
OnlyRacesUndoJoins ==
    [][\A g \in Games :
           rows[g].status = "playing" =>
               \/ rows'[g].status \in {"playing", "finished"} /\ rows'[g].player2 = rows[g].player2
               \/ g \in raced']_vars

(* A player who is told that the game is on finds its board in Redis: the  *)
(* board is stored before the commit that the other player polls for.      *)
BoardBeforeRow == \A g \in Games : rows[g].status = "playing" => g \in boards

(* A page that waits for its game does not go on waiting once it is joined *)
(* for good, although status requests are lost and the server restarts.    *)
CreatorArrives ==
    \A p \in Creators : \A g \in Games :
        (client[p].polling = g /\ rows[g].status = "playing")
            ~> client[p].polling # g

=============================================================================
