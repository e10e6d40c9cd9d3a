------------------------------- MODULE Ratings -------------------------------
(***************************************************************************)
(* What the transactions of finished games do to the tables players and    *)
(* games (app/repository.py), and what the statistics read from them.      *)
(* Several games end at once: the handler of each game's last move runs    *)
(* finish_game and update_elo or update_elo_draw in one transaction        *)
(* (app/websocket.py 255-271, app/routes/games.py), and PostgreSQL's READ  *)
(* COMMITTED lets each statement read what is committed by then.           *)
(***************************************************************************)
EXTENDS Integers, Sequences, FiniteSets

CONSTANTS
    Players,     \* numbers: the order of their primary keys
    Games,
    Seats,       \* the two players of each game
    Results,     \* who may win each game; Nobody stands for a draw
    Initial,     \* the rating each player has at first
    MaxFailures, \* bound on transactions that fail
    MaxCrashes,  \* bound on restarts of the server
    Nobody       \* winner_id is null

ASSUME RatingsAssumption ==
    /\ Players \subseteq Nat /\ Nobody \notin Players
    /\ IsFiniteSet(Games)
    /\ \A g \in Games : Seats[g] \in Players \X Players /\ Seats[g][1] # Seats[g][2]
    /\ \A g \in Games : Results[g] \subseteq {Seats[g][1], Seats[g][2], Nobody}
    /\ Initial \in [Players -> Nat]
    /\ MaxFailures \in Nat /\ MaxCrashes \in Nat

VARIABLES
    elo,      \* players.elo_rating, as committed
    rows,     \* the rows of table games, as committed
    at,       \* where the transaction of each game's end is
    winner,   \* the winner it was called with, or Nobody for a draw
    stamp,    \* the finished_at it has written
    read,     \* the ratings it has read
    todo,     \* the players whose UPDATE it has still to send
    held,     \* the rows of table players it has written, and so locked
    clock,    \* the server's clock
    ledger,   \* the games whose transaction committed, in that order (history)
    raced,    \* did two open transactions read one player's rating? (history)
    failures, crashes

job    == <<winner, stamp, read, todo, held>>
counts == <<failures, crashes>>
vars   == <<elo, rows, at, job, clock, ledger, raced, counts>>

Unread == -1

NewRow == [status |-> "PLAYING", winner |-> Nobody, finished |-> 0]

Open == {"first", "second", "flush"}

Init ==
    /\ elo = Initial
    /\ rows = [g \in Games |-> NewRow]
    /\ at = [g \in Games |-> "playing"]
    /\ winner = [g \in Games |-> Nobody]
    /\ stamp = [g \in Games |-> 0]
    /\ read = [g \in Games |-> <<Unread, Unread>>]
    /\ todo = [g \in Games |-> {}] /\ held = [g \in Games |-> {}]
    /\ clock = 0
    /\ ledger = <<>> /\ raced = FALSE
    /\ failures = 0 /\ crashes = 0

Goto(g, place) == at' = [at EXCEPT ![g] = place]

-----------------------------------------------------------------------------
(* The Elo formula                                                         *)

(* With k_factor 32 the winner gains round(32 / (1 + 10^(x / 400))) points *)
(* where x is its rating less the loser's.  Limit[k] is the greatest x for *)
(* which that is still k, for k up to 16; the curve is symmetric.          *)
Limit == <<719, 523, 428, 364, 314, 273, 237, 205, 176, 149, 124, 100, 77, 54, 32, 10>>

Gain(x) == Cardinality({k \in 1 .. 16 : x <= Limit[k]})
           + Cardinality({k \in 1 .. 16 : x < -Limit[k]})

(* What a draw moves from the second player to the first.                  *)
DrawGain(x) == Gain(x) - 16

(* Fault: a rating without a floor.                                        *)
NotFloored(r) == r

AtLeastZero(r) == IF r < 0 THEN 0 ELSE r

Moved(x, isDraw) == IF isDraw THEN DrawGain(x) ELSE Gain(x)

Rated(first, second, isDraw) ==
    LET points == Moved(first - second, isDraw)
    IN  <<AtLeastZero(first + points), AtLeastZero(second - points)>>

(* Fault: the loser's rating is computed from the winner's new one.        *)
RatedInTurn(first, second, isDraw) ==
    LET new == first + Moved(first - second, isDraw)
    IN  <<AtLeastZero(new), AtLeastZero(second - Moved(new - second, isDraw))>>

(* What update_elo and update_elo_draw assign to the two objects.          *)
Assigned(first, second, isDraw) == Rated(first, second, isDraw)

-----------------------------------------------------------------------------
(* The transaction                                                         *)

IsDraw(g) == winner[g] = Nobody

(* update_elo reads the winner first, update_elo_draw player 1.            *)
Read1(g) == IF winner[g] = Seats[g][2] THEN Seats[g][2] ELSE Seats[g][1]
Read2(g) == IF winner[g] = Seats[g][2] THEN Seats[g][1] ELSE Seats[g][2]

New(g) == Assigned(read[g][1], read[g][2], IsDraw(g))

(* The last move of game g: finish_game.  It does not look at the status   *)
(* of the row.                                                             *)
FinishGame(g, w) ==
    /\ at[g] = "playing"
    /\ winner' = [winner EXCEPT ![g] = w]
    /\ stamp' = [stamp EXCEPT ![g] = clock + 1]
    /\ clock' = clock + 1
    /\ Goto(g, "first")
    /\ UNCHANGED <<elo, rows, read, todo, held, ledger, raced, counts>>

(* An open transaction that has read p's rating.                           *)
HasRead(h, p) ==
    /\ at[h] \in Open
    /\ \/ p = Read1(h) /\ read[h][1] # Unread
       \/ p = Read2(h) /\ read[h][2] # Unread

Read(g, i, p) ==
    /\ read' = [read EXCEPT ![g][i] = elo[p]]
    /\ raced' = (raced \/ \E h \in Games \ {g} : HasRead(h, p))
    /\ UNCHANGED <<elo, rows, winner, stamp, held, clock, ledger, counts>>

ReadFirst(g) ==
    /\ at[g] = "first"
    /\ Read(g, 1, Read1(g))
    /\ Goto(g, "second")
    /\ UNCHANGED todo

(* The second read, and the new values.  An attribute that keeps its value *)
(* is not written.                                                         *)
ReadSecond(g) ==
    /\ at[g] = "second"
    /\ Read(g, 2, Read2(g))
    /\ LET new == Assigned(read[g][1], elo[Read2(g)], IsDraw(g))
       IN  todo' = [todo EXCEPT ![g] = {p \in {Read1(g), Read2(g)} :
                      IF p = Read1(g) THEN new[1] # read[g][1] ELSE new[2] # elo[p]}]
    /\ Goto(g, "flush")

(* Fault: the rows are written in the order of the assignments.            *)
WinnerFirst(g) == IF Read1(g) \in todo[g] THEN Read1(g) ELSE Read2(g)

(* SQLAlchemy's flush writes the rows of a table by primary key.           *)
NextRow(g) == CHOOSE p \in todo[g] : \A q \in todo[g] : p <= q

(* UPDATE players SET elo_rating = ... WHERE id = ...: waits until no      *)
(* other transaction holds the row.                                        *)
Flush(g) ==
    /\ at[g] = "flush" /\ todo[g] # {}
    /\ \A h \in Games : NextRow(g) \notin held[h]
    /\ held' = [held EXCEPT ![g] = @ \cup {NextRow(g)}]
    /\ todo' = [todo EXCEPT ![g] = @ \ {NextRow(g)}]
    /\ UNCHANGED <<elo, rows, at, winner, stamp, read, clock, ledger, raced, counts>>

Written(g) == [status   |-> IF IsDraw(g) THEN "DRAW" ELSE "FINISHED",
               winner   |-> winner[g],
               finished |-> stamp[g]]

Commit(g) ==
    /\ at[g] = "flush" /\ todo[g] = {}
    /\ rows' = [rows EXCEPT ![g] = Written(g)]
    /\ elo' = [p \in Players |-> IF p \notin held[g] THEN elo[p]
                                 ELSE IF p = Read1(g) THEN New(g)[1] ELSE New(g)[2]]
    /\ held' = [held EXCEPT ![g] = {}]
    /\ ledger' = Append(ledger, g)
    /\ Goto(g, "done")
    /\ UNCHANGED <<winner, stamp, read, todo, clock, raced, counts>>

RollBack(some) ==
    /\ at' = [g \in Games |-> IF g \in some THEN "done" ELSE at[g]]
    /\ held' = [g \in Games |-> IF g \in some THEN {} ELSE held[g]]
    /\ UNCHANGED <<elo, winner, stamp, read, todo, ledger, raced>>

(* The exception is logged and swallowed: nobody finishes the game again.  *)
Fail(g) ==
    /\ at[g] \in Open /\ failures < MaxFailures
    /\ RollBack({g})
    /\ failures' = failures + 1
    /\ UNCHANGED <<rows, clock, crashes>>

(* Fault: the cleanup marks every row.                                     *)
AnyStatus == {"PLAYING", "FINISHED", "DRAW"}

Stale == {"PLAYING"}

(* The process ends, with the transactions that are open; the next one     *)
(* begins with cleanup_stale_games.  A game that is in play may go on and  *)
(* finish all the same.                                                    *)
Restart ==
    /\ crashes < MaxCrashes
    /\ RollBack({g \in Games : at[g] \in Open})
    /\ clock' = clock + 1
    /\ rows' = [g \in Games |-> IF rows[g].status \notin Stale THEN rows[g]
                                ELSE [status |-> "FINISHED", winner |-> rows[g].winner,
                                      finished |-> clock + 1]]
    /\ crashes' = crashes + 1
    /\ UNCHANGED failures

(* What a transaction that is open does next.                              *)
Step == \E g \in Games : ReadFirst(g) \/ ReadSecond(g) \/ Flush(g) \/ Commit(g)

Next ==
    \/ \E g \in Games : Fail(g) \/ \E w \in Results[g] : FinishGame(g, w)
    \/ Step
    \/ Restart

Spec == Init /\ [][Next]_vars

(* PostgreSQL answers every statement that waits for no lock.              *)
FairSpec == Spec /\ WF_vars(Step)
-----------------------------------------------------------------------------
(* The statistics                                                          *)

Ended(p) == {g \in Games : /\ p \in {Seats[g][1], Seats[g][2]}
                           /\ rows[g].status \in {"FINISHED", "DRAW"}}

(* get_player_stats: what a game counts as; one that was abandoned as      *)
(* nothing.                                                                *)
Outcome(p, g) ==
    IF rows[g].status = "DRAW" THEN "draw"
    ELSE CASE rows[g].winner = p      -> "win"
           [] rows[g].winner = Nobody -> "none"
           [] OTHER                   -> "loss"

Total(p, outcome) == Cardinality({g \in Ended(p) : Outcome(p, g) = outcome})

(* get_leaderboard: the games it counts for a player.                      *)
Listed(p) == {g \in Ended(p) : rows[g].status = "DRAW" \/ rows[g].winner # Nobody}

(* The orders ORDER BY finished_at DESC may give these games: it leaves    *)
(* open which comes first of two that finished at the same time.           *)
LatestFirst(games) ==
    {list \in [1 .. Cardinality(games) -> games] :
        \A i, j \in DOMAIN list :
            i < j => list[i] # list[j] /\ rows[list[i]].finished >= rows[list[j]].finished}

NoStreak == [type |-> "none", length |-> 0, decided |-> FALSE]

(* Fault: the streak goes on after another outcome.                        *)
ExtendAny(streak, outcome) ==
    IF outcome = "none" THEN streak
    ELSE CASE streak.length = 0     -> [streak EXCEPT !.type = outcome, !.length = 1]
           [] outcome = streak.type -> [streak EXCEPT !.length = @ + 1]
           [] OTHER                 -> streak

(* One round of the loop over the games.                                   *)
Extend(streak, outcome) ==
    IF outcome = "none" \/ streak.decided THEN streak
    ELSE CASE streak.length = 0     -> [streak EXCEPT !.type = outcome, !.length = 1]
           [] outcome = streak.type -> [streak EXCEPT !.length = @ + 1]
           [] OTHER                 -> [streak EXCEPT !.decided = TRUE]

(* The loop over the games of a player, in the order of the query.         *)
Streak(p, games) ==
    LET after[n \in 0 .. Len(games)] ==
            IF n = 0 THEN NoStreak ELSE Extend(after[n - 1], Outcome(p, games[n]))
    IN  after[Len(games)]
-----------------------------------------------------------------------------
(* Every variable is of its type; no rating is below zero.                 *)
TypeOK ==
    /\ elo \in [Players -> Nat]
    /\ rows \in [Games -> [status : {"PLAYING", "FINISHED", "DRAW"},
                           winner : Players \cup {Nobody}, finished : Nat]]
    /\ at \in [Games -> Open \cup {"playing", "done"}]
    /\ winner \in [Games -> Players \cup {Nobody}]
    /\ stamp \in [Games -> Nat]
    /\ read \in [Games -> (Nat \cup {Unread}) \X (Nat \cup {Unread})]
    /\ todo \in [Games -> SUBSET Players] /\ held \in [Games -> SUBSET Players]
    /\ clock \in Nat /\ ledger \in Seq(Games) /\ raced \in BOOLEAN
    /\ failures \in 0 .. MaxFailures /\ crashes \in 0 .. MaxCrashes

(* The ratings after one game more.                                        *)
Rerated(ratings, g) ==
    LET new == Rated(ratings[Read1(g)], ratings[Read2(g)], IsDraw(g))
    IN  [ratings EXCEPT ![Read1(g)] = new[1], ![Read2(g)] = new[2]]

(* The ratings after the games of a ledger, one after the other.           *)
Replay(games) ==
    LET after[n \in 0 .. Len(games)] ==
            IF n = 0 THEN Initial ELSE Rerated(after[n - 1], games[n])
    IN  after[Len(games)]

(* As long as no two open transactions have read the same player's rating, *)
(* the ratings are those of the recorded games one after the other: no     *)
(* change is lost or made twice, by failures and restarts neither          *)
(* (repository.py 317-327, 347-357).                                       *)
RatingsAreSerial == ~raced => elo = Replay(ledger)

(* A result is visible exactly when it has been rated, through failed      *)
(* transactions, restarts and the cleanup: a player's totals and the       *)
(* leaderboard's are the games of the ledger (repository.py 144-168,       *)
(* 184-202, 405-449, 499-503).                                             *)
StatsMatchLedger ==
    \A p \in Players :
        LET mine == {g \in {ledger[n] : n \in DOMAIN ledger} : p \in {Read1(g), Read2(g)}}
        IN  /\ Total(p, "win")  = Cardinality({g \in mine : winner[g] = p})
            /\ Total(p, "draw") = Cardinality({g \in mine : IsDraw(g)})
            /\ Total(p, "loss") = Cardinality({g \in mine : winner[g] \notin {p, Nobody}})
            /\ Cardinality(Listed(p)) = Cardinality(mine)

(* The games of p that finished no earlier than g and count.               *)
Since(p, g) == {h \in Listed(p) : rows[h].finished >= rows[g].finished}

(* The streak the loop finds is the run of equal outcomes that ends with   *)
(* the game finished last, whatever games were abandoned before, between   *)
(* and after, by a restart or by a result that was not stored, and in      *)
(* whichever order the database gives those (repository.py 397-447).       *)
StreakIsTheLatestRun ==
    \A p \in Players : \A games \in LatestFirst(Ended(p)) :
        Streak(p, games).length =
            Cardinality({g \in Listed(p) : \A h \in Since(p, g) : Outcome(p, h) = Outcome(p, g)})

(* Every transaction ends by itself: two of them never wait for each       *)
(* other's rows, which the database would end by failing one of them       *)
(* (repository.py 327, 357).                                               *)
TransactionsEnd == <>[](\A g \in Games : at[g] \notin Open)
=============================================================================
