---------------------------- MODULE Matchmaking ----------------------------
(***************************************************************************)
(* Matchmaking: the endpoints join, status and leave                       *)
(* (app/routes/matchmaking.py), the keys they share in Redis, and the      *)
(* browser that calls them (the matchmaking part of static/app.js).        *)
(*                                                                         *)
(* Every endpoint is split at its awaits, and a request that is answered   *)
(* keeps its answer until the browser takes it.  A player's rating does    *)
(* not change while the player is here.  The database transaction of a     *)
(* match is one step with the result it publishes.                         *)
(***************************************************************************)
EXTENDS Integers, Sequences, FiniteSets

CONSTANTS
    Players,
    Elo,            \* the players' ratings
    Band,           \* ELO_BAND
    MaxClicks,      \* bound on each player's clicks
    MaxEvents,      \* bound, together, on visits (clicks on the lobby's other
                    \* buttons), keys that reach their time to live, restarts
    NoPlayer

ASSUME MatchmakingAssumption ==
    /\ Elo \in [Players -> Nat] /\ Band \in Nat
    /\ MaxClicks \in [Players -> Nat] /\ MaxEvents \in Nat
    /\ NoPlayer \notin Players

VARIABLES
    queue,      \* matchmaking:queue, its members
    sentinel,   \* the players whose key matchmaking:expiry:{id} is set
    result,     \* matchmaking:result:{id}: a game, or 0
    games,      \* the games that matches created, in order
    join,       \* each player's POST /matchmaking/join
    poll,       \* each player's GET /matchmaking/status
    leave,      \* each player's DELETE /matchmaking/leave
    visit,      \* each player's request to the lobby: POST /games, POST
                \* /games/{id}/join, or the GET that waits for an opponent
    client,     \* each player's browser
    clicks, events

redis    == <<queue, sentinel, result>>
server   == <<redis, games>>
requests == <<join, poll, leave, visit>>
counters == <<clicks, events>>
vars     == <<server, requests, client, counters>>

NoJoin  == [at |-> "idle", candidates |-> {}, other |-> NoPlayer, game |-> 0]
NoPoll  == [at |-> "idle", game |-> 0, current |-> FALSE]
NoLeave == [at |-> "idle", awaited |-> FALSE]

(* A browser: its screen; the game startGame opened, 0 unless a match made *)
(* it; state.myPlayer; whether Find Opponent is enabled, whether           *)
(* state.matchmakingTimer is set.  History: its player went elsewhere; the *)
(* answer to a Create changed myPlayer under the game it shows; a Create   *)
(* failed since Find Opponent was disabled.                                *)
Lobby == [screen |-> "lobby", game |-> 0, side |-> 0, find |-> TRUE, timer |-> FALSE,
          gaveUp |-> FALSE, mixed |-> FALSE, failed |-> FALSE]

Quit == [Lobby EXCEPT !.gaveUp = TRUE]

InGame(p, g) == client[p].screen = "game" /\ client[p].game = g

TypeOK ==
    /\ queue \subseteq Players /\ sentinel \subseteq Players
    /\ games \in Seq([player1 : Players, player2 : Players])
    /\ result \in [Players -> 0 .. Len(games)]
    /\ join \in [Players -> [at : {"idle", "evict", "forget", "scan", "check", "drop", "claim",
                                   "unstamp", "publish", "enqueue", "stamp", "queued", "matched"},
                             candidates : SUBSET Players, other : Players \cup {NoPlayer},
                             game : 0 .. Len(games)]]
    /\ poll \in [Players -> [at : {"idle", "get", "delete", "rank", "matched", "queued", "not_queued"},
                             game : 0 .. Len(games), current : BOOLEAN]]
    /\ leave \in [Players -> [at : {"idle", "entry", "sentinel", "result", "left"},
                              awaited : BOOLEAN]]
    /\ visit \in [Players -> {"idle", "create", "join", "wait"}]
    /\ client \in [Players -> [screen : {"lobby", "game"}, game : 0 .. Len(games), side : 0 .. 2,
                               find : BOOLEAN, timer : BOOLEAN, gaveUp : BOOLEAN, mixed : BOOLEAN,
                               failed : BOOLEAN]]
    /\ clicks \in [Players -> Nat] /\ (\A p \in Players : clicks[p] <= MaxClicks[p])
    /\ events \in 0 .. MaxEvents

Init ==
    /\ queue = {} /\ sentinel = {} /\ games = <<>>
    /\ result = [p \in Players |-> 0]
    /\ join = [p \in Players |-> NoJoin]
    /\ poll = [p \in Players |-> NoPoll]
    /\ leave = [p \in Players |-> NoLeave]
    /\ visit = [p \in Players |-> "idle"]
    /\ client = [p \in Players |-> Lobby]
    /\ clicks = [p \in Players |-> 0] /\ events = 0

-----------------------------------------------------------------------------
(* POST /matchmaking/join                                                  *)

JoinAt(p, from, to) ==
    /\ join[p].at = from
    /\ join' = [join EXCEPT ![p].at = to]
    /\ UNCHANGED <<poll, leave, visit, client, counters>>

EvictOwn(p) ==
    /\ JoinAt(p, "evict", "forget")
    /\ queue' = queue \ {p}
    /\ UNCHANGED <<sentinel, result, games>>

ForgetOwn(p) ==
    /\ JoinAt(p, "forget", "scan")
    /\ sentinel' = sentinel \ {p}
    /\ UNCHANGED <<queue, result, games>>

InBand(p, q) == Elo[q] \in Elo[p] - Band .. Elo[p] + Band

(* zrangebyscore: a snapshot of the queue, without the player himself.     *)
Scan(p) ==
    /\ join[p].at = "scan"
    /\ join' = [join EXCEPT ![p].at = "check",
                            ![p].candidates = {q \in queue \ {p} : InBand(p, q)}]
    /\ UNCHANGED <<server, poll, leave, visit, client, counters>>

(* The loop takes the candidates by rating; ties are broken by id, which   *)
(* the model does not have, so any of them may come first.                 *)
First(p, q) ==
    q \in join[p].candidates /\ \A r \in join[p].candidates : Elo[q] <= Elo[r]

CheckCandidate(p) ==
    /\ join[p].at = "check"
    /\ \/ \E q \in Players :
            /\ First(p, q)
            /\ join' = [join EXCEPT ![p].at = IF q \in sentinel THEN "claim" ELSE "drop",
                                    ![p].other = q]
       \/ join[p].candidates = {} /\ join' = [join EXCEPT ![p].at = "enqueue"]
    /\ UNCHANGED <<server, poll, leave, visit, client, counters>>

(* Fault: "continue" without taking the next candidate.                    *)
DropSameCandidate(p) ==
    /\ JoinAt(p, "drop", "check")
    /\ queue' = queue \ {join[p].other}
    /\ UNCHANGED <<sentinel, result, games>>

(* A candidate whose sentinel is gone is evicted, and the loop goes on.    *)
DropCandidate(p) ==
    /\ join[p].at = "drop"
    /\ queue' = queue \ {join[p].other}
    /\ join' = [join EXCEPT ![p].at = "check", ![p].candidates = @ \ {join[p].other}]
    /\ UNCHANGED <<sentinel, result, games, poll, leave, visit, client, counters>>

(* zrem of the match.  Its answer, whether the member was still there, is  *)
(* ignored.                                                                *)
Claim(p) ==
    /\ JoinAt(p, "claim", "unstamp")
    /\ queue' = queue \ {join[p].other}
    /\ UNCHANGED <<sentinel, result, games>>

ForgetMatch(p) ==
    /\ JoinAt(p, "unstamp", "publish")
    /\ sentinel' = sentinel \ {join[p].other}
    /\ UNCHANGED <<queue, result, games>>

(* Fault: the two players of the game are exchanged.                       *)
PublishExchanged(p) ==
    /\ join[p].at = "publish"
    /\ games' = Append(games, [player1 |-> p, player2 |-> join[p].other])
    /\ result' = [result EXCEPT ![join[p].other] = Len(games')]
    /\ join' = [join EXCEPT ![p].at = "matched", ![p].game = Len(games')]
    /\ UNCHANGED <<queue, sentinel, poll, leave, visit, client, counters>>

(* Fault: the result is published although join_game returned None.        *)
PublishWithoutGame(p) ==
    /\ join[p].at = "publish"
    /\ result' = [result EXCEPT ![join[p].other] = Len(games) + 1]
    /\ join' = [join EXCEPT ![p] = NoJoin]
    /\ UNCHANGED <<queue, sentinel, games, poll, leave, visit, client, counters>>

(* create_game for the player who waited, join_game for this one, a new    *)
(* board, and the result key: then the answer "matched".                   *)
Publish(p) ==
    /\ join[p].at = "publish"
    /\ games' = Append(games, [player1 |-> join[p].other, player2 |-> p])
    /\ result' = [result EXCEPT ![join[p].other] = Len(games')]
    /\ join' = [join EXCEPT ![p].at = "matched", ![p].game = Len(games')]
    /\ UNCHANGED <<queue, sentinel, poll, leave, visit, client, counters>>

Enqueue(p) ==
    /\ JoinAt(p, "enqueue", "stamp")
    /\ queue' = queue \cup {p}
    /\ UNCHANGED <<sentinel, result, games>>

Stamp(p) ==
    /\ JoinAt(p, "stamp", "queued")
    /\ sentinel' = sentinel \cup {p}
    /\ UNCHANGED <<queue, result, games>>

JoinStep(p) ==
    \/ EvictOwn(p) \/ ForgetOwn(p) \/ Scan(p) \/ CheckCandidate(p) \/ DropCandidate(p)
    \/ Claim(p) \/ ForgetMatch(p) \/ Publish(p) \/ Enqueue(p) \/ Stamp(p)

-----------------------------------------------------------------------------
(* GET /matchmaking/status/{player_id}                                     *)

PollGet(p) ==
    /\ poll[p].at = "get"
    /\ poll' = [poll EXCEPT ![p].at = IF result[p] # 0 THEN "delete" ELSE "rank",
                            ![p].game = result[p]]
    /\ UNCHANGED <<server, join, leave, visit, client, counters>>

PollDelete(p) ==
    /\ poll[p].at = "delete"
    /\ result' = [result EXCEPT ![p] = 0]
    /\ poll' = [poll EXCEPT ![p].at = "matched"]
    /\ UNCHANGED <<queue, sentinel, games, join, leave, visit, client, counters>>

PollRank(p) ==
    /\ poll[p].at = "rank"
    /\ poll' = [poll EXCEPT ![p].at = IF p \in queue THEN "queued" ELSE "not_queued"]
    /\ UNCHANGED <<server, join, leave, visit, client, counters>>

PollStep(p) == PollGet(p) \/ PollDelete(p) \/ PollRank(p)

-----------------------------------------------------------------------------
(* DELETE /matchmaking/leave/{player_id}                                   *)

LeaveEntry(p) ==
    /\ leave[p].at = "entry"
    /\ queue' = queue \ {p}
    /\ leave' = [leave EXCEPT ![p].at = "sentinel"]
    /\ UNCHANGED <<sentinel, result, games, join, poll, visit, client, counters>>

LeaveSentinel(p) ==
    /\ leave[p].at = "sentinel"
    /\ sentinel' = sentinel \ {p}
    /\ leave' = [leave EXCEPT ![p].at = "result"]
    /\ UNCHANGED <<queue, result, games, join, poll, visit, client, counters>>

LeaveResult(p) ==
    /\ leave[p].at = "result"
    /\ result' = [result EXCEPT ![p] = 0]
    /\ leave' = [leave EXCEPT ![p].at = "left"]
    /\ UNCHANGED <<queue, sentinel, games, join, poll, visit, client, counters>>

LeaveStep(p) == LeaveEntry(p) \/ LeaveSentinel(p) \/ LeaveResult(p)

-----------------------------------------------------------------------------
(* The browser.  A poll belongs to the timer that sent it: it is current   *)
(* while state.matchmakingTimer is still that timer.  A player has one     *)
(* request of each kind under way: a button that would send a second one   *)
(* is not pressed meanwhile.                                               *)

Happens == events < MaxEvents /\ events' = events + 1
Clicks(p)  == clicks[p] < MaxClicks[p] /\ clicks' = [clicks EXCEPT ![p] = @ + 1]

StopTimer(p) == poll' = [poll EXCEPT ![p].current = FALSE]

(* startGame, from any screen: it also clears the timers.                  *)
StartGame(p, g, side) ==
    client' = [client EXCEPT ![p] = [@ EXCEPT !.screen = "game", !.game = g, !.side = side,
                                              !.timer = FALSE, !.gaveUp = (g = 0),
                                              !.mixed = FALSE]]

(* A click on Find Opponent, which is then disabled until the answer.      *)
Find(p) ==
    /\ client[p].screen = "lobby" /\ client[p].find
    /\ join[p].at = "idle" /\ Clicks(p)
    /\ client' = [client EXCEPT ![p].find = FALSE, ![p].gaveUp = FALSE, ![p].failed = FALSE]
    /\ join' = [join EXCEPT ![p] = [NoJoin EXCEPT !.at = "evict"]]
    /\ UNCHANGED <<server, poll, leave, visit, events>>

(* The answer is taken whatever the page shows by then.                    *)
TakeJoin(p) ==
    /\ join[p].at \in {"queued", "matched"}
    /\ join' = [join EXCEPT ![p] = NoJoin]
    /\ StopTimer(p)
    /\ IF join[p].at = "queued"
       THEN client' = [client EXCEPT ![p].timer = TRUE]
       ELSE StartGame(p, join[p].game, 2)
    /\ UNCHANGED <<server, leave, visit, counters>>

(* The timer fires.                                                        *)
SendPoll(p) ==
    /\ client[p].timer /\ poll[p].at = "idle"
    /\ poll' = [poll EXCEPT ![p] = [NoPoll EXCEPT !.at = "get", !.current = TRUE]]
    /\ UNCHANGED <<server, join, leave, visit, client, counters>>

UsePoll(p) ==
    CASE poll[p].at = "matched" -> StartGame(p, poll[p].game, 1)
      [] poll[p].at = "not_queued" -> client' = [client EXCEPT ![p].timer = FALSE, ![p].find = TRUE]
      [] OTHER -> UNCHANGED client

(* Fault: the answer is used whatever became of the timer that asked.      *)
TakePollUnguarded(p) ==
    /\ poll[p].at \in {"matched", "queued", "not_queued"}
    /\ poll' = [poll EXCEPT ![p] = NoPoll]
    /\ UsePoll(p)
    /\ UNCHANGED <<server, join, leave, visit, counters>>

(* Only the answer to a current poll is used.                              *)
TakePoll(p) ==
    /\ poll[p].at \in {"matched", "queued", "not_queued"}
    /\ poll' = [poll EXCEPT ![p] = NoPoll]
    /\ IF poll[p].current THEN UsePoll(p) ELSE UNCHANGED client
    /\ UNCHANGED <<server, join, leave, visit, counters>>

SendLeave(p, awaited) ==
    /\ leave[p].at = "idle"
    /\ leave' = [leave EXCEPT ![p] = [at |-> "entry", awaited |-> awaited]]
    /\ StopTimer(p)
    /\ client' = [client EXCEPT ![p].timer = FALSE, ![p].gaveUp = TRUE]

(* Cancel waits for the answer before it enables Find Opponent; the card   *)
(* with its button is hidden in a game.                                    *)
Cancel(p) ==
    /\ client[p].screen = "lobby" /\ client[p].timer /\ Clicks(p)
    /\ SendLeave(p, TRUE)
    /\ UNCHANGED <<server, join, visit, events>>

TakeLeave(p) ==
    /\ leave[p].at = "left"
    /\ leave' = [leave EXCEPT ![p] = NoLeave]
    /\ client' = [client EXCEPT ![p].find = @ \/ leave[p].awaited]
    /\ UNCHANGED <<server, join, poll, visit, counters>>

(* The Leave button of a game; enterGameLobby.                             *)
LeaveGame(p) ==
    /\ client[p].screen = "game" /\ Clicks(p)
    /\ client' = [client EXCEPT ![p] = Quit]
    /\ StopTimer(p)
    /\ UNCHANGED <<server, join, leave, visit, events>>

-----------------------------------------------------------------------------
(* The other buttons of the lobby, which stay enabled, and their answers.  *)

Visits(p) == client[p].screen = "lobby" /\ visit[p] = "idle" /\ Clicks(p) /\ Happens

(* Create Game: the leave it sends is not awaited.                         *)
CreateGame(p) ==
    /\ Visits(p)
    /\ SendLeave(p, FALSE)
    /\ visit' = [visit EXCEPT ![p] = "create"]
    /\ UNCHANGED <<server, join>>

JoinWaiting(p) ==
    /\ Visits(p)
    /\ visit' = [visit EXCEPT ![p] = "join"]
    /\ UNCHANGED <<server, join, poll, leave, client>>

Rejoin(p) ==
    /\ client[p].screen = "lobby" /\ Clicks(p) /\ Happens
    /\ StartGame(p, 0, 0) /\ StopTimer(p)
    /\ UNCHANGED <<server, join, leave, visit>>

(* A game was created: myPlayer is 1 now, whatever game the page shows by  *)
(* then.  A creation that failed enables no button.                        *)
TakeCreate(p) ==
    /\ visit[p] = "create"
    /\ \/ /\ visit' = [visit EXCEPT ![p] = "wait"]
          /\ client' = [client EXCEPT
                ![p] = IF client[p].screen = "game" /\ client[p].game # 0
                       THEN [@ EXCEPT !.find = TRUE, !.side = 1, !.mixed = TRUE]
                       ELSE [@ EXCEPT !.find = TRUE]]
       \/ /\ visit' = [visit EXCEPT ![p] = "idle"]
          /\ client' = [client EXCEPT ![p].failed = ~client[p].find]
    /\ UNCHANGED <<server, join, poll, leave, counters>>

(* The game joined, or the own game that got an opponent, is shown; or     *)
(* the join failed, or the wait ended.                                     *)
TakeVisit(p) ==
    /\ visit[p] \in {"join", "wait"}
    /\ visit' = [visit EXCEPT ![p] = "idle"]
    /\ (StartGame(p, 0, 0) /\ StopTimer(p)) \/ UNCHANGED <<client, poll>>
    /\ UNCHANGED <<server, join, leave, counters>>

ClientStep(p) == TakeJoin(p) \/ SendPoll(p) \/ TakePoll(p) \/ TakeLeave(p) \/ TakeCreate(p)

Click(p) == Find(p) \/ Cancel(p) \/ LeaveGame(p) \/ CreateGame(p) \/ JoinWaiting(p) \/ Rejoin(p)

-----------------------------------------------------------------------------
(* MATCHMAKING_QUEUE_TTL, MATCHMAKING_RESULT_TTL.                          *)
Lapse(p) ==
    /\ p \in sentinel /\ Happens
    /\ sentinel' = sentinel \ {p}
    /\ UNCHANGED <<queue, result, games, requests, client, clicks>>

Forget(p) ==
    /\ result[p] # 0 /\ Happens
    /\ result' = [result EXCEPT ![p] = 0]
    /\ UNCHANGED <<queue, sentinel, games, requests, client, clicks>>

(* The process restarts: every request fails, lifespan empties the queue,  *)
(* and the other keys stay.  A browser whose join or awaited leave failed  *)
(* enables its button again; one that polls keeps polling.                 *)
Restart ==
    /\ Happens
    /\ queue' = {}
    /\ join' = [p \in Players |-> NoJoin]
    /\ poll' = [p \in Players |-> NoPoll]
    /\ leave' = [p \in Players |-> NoLeave]
    /\ visit' = [p \in Players |-> IF visit[p] = "wait" THEN "wait" ELSE "idle"]
    /\ client' = [p \in Players |->
                    IF join[p].at # "idle" \/ leave[p].awaited
                    THEN [client[p] EXCEPT !.find = TRUE, !.gaveUp = TRUE]
                    ELSE [client[p] EXCEPT !.failed = @ \/ (visit[p] = "create" /\ ~client[p].find)]]
    /\ UNCHANGED <<sentinel, result, games, clicks>>

Step(p) == JoinStep(p) \/ PollStep(p) \/ LeaveStep(p) \/ ClientStep(p)

Next ==
    \/ \E p \in Players : Step(p) \/ Click(p) \/ TakeVisit(p) \/ Lapse(p) \/ Forget(p)
    \/ Restart

Spec == Init /\ [][Next]_vars

(* The event loop runs every request to its end, the network delivers the  *)
(* answers, and setInterval fires.  No click is ever promised, nor that    *)
(* somebody joins a game that waits.                                       *)
FairSpec ==
    /\ Spec
    /\ \A p \in Players : /\ WF_vars(JoinStep(p)) /\ WF_vars(PollStep(p)) /\ WF_vars(LeaveStep(p))
                          /\ WF_vars(TakeJoin(p)) /\ WF_vars(SendPoll(p)) /\ WF_vars(TakePoll(p))
                          /\ WF_vars(TakeLeave(p)) /\ WF_vars(TakeCreate(p))
-----------------------------------------------------------------------------
(* Both players of a match agree on it: a browser that shows a match's     *)
(* game plays the side the game gives its player, whether its own join     *)
(* found the match or a poll did (matchmaking.py 94-125 and 146-159).  The *)
(* one exception is an answer to Create that comes under the game: it sets *)
(* myPlayer to 1 unconditionally (app.js 445-447).                         *)
SidesAgree ==
    \A p \in Players : client[p].screen = "game" /\ client[p].game # 0 /\ ~client[p].mixed =>
        LET g == games[client[p].game]
        IN  p = IF client[p].side = 1 THEN g.player1 ELSE g.player2

(* A page in a game has nothing under way that opens a game when it is     *)
(* answered: the code takes late answers to a join, a search that goes on, *)
(* and a visit to the lobby without asking what the page shows by then.    *)
Settled(p) ==
    /\ client[p].screen = "game" /\ ~client[p].timer
    /\ join[p].at = "idle" /\ visit[p] = "idle"

Shown(p) == <<client[p].screen, client[p].game, client[p].side>>

(* What is left of an abandoned search takes nobody out of a game: late    *)
(* answers to a poll of a timer that was cleared or replaced are ignored   *)
(* (app.js 546-550), and those to a leave touch only a button.  So a       *)
(* settled page shows its game, with its side, until its player leaves.    *)
StaysInItsGame ==
    [][\A p \in Players : Settled(p) => Shown(p)' = Shown(p) \/ LeaveGame(p)]_vars

(* Find and Cancel leave Find Opponent disabled until their request is     *)
(* answered (app.js 517-539, 593-605): the button comes back, or a search  *)
(* that can be cancelled, or a game, however many stale candidates the     *)
(* scan drops, whatever else is pressed meanwhile, and if the server       *)
(* restarts.  The exception is a Create that stopped the search and        *)
(* failed: nothing enables the button then (app.js 437-457).               *)
ButtonComesBack ==
    \A p \in Players :
        ~client[p].find ~> client[p].find \/ client[p].timer \/ client[p].screen = "game"
                             \/ client[p].failed

(* "If a match was found by another player, returns the game details so    *)
(* this player can join immediately" (matchmaking.py 137-138): whoever     *)
(* sits in a matched game is joined by the opponent, unless one of them    *)
(* leaves, cancels, goes elsewhere, or is told that its join failed.       *)
OpponentArrives ==
    \A p, q \in Players :
        (client[p].game # 0 /\ client[p].side = 2 /\ games[client[p].game].player1 = q)
            ~> (client[p].screen # "game" \/ InGame(q, client[p].game) \/ client[q].gaveUp)
=============================================================================
