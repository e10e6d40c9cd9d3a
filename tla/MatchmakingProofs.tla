------------------------- MODULE MatchmakingProofs -------------------------
(***************************************************************************)
(* Proofs about Matchmaking: its types, that the two browsers of a match   *)
(* agree on the sides, and that what is left of an abandoned search takes  *)
(* nobody out of a game.                                                   *)
(*                                                                         *)
(* SidesAgree is about two numbers a browser holds; where they come from   *)
(* is a chain of keys and answers in flight.  SidesKnown states, for every *)
(* link of that chain (the result key, the answer to a poll, the answer to *)
(* a join), which player of the game it belongs to.  StaysInItsGame needs  *)
(* CurrentPoll: a poll whose answer would still be used has its timer set, *)
(* so a page whose timer is cleared has no such poll.                      *)
(***************************************************************************)
EXTENDS Matchmaking, SequenceTheorems, TLAPS

Matches == [player1 : Players, player2 : Players]

(* The timer of a poll that is current is set.                             *)
CurrentPoll(p) == poll[p].current => client[p].timer

HasChosen(r) == r.at \in {"drop", "claim", "unstamp", "publish"} => r.other \in Players

Seated(p, g, side) ==
    /\ g \in 1 .. Len(games)
    /\ p = IF side = 1 THEN games[g].player1 ELSE games[g].player2

(* Whoever learns of a game learns it with the side that is theirs.        *)
SidesKnown(p) ==
    /\ result[p] # 0 => Seated(p, result[p], 1)
    /\ poll[p].at \in {"delete", "matched"} => Seated(p, poll[p].game, 1)
    /\ join[p].at = "matched" => Seated(p, join[p].game, 2)
    /\ client[p].screen = "game" /\ client[p].game # 0 /\ ~client[p].mixed
         => Seated(p, client[p].game, client[p].side)

Consistent(p) == CurrentPoll(p) /\ HasChosen(join[p]) /\ SidesKnown(p)

-----------------------------------------------------------------------------
(* Types                                                                   *)

LEMMA Appended ==
    ASSUME NEW S, NEW m \in Seq(S), NEW x \in S
    PROVE  /\ Append(m, x) \in Seq(S) /\ Len(Append(m, x)) = Len(m) + 1 /\ Len(m) \in Nat
           /\ Append(m, x)[Len(m) + 1] = x
           /\ \A i \in 1 .. Len(m) : Append(m, x)[i] = m[i]
  OBVIOUS

LEMMA TypeInit == Init => TypeOK
<1> SUFFICES ASSUME Init PROVE TypeOK
  OBVIOUS
<1>1. games \in Seq(Matches) /\ Len(games) = 0
  BY EmptySeq DEF Init, Matches
<1> QED BY <1>1, MatchmakingAssumption
      DEF Init, TypeOK, Matches, NoJoin, NoPoll, NoLeave, Lobby

JoinAts == {"idle", "evict", "forget", "scan", "check", "drop", "claim",
            "unstamp", "publish", "enqueue", "stamp", "queued", "matched"}
PollAts == {"idle", "get", "delete", "rank", "matched", "queued", "not_queued"}
Joins(n) == [at : JoinAts, candidates : SUBSET Players, other : Players \cup {NoPlayer},
             game : 0 .. n]
Polls(n) == [at : PollAts, game : 0 .. n, current : BOOLEAN]
Clients(n) == [screen : {"lobby", "game"}, game : 0 .. n, side : 0 .. 2, find : BOOLEAN,
               timer : BOOLEAN, gaveUp : BOOLEAN, mixed : BOOLEAN, failed : BOOLEAN]
Leaves == [at : {"idle", "entry", "sentinel", "result", "left"}, awaited : BOOLEAN]
Visiting == {"idle", "create", "join", "wait"}

(* TypeOK in the parts a step changes, when there are n games.             *)
Keys(n)     == queue \subseteq Players /\ sentinel \subseteq Players
               /\ result \in [Players -> 0 .. n]
Requests(n) == join \in [Players -> Joins(n)] /\ poll \in [Players -> Polls(n)]
               /\ leave \in [Players -> Leaves] /\ visit \in [Players -> Visiting]
Browsers(n) == client \in [Players -> Clients(n)]
Bounded     == clicks \in [Players -> Nat] /\ (\A p \in Players : clicks[p] <= MaxClicks[p])
               /\ events \in 0 .. MaxEvents

TypeParts == /\ games \in Seq(Matches) /\ Keys(Len(games)) /\ Requests(Len(games))
             /\ Browsers(Len(games)) /\ Bounded

LEMMA Typed == TypeOK <=> TypeParts
  BY Zenon DEF TypeOK, TypeParts, Keys, Requests, Browsers, Bounded, Matches, Joins, JoinAts,
               Polls, PollAts, Clients, Leaves, Visiting

(* A record of a function that is replaced.                                *)
LEMMA Replaced ==
    ASSUME NEW S, NEW T, NEW f \in [S -> T], NEW x \in S, NEW v \in T
    PROVE  /\ [f EXCEPT ![x] = v] \in [S -> T]
           /\ [f EXCEPT ![x] = v][x] = v
           /\ \A y \in S \ {x} : [f EXCEPT ![x] = v][y] = f[y]
  OBVIOUS

LEMMA MoreGames ==
    ASSUME NEW n \in Nat, Keys(n), Requests(n), Browsers(n)
    PROVE  Keys(n + 1) /\ Requests(n + 1) /\ Browsers(n + 1)
<1>1. 0 .. n \subseteq 0 .. n + 1
  OBVIOUS
<1>2. Joins(n) \subseteq Joins(n + 1)
  BY <1>1 DEF Joins
<1>3. Polls(n) \subseteq Polls(n + 1)
  BY <1>1 DEF Polls
<1>4. Clients(n) \subseteq Clients(n + 1)
  BY <1>1 DEF Clients
<1>5. Keys(n + 1)
  BY <1>1 DEF Keys
<1>6. Requests(n + 1)
  BY <1>2, <1>3 DEF Requests
<1>7. Browsers(n + 1)
  BY <1>4 DEF Browsers
<1> QED BY <1>5, <1>6, <1>7

(* What a step of a join makes of the join.                                *)
UnderWay(n) == {r \in Joins(n) : r.at \notin {"idle", "matched"} /\ HasChosen(r)}

JoinBecomes(p, r) == join' = [join EXCEPT ![p] = r]

LEMMA JoinMoves ==
    ASSUME NEW n \in Nat, Keys(n), Requests(n), NEW p \in Players, HasChosen(join[p]),
           JoinStep(p), ~Publish(p)
    PROVE  \E r \in UnderWay(n) : JoinBecomes(p, r)
<1>1. join[p] \in Joins(n) /\ queue \subseteq Players
  BY DEF Requests, Keys
<1>3. ASSUME NEW from, NEW to \in JoinAts \ {"idle", "matched", "drop", "claim"},
             JoinAt(p, from, to),
             to \in {"unstamp", "publish"} => from \in {"claim", "unstamp"}
      PROVE  \E r \in UnderWay(n) : JoinBecomes(p, r)
  <2> DEFINE r == [join[p] EXCEPT !.at = to]
  <2>1. join[p].at = from /\ join' = [join EXCEPT ![p] = r]
    BY <1>3 DEF JoinAt
  <2>2. r \in UnderWay(n)
    BY <1>1, <1>3, <2>1 DEF UnderWay, HasChosen, Joins
  <2> HIDE DEF r
  <2> QED BY <2>1, <2>2 DEF JoinBecomes
<1>5. ASSUME EvictOwn(p) \/ ForgetOwn(p) \/ Claim(p) \/ ForgetMatch(p) \/ Enqueue(p) \/ Stamp(p)
      PROVE  \/ JoinAt(p, "evict", "forget") \/ JoinAt(p, "forget", "scan")
             \/ JoinAt(p, "claim", "unstamp") \/ JoinAt(p, "unstamp", "publish")
             \/ JoinAt(p, "enqueue", "stamp") \/ JoinAt(p, "stamp", "queued")
  BY <1>5, Zenon DEF EvictOwn, ForgetOwn, Claim, ForgetMatch, Enqueue, Stamp
<1>6. CASE EvictOwn(p) \/ ForgetOwn(p) \/ Claim(p) \/ ForgetMatch(p) \/ Enqueue(p) \/ Stamp(p)
  <2>1. {"forget", "scan", "unstamp", "publish", "stamp", "queued"}
          \subseteq JoinAts \ {"idle", "matched", "drop", "claim"}
    BY DEF JoinAts
  <2> QED BY <1>3, <1>5, <1>6, <2>1
<1>7. CASE Scan(p)
  <2> DEFINE c == {q \in queue \ {p} : InBand(p, q)}
             r == [join[p] EXCEPT !.at = "check", !.candidates = c]
  <2>1. join' = [join EXCEPT ![p] = r]
    BY <1>7 DEF Scan
  <2>2. r \in UnderWay(n)
    BY <1>1 DEF UnderWay, HasChosen, Joins, JoinAts
  <2> HIDE DEF r
  <2> QED BY <2>1, <2>2 DEF JoinBecomes
<1>8. CASE CheckCandidate(p)
  <2>1. ASSUME NEW q \in Players, NEW to \in {"claim", "drop"},
               join' = [join EXCEPT ![p].at = to, ![p].other = q]
        PROVE  \E r \in UnderWay(n) : JoinBecomes(p, r)
    <3> DEFINE r == [join[p] EXCEPT !.at = to, !.other = q]
    <3>1. join' = [join EXCEPT ![p] = r]
      BY <2>1
    <3>2. r \in UnderWay(n)
      BY <1>1 DEF UnderWay, HasChosen, Joins, JoinAts
    <3> HIDE DEF r
    <3> QED BY <3>1, <3>2 DEF JoinBecomes
  <2>2. CASE join' = [join EXCEPT ![p].at = "enqueue"]
    <3> DEFINE r == [join[p] EXCEPT !.at = "enqueue"]
    <3>1. join' = [join EXCEPT ![p] = r]
      BY <2>2
    <3>2. r \in UnderWay(n)
      BY <1>1 DEF UnderWay, HasChosen, Joins, JoinAts
    <3> HIDE DEF r
    <3> QED BY <3>1, <3>2 DEF JoinBecomes
  <2>3. CASE \E q \in Players : join' = [join EXCEPT ![p].at = IF q \in sentinel THEN "claim" ELSE "drop",
                                                     ![p].other = q]
    BY <2>1, <2>3
  <2> QED BY <1>8, <2>2, <2>3 DEF CheckCandidate
<1>9. CASE DropCandidate(p)
  <2> DEFINE r == [join[p] EXCEPT !.at = "check", !.candidates = join[p].candidates \ {join[p].other}]
  <2>1. join' = [join EXCEPT ![p] = r]
    BY <1>9 DEF DropCandidate
  <2>2. r \in UnderWay(n)
    BY <1>1 DEF UnderWay, HasChosen, Joins, JoinAts
  <2> HIDE DEF r
  <2> QED BY <2>1, <2>2 DEF JoinBecomes
<1> QED BY <1>6, <1>7, <1>8, <1>9 DEF JoinStep

-----------------------------------------------------------------------------
(* The invariant                                                           *)

Inv == TypeParts /\ \A p \in Players : Consistent(p)

(* A step that concerns p alone.                                           *)
SameFor(q) == /\ result'[q] = result[q] /\ join'[q] = join[q] /\ poll'[q] = poll[q]
              /\ leave'[q] = leave[q] /\ visit'[q] = visit[q] /\ client'[q] = client[q]

LEMMA Others ==
    ASSUME Inv, NEW p \in Players, UNCHANGED games,
           \A q \in Players \ {p} : SameFor(q), Consistent(p)', TypeParts'
    PROVE  Inv'
<1> SUFFICES ASSUME NEW q \in Players \ {p} PROVE Consistent(q)'
  BY DEF Inv
<1>1. Consistent(q) /\ SameFor(q)
  BY DEF Inv
<1> QED BY <1>1 DEF Consistent, CurrentPoll, HasChosen, SidesKnown, Seated, SameFor

LEMMA InvInit == Init => Inv
<1> SUFFICES ASSUME Init PROVE Inv
  OBVIOUS
<1>1. TypeParts
  BY TypeInit, Typed
<1>2. \A p \in Players : Consistent(p)
  BY DEF Init, Consistent, CurrentPoll, HasChosen, SidesKnown, NoJoin, NoPoll, Lobby
<1> QED BY <1>1, <1>2 DEF Inv

LEMMA JoinInv ==
    ASSUME Inv, NEW p \in Players, JoinStep(p), ~Publish(p)
    PROVE  Inv'
<1> DEFINE n == Len(games)
<1>1. TypeParts /\ n \in Nat /\ Consistent(p)
  BY LenProperties DEF Inv, TypeParts
<1>2. PICK r \in UnderWay(n) : JoinBecomes(p, r)
  BY <1>1, JoinMoves DEF TypeParts, Consistent
<1>3. UNCHANGED <<games, result, poll, leave, visit, client, counters>>
  BY DEF JoinStep, JoinAt, EvictOwn, ForgetOwn, Scan, CheckCandidate, DropCandidate, Claim,
         ForgetMatch, Enqueue, Stamp, server, redis
<1>4. queue' \subseteq Players /\ sentinel' \subseteq Players
  BY <1>1 DEF JoinStep, JoinAt, EvictOwn, ForgetOwn, Scan, CheckCandidate, DropCandidate, Claim,
              ForgetMatch, Enqueue, Stamp, server, redis, TypeParts, Keys
<1>5. join[p].at # "idle"
  BY DEF JoinStep, JoinAt, EvictOwn, ForgetOwn, Scan, CheckCandidate, DropCandidate, Claim,
         ForgetMatch, Enqueue, Stamp
<1>6. /\ join' \in [Players -> Joins(n)] /\ join'[p] = r
      /\ \A q \in Players \ {p} : join'[q] = join[q]
  <2>1. join \in [Players -> Joins(n)] /\ r \in Joins(n)
    BY <1>1 DEF TypeParts, Requests, UnderWay
  <2> QED BY <1>2, <2>1, Replaced DEF JoinBecomes
<1>7. TypeParts'
  BY <1>1, <1>3, <1>4, <1>6 DEF TypeParts, Keys, Requests, Browsers, Bounded, counters
<1>8. Consistent(p)'
  BY <1>1, <1>3, <1>5, <1>6
     DEF Consistent, CurrentPoll, HasChosen, SidesKnown, Seated, UnderWay
<1>9. \A q \in Players \ {p} : SameFor(q)
  BY <1>3, <1>6 DEF SameFor
<1> QED BY <1>3, <1>7, <1>8, <1>9, Others

LEMMA PollInv ==
    ASSUME Inv, NEW p \in Players, PollStep(p)
    PROVE  Inv'
<1> DEFINE n == Len(games)
<1>1. TypeParts /\ n \in Nat /\ Consistent(p) /\ poll[p] \in Polls(n) /\ result[p] \in 0 .. n
  BY LenProperties DEF Inv, TypeParts, Keys, Requests
<1>2. UNCHANGED <<games, queue, sentinel, join, leave, visit, client, counters>>
  BY DEF PollStep, PollGet, PollDelete, PollRank, server, redis
<1>3. result' = [result EXCEPT ![p] = 0] \/ result' = result
  BY DEF PollStep, PollGet, PollDelete, PollRank, server, redis
<1>4. PICK r \in Polls(n) :
         /\ poll' = [poll EXCEPT ![p] = r] /\ r.current = poll[p].current
         /\ r.at \in {"delete", "matched"} => Seated(p, r.game, 1)
  <2>1. CASE PollGet(p)
    <3> DEFINE r == [poll[p] EXCEPT !.at = IF result[p] # 0 THEN "delete" ELSE "rank",
                                    !.game = result[p]]
    <3>1. poll' = [poll EXCEPT ![p] = r]
      BY <2>1 DEF PollGet
    <3>2. r \in Polls(n) /\ r.current = poll[p].current
      BY <1>1 DEF Polls, PollAts
    <3>3. r.at \in {"delete", "matched"} => Seated(p, r.game, 1)
      BY <1>1 DEF Polls, Consistent, SidesKnown
    <3> HIDE DEF r
    <3> QED BY <3>1, <3>2, <3>3
  <2>2. CASE PollDelete(p)
    <3> DEFINE r == [poll[p] EXCEPT !.at = "matched"]
    <3>1. poll' = [poll EXCEPT ![p] = r]
      BY <2>2 DEF PollDelete
    <3>2. r \in Polls(n) /\ r.current = poll[p].current
      BY <1>1 DEF Polls, PollAts
    <3>3. r.at \in {"delete", "matched"} => Seated(p, r.game, 1)
      BY <1>1, <2>2 DEF PollDelete, Polls, Consistent, SidesKnown
    <3> HIDE DEF r
    <3> QED BY <3>1, <3>2, <3>3
  <2>3. CASE PollRank(p)
    <3> DEFINE r == [poll[p] EXCEPT !.at = IF p \in queue THEN "queued" ELSE "not_queued"]
    <3>1. poll' = [poll EXCEPT ![p] = r]
      BY <2>3 DEF PollRank
    <3>2. r \in Polls(n) /\ r.current = poll[p].current
      BY <1>1 DEF Polls, PollAts
    <3>3. r.at \in {"delete", "matched"} => Seated(p, r.game, 1)
      BY <1>1 DEF Polls
    <3> HIDE DEF r
    <3> QED BY <3>1, <3>2, <3>3
  <2> QED BY <2>1, <2>2, <2>3 DEF PollStep
<1>5. /\ poll' \in [Players -> Polls(n)] /\ poll'[p] = r
      /\ \A q \in Players \ {p} : poll'[q] = poll[q]
  <2>1. poll \in [Players -> Polls(n)]
    BY <1>1 DEF TypeParts, Requests
  <2> QED BY <1>4, <2>1, Replaced
<1>6. /\ result' \in [Players -> 0 .. n] /\ result'[p] \in {0, result[p]}
      /\ \A q \in Players \ {p} : result'[q] = result[q]
  BY <1>1, <1>3 DEF TypeParts, Keys
<1>7. TypeParts'
  BY <1>1, <1>2, <1>5, <1>6 DEF TypeParts, Keys, Requests, Browsers, Bounded, counters
<1>8. Consistent(p)'
  BY <1>1, <1>2, <1>4, <1>5, <1>6 DEF Consistent, CurrentPoll, HasChosen, SidesKnown, Seated
<1>9. \A q \in Players \ {p} : SameFor(q)
  BY <1>2, <1>5, <1>6 DEF SameFor
<1> QED BY <1>2, <1>7, <1>8, <1>9, Others

LEMMA LeaveStepInv ==
    ASSUME Inv, NEW p \in Players, LeaveStep(p)
    PROVE  Inv'
<1>1. TypeParts /\ Consistent(p)
  BY DEF Inv
<1>2. UNCHANGED <<games, join, poll, visit, client, counters>>
  BY DEF LeaveStep, LeaveEntry, LeaveSentinel, LeaveResult, server, redis
<1>3. /\ queue' \subseteq Players /\ sentinel' \subseteq Players
      /\ result' = [result EXCEPT ![p] = 0] \/ result' = result
  BY <1>1 DEF LeaveStep, LeaveEntry, LeaveSentinel, LeaveResult, TypeParts, Keys, server, redis
<1>4. /\ result' \in [Players -> 0 .. Len(games)] /\ result'[p] \in {0, result[p]}
      /\ \A q \in Players \ {p} : result'[q] = result[q]
  <2>1. result \in [Players -> 0 .. Len(games)] /\ 0 \in 0 .. Len(games)
    BY <1>1, LenProperties DEF TypeParts, Keys
  <2> QED BY <1>3, <2>1
<1>5. leave' \in [Players -> Leaves] /\ \A q \in Players \ {p} : leave'[q] = leave[q]
  <2>1. leave \in [Players -> Leaves]
    BY <1>1 DEF TypeParts, Requests
  <2>2. ASSUME NEW to \in {"sentinel", "result", "left"}, leave' = [leave EXCEPT ![p].at = to]
        PROVE  leave' \in [Players -> Leaves] /\ \A q \in Players \ {p} : leave'[q] = leave[q]
    <3>1. [leave[p] EXCEPT !.at = to] \in Leaves
      BY <2>1 DEF Leaves
    <3>2. leave' = [leave EXCEPT ![p] = [leave[p] EXCEPT !.at = to]]
      BY <2>2
    <3> QED BY <2>1, <3>1, <3>2, Replaced
  <2>3. \E to \in {"sentinel", "result", "left"} : leave' = [leave EXCEPT ![p].at = to]
    BY DEF LeaveStep, LeaveEntry, LeaveSentinel, LeaveResult
  <2> QED BY <2>2, <2>3
<1>6. TypeParts'
  BY <1>1, <1>2, <1>3, <1>4, <1>5 DEF TypeParts, Keys, Requests, Browsers, Bounded, counters
<1>7. Consistent(p)'
  BY <1>1, <1>2, <1>4 DEF Consistent, CurrentPoll, HasChosen, SidesKnown, Seated
<1>8. \A q \in Players \ {p} : SameFor(q)
  BY <1>2, <1>4, <1>5 DEF SameFor
<1> QED BY <1>2, <1>6, <1>7, <1>8, Others

-----------------------------------------------------------------------------
(* The browser's steps                                                     *)

(* What the counters allow.                                                *)
LEMMA StillBounded ==
    ASSUME Bounded, NEW p \in Players, Clicks(p) \/ UNCHANGED clicks, Happens \/ UNCHANGED events
    PROVE  Bounded'
<1>1. MaxClicks \in [Players -> Nat] /\ MaxEvents \in Nat
  BY MatchmakingAssumption
<1>2. events' \in 0 .. MaxEvents
  BY <1>1 DEF Bounded, Happens
<1>3. clicks' \in [Players -> Nat] /\ \A q \in Players : clicks'[q] <= MaxClicks[q]
  <2>1. CASE Clicks(p)
    <3>1. clicks[p] + 1 <= MaxClicks[p] /\ clicks[p] + 1 \in Nat
      BY <1>1, <2>1 DEF Bounded, Clicks
    <3>2. clicks' = [clicks EXCEPT ![p] = clicks[p] + 1]
      BY <2>1 DEF Clicks
    <3>3. /\ clicks' \in [Players -> Nat] /\ clicks'[p] = clicks[p] + 1
          /\ \A q \in Players \ {p} : clicks'[q] = clicks[q]
      BY <3>1, <3>2, Replaced DEF Bounded
    <3> QED BY <3>1, <3>3 DEF Bounded
  <2>2. CASE UNCHANGED clicks
    BY <2>2 DEF Bounded
  <2> QED BY <2>1, <2>2
<1> QED BY <1>2, <1>3 DEF Bounded

(* A step of p's browser: the requests and the page that it leaves.        *)
BrowserStep(p, j, w, l, v, c) ==
    /\ UNCHANGED <<queue, sentinel, result, games>>
    /\ join' = [join EXCEPT ![p] = j] /\ poll' = [poll EXCEPT ![p] = w]
    /\ leave' = [leave EXCEPT ![p] = l] /\ visit' = [visit EXCEPT ![p] = v]
    /\ client' = [client EXCEPT ![p] = c]

(* It brings no game but one that is p's with that side.                   *)
Lawful(p, j, w, c) ==
    /\ j = join[p] \/ j.at \in {"idle", "evict"}
    /\ w.at \in {"delete", "matched"} => w.at = poll[p].at /\ w.game = poll[p].game
    /\ w.current => c.timer
    /\ c.screen = "game" /\ c.game # 0 /\ ~c.mixed => Seated(p, c.game, c.side)

LEMMA BrowserInv ==
    ASSUME Inv, NEW p \in Players, NEW j \in Joins(Len(games)), NEW w \in Polls(Len(games)),
           NEW l \in Leaves, NEW v \in Visiting, NEW c \in Clients(Len(games)),
           BrowserStep(p, j, w, l, v, c), Lawful(p, j, w, c), Bounded'
    PROVE  Inv'
<1>1. TypeParts /\ Consistent(p)
  BY DEF Inv
<1>2. UNCHANGED <<queue, sentinel, result, games>>
  BY DEF BrowserStep
<1>3. /\ join' \in [Players -> Joins(Len(games))] /\ join'[p] = j
      /\ \A q \in Players \ {p} : join'[q] = join[q]
  BY <1>1, Replaced DEF BrowserStep, TypeParts, Requests
<1>4. /\ poll' \in [Players -> Polls(Len(games))] /\ poll'[p] = w
      /\ \A q \in Players \ {p} : poll'[q] = poll[q]
  BY <1>1, Replaced DEF BrowserStep, TypeParts, Requests
<1>5. leave' \in [Players -> Leaves] /\ \A q \in Players \ {p} : leave'[q] = leave[q]
  BY <1>1, Replaced DEF BrowserStep, TypeParts, Requests
<1>6. visit' \in [Players -> Visiting] /\ \A q \in Players \ {p} : visit'[q] = visit[q]
  BY <1>1, Replaced DEF BrowserStep, TypeParts, Requests
<1>7. /\ client' \in [Players -> Clients(Len(games))] /\ client'[p] = c
      /\ \A q \in Players \ {p} : client'[q] = client[q]
  BY <1>1, Replaced DEF BrowserStep, TypeParts, Browsers
<1>8. TypeParts'
  BY <1>1, <1>2, <1>3, <1>4, <1>5, <1>6, <1>7 DEF TypeParts, Keys, Requests, Browsers
<1>9. CurrentPoll(p)'
  BY <1>4, <1>7 DEF CurrentPoll, Lawful
<1>10. HasChosen(join'[p])
  BY <1>1, <1>3 DEF Lawful, HasChosen, Consistent
<1>11. /\ result'[p] # 0 => Seated(p, result[p], 1)'
       /\ join'[p].at = "matched" => Seated(p, join[p].game, 2)'
  BY <1>1, <1>2, <1>3 DEF Lawful, Consistent, SidesKnown, Seated
<1>12. poll'[p].at \in {"delete", "matched"} => Seated(p, poll[p].game, 1)'
  BY <1>1, <1>2, <1>4 DEF Lawful, Consistent, SidesKnown, Seated
<1>13. client'[p].screen = "game" /\ client'[p].game # 0 /\ ~client'[p].mixed
         => Seated(p, client[p].game, client[p].side)'
  BY <1>2, <1>7 DEF Lawful, Seated
<1>14. Consistent(p)'
  BY <1>9, <1>10, <1>11, <1>12, <1>13 DEF Consistent, SidesKnown
<1>15. \A q \in Players \ {p} : SameFor(q)
  BY <1>2, <1>3, <1>4, <1>5, <1>6, <1>7 DEF SameFor
<1> QED BY <1>2, <1>8, <1>14, <1>15, Others

(* What a browser is before it takes a step, and the records it may leave. *)
LEMMA Parts ==
    ASSUME Inv, NEW p \in Players
    PROVE  /\ Len(games) \in Nat /\ Bounded /\ Consistent(p)
           /\ join[p] \in Joins(Len(games)) /\ poll[p] \in Polls(Len(games))
           /\ join[p].game \in 0 .. Len(games) /\ poll[p].game \in 0 .. Len(games)
           /\ leave[p] \in Leaves /\ visit[p] \in Visiting /\ client[p] \in Clients(Len(games))
           /\ join = [join EXCEPT ![p] = join[p]] /\ poll = [poll EXCEPT ![p] = poll[p]]
           /\ leave = [leave EXCEPT ![p] = leave[p]] /\ visit = [visit EXCEPT ![p] = visit[p]]
           /\ client = [client EXCEPT ![p] = client[p]]
<1>1. /\ games \in Seq(Matches) /\ Requests(Len(games)) /\ Browsers(Len(games))
      /\ Bounded /\ Consistent(p)
  BY DEF Inv, TypeParts
<1>2. join[p] \in Joins(Len(games)) /\ poll[p] \in Polls(Len(games))
  BY <1>1 DEF Requests
<1>3. join[p].game \in 0 .. Len(games) /\ poll[p].game \in 0 .. Len(games)
  BY <1>2 DEF Joins, Polls
<1>4. leave[p] \in Leaves /\ visit[p] \in Visiting /\ client[p] \in Clients(Len(games))
  BY <1>1 DEF Requests, Browsers
<1>5. /\ join = [join EXCEPT ![p] = join[p]] /\ poll = [poll EXCEPT ![p] = poll[p]]
      /\ leave = [leave EXCEPT ![p] = leave[p]] /\ visit = [visit EXCEPT ![p] = visit[p]]
      /\ client = [client EXCEPT ![p] = client[p]]
  BY <1>1 DEF Requests, Browsers
<1> QED BY <1>1, <1>2, <1>3, <1>4, <1>5, LenProperties

LEMMA Booleans == TRUE \in BOOLEAN /\ FALSE \in BOOLEAN /\ \A a, b : (a = b) \in BOOLEAN
  OBVIOUS

NewJoin == [NoJoin EXCEPT !.at = "evict"]
NewPoll == [NoPoll EXCEPT !.at = "get", !.current = TRUE]

LEMMA NewRequests ==
    ASSUME NEW n \in Nat
    PROVE  /\ NoJoin \in Joins(n) /\ NewJoin \in Joins(n)
           /\ NoJoin.at = "idle" /\ NewJoin.at = "evict"
           /\ NoPoll \in Polls(n) /\ NewPoll \in Polls(n)
           /\ NoPoll.at = "idle" /\ NewPoll.at = "get" /\ ~NoPoll.current
           /\ NoLeave \in Leaves
<1>1. NoJoin \in Joins(n) /\ NewJoin \in Joins(n) /\ NoJoin.at = "idle" /\ NewJoin.at = "evict"
  BY DEF NoJoin, NewJoin, Joins, JoinAts
<1>2. NoPoll.at = "idle" /\ NewPoll.at = "get" /\ ~NoPoll.current
  BY DEF NoPoll, NewPoll
<1>3. \A b \in BOOLEAN : [at |-> "idle", game |-> 0, current |-> b] \in Polls(n)
  BY DEF Polls, PollAts
<1>4. \A r \in Polls(n), b \in BOOLEAN : [r EXCEPT !.at = "get", !.current = b] \in Polls(n)
  BY DEF Polls, PollAts
<1>5. NoPoll \in Polls(n)
  BY <1>3, Booleans, Zenon DEF NoPoll
<1>6. NewPoll \in Polls(n)
  BY <1>4, <1>5, Booleans, Zenon DEF NewPoll
<1>7. \A b \in BOOLEAN : [at |-> "idle", awaited |-> b] \in Leaves
  BY DEF Leaves
<1>8. NoLeave \in Leaves
  BY <1>7, Booleans, Zenon DEF NoLeave
<1> QED BY <1>1, <1>2, <1>5, <1>6, <1>8

(* The poll of a timer that was cleared.                                   *)
Stale(w) == [w EXCEPT !.current = FALSE]

LEMMA StalePoll ==
    ASSUME Inv, NEW p \in Players, StopTimer(p)
    PROVE  /\ Stale(poll[p]) \in Polls(Len(games)) /\ ~Stale(poll[p]).current
           /\ Stale(poll[p]).at = poll[p].at /\ Stale(poll[p]).game = poll[p].game
           /\ poll' = [poll EXCEPT ![p] = Stale(poll[p])]
<1>1. poll[p] \in Polls(Len(games))
  BY Parts
<1> QED BY <1>1 DEF StopTimer, Stale, Polls

(* The page that shows a game.                                             *)
Started(c, g, side, b) ==
    [c EXCEPT !.screen = "game", !.game = g, !.side = side, !.timer = FALSE, !.gaveUp = b,
              !.mixed = FALSE]

LEMMA StartedPage ==
    ASSUME Inv, NEW p \in Players, NEW g \in 0 .. Len(games), NEW side \in 0 .. 2,
           StartGame(p, g, side)
    PROVE  \E c \in Clients(Len(games)) :
              client' = [client EXCEPT ![p] = c] /\ c.game = g /\ c.side = side
<1>1. client[p] \in Clients(Len(games))
  BY Parts
<1>2. \A b \in BOOLEAN : /\ Started(client[p], g, side, b) \in Clients(Len(games))
                         /\ Started(client[p], g, side, b).game = g
                         /\ Started(client[p], g, side, b).side = side
  BY <1>1 DEF Started, Clients
<1>3. client' = [client EXCEPT ![p] = Started(client[p], g, side, g = 0)]
  BY Zenon DEF StartGame, Started
<1> QED BY <1>2, <1>3, Booleans, Zenon

LEMMA TakeJoinInv ==
    ASSUME Inv, NEW p \in Players, TakeJoin(p)
    PROVE  Inv'
<1>1. StopTimer(p) /\ join' = [join EXCEPT ![p] = NoJoin]
      /\ UNCHANGED <<queue, sentinel, result, games, leave, visit, counters>>
  BY DEF TakeJoin, server, redis
<1>2. Bounded'
  BY <1>1, Parts, StillBounded DEF counters
<1>3. ASSUME NEW c \in Clients(Len(games)), client' = [client EXCEPT ![p] = c],
             c.screen = "game" /\ c.game # 0 /\ ~c.mixed => Seated(p, c.game, c.side)
      PROVE  Inv'
  <2>1. BrowserStep(p, NoJoin, Stale(poll[p]), leave[p], visit[p], c)
    BY <1>1, <1>3, Parts, StalePoll DEF BrowserStep
  <2>2. Lawful(p, NoJoin, Stale(poll[p]), c)
    BY <1>1, <1>3, Parts, StalePoll, NewRequests DEF Lawful
  <2> QED BY <1>1, <1>2, <2>1, <2>2, Parts, StalePoll, NewRequests, BrowserInv
<1>4. CASE join[p].at = "queued"
  <2> DEFINE c == [client[p] EXCEPT !.timer = TRUE]
  <2>1. client' = [client EXCEPT ![p] = c]
    BY <1>4, Zenon DEF TakeJoin
  <2>2. /\ c \in Clients(Len(games)) /\ c.screen = client[p].screen /\ c.game = client[p].game
        /\ c.side = client[p].side /\ c.mixed = client[p].mixed
    BY Parts DEF Clients
  <2>3. c.screen = "game" /\ c.game # 0 /\ ~c.mixed => Seated(p, c.game, c.side)
    BY <2>2, Parts DEF Consistent, SidesKnown
  <2> HIDE DEF c
  <2> QED BY <1>3, <2>1, <2>2, <2>3
<1>5. CASE join[p].at = "matched"
  <2>1. StartGame(p, join[p].game, 2)
    BY <1>5 DEF TakeJoin
  <2>2. Seated(p, join[p].game, 2)
    BY <1>5, Parts DEF Consistent, SidesKnown
  <2>3. PICK c \in Clients(Len(games)) :
           client' = [client EXCEPT ![p] = c] /\ c.game = join[p].game /\ c.side = 2
    BY <2>1, Parts, StartedPage
  <2> QED BY <1>3, <2>2, <2>3
<1> QED BY <1>4, <1>5 DEF TakeJoin

LEMMA SendPollInv ==
    ASSUME Inv, NEW p \in Players, SendPoll(p)
    PROVE  Inv'
<1>1. /\ poll' = [poll EXCEPT ![p] = NewPoll] /\ client[p].timer
      /\ UNCHANGED <<queue, sentinel, result, games, join, leave, visit, client, counters>>
  BY DEF SendPoll, NewPoll, server, redis
<1>2. Bounded'
  BY <1>1, Parts, StillBounded DEF counters
<1>3. BrowserStep(p, join[p], NewPoll, leave[p], visit[p], client[p])
  BY <1>1, Parts DEF BrowserStep
<1>4. Lawful(p, join[p], NewPoll, client[p])
  BY <1>1, Parts, NewRequests DEF Lawful, Consistent, SidesKnown
<1> QED BY <1>2, <1>3, <1>4, Parts, NewRequests, BrowserInv

LEMMA TakePollInv ==
    ASSUME Inv, NEW p \in Players, TakePoll(p)
    PROVE  Inv'
<1>1. /\ poll' = [poll EXCEPT ![p] = NoPoll] /\ poll[p].at \in {"matched", "queued", "not_queued"}
      /\ UNCHANGED <<queue, sentinel, result, games, join, leave, visit, counters>>
  BY DEF TakePoll, server, redis
<1>2. Bounded'
  BY <1>1, Parts, StillBounded DEF counters
<1>3. ASSUME NEW c \in Clients(Len(games)), client' = [client EXCEPT ![p] = c],
             c.screen = "game" /\ c.game # 0 /\ ~c.mixed => Seated(p, c.game, c.side)
      PROVE  Inv'
  <2>1. BrowserStep(p, join[p], NoPoll, leave[p], visit[p], c)
    BY <1>1, <1>3, Parts DEF BrowserStep
  <2>2. Lawful(p, join[p], NoPoll, c)
    BY <1>3, Parts, NewRequests DEF Lawful
  <2> QED BY <1>2, <2>1, <2>2, Parts, NewRequests, BrowserInv
<1>4. CASE UNCHANGED client
  BY <1>3, <1>4, Parts DEF Consistent, SidesKnown
<1>5. CASE poll[p].at = "not_queued" /\ UsePoll(p)
  <2> DEFINE c == [client[p] EXCEPT !.timer = FALSE, !.find = TRUE]
  <2>1. client' = [client EXCEPT ![p] = c]
    <3>1. client' = [client EXCEPT ![p].timer = FALSE, ![p].find = TRUE]
      BY <1>5 DEF UsePoll
    <3> QED BY <3>1, Parts
  <2>2. /\ c \in Clients(Len(games)) /\ c.screen = client[p].screen /\ c.game = client[p].game
        /\ c.side = client[p].side /\ c.mixed = client[p].mixed
    BY Parts DEF Clients
  <2>3. c.screen = "game" /\ c.game # 0 /\ ~c.mixed => Seated(p, c.game, c.side)
    BY <2>2, Parts DEF Consistent, SidesKnown
  <2> HIDE DEF c
  <2> QED BY <1>3, <2>1, <2>2, <2>3
<1>6. CASE poll[p].at = "matched" /\ UsePoll(p)
  <2>1. StartGame(p, poll[p].game, 1)
    BY <1>6 DEF UsePoll
  <2>2. Seated(p, poll[p].game, 1)
    BY <1>6, Parts DEF Consistent, SidesKnown
  <2>3. PICK c \in Clients(Len(games)) :
           client' = [client EXCEPT ![p] = c] /\ c.game = poll[p].game /\ c.side = 1
    BY <2>1, Parts, StartedPage
  <2> QED BY <1>3, <2>2, <2>3
<1>7. poll[p].at = "queued" /\ UsePoll(p) => UNCHANGED client
  BY DEF UsePoll
<1> QED BY <1>1, <1>4, <1>5, <1>6, <1>7 DEF TakePoll

LEMMA TakeLeaveInv ==
    ASSUME Inv, NEW p \in Players, TakeLeave(p)
    PROVE  Inv'
<1>1. /\ leave' = [leave EXCEPT ![p] = NoLeave]
      /\ UNCHANGED <<queue, sentinel, result, games, join, poll, visit, counters>>
  BY DEF TakeLeave, server, redis
<1>2. Bounded'
  BY <1>1, Parts, StillBounded DEF counters
<1> DEFINE b == client[p].find \/ leave[p].awaited
           c == [client[p] EXCEPT !.find = b]
<1>3. b \in BOOLEAN
  OBVIOUS
<1>4. client' = [client EXCEPT ![p] = c]
  BY Zenon DEF TakeLeave
<1> HIDE DEF b
<1>5. /\ c \in Clients(Len(games)) /\ c.screen = client[p].screen /\ c.game = client[p].game
      /\ c.side = client[p].side /\ c.mixed = client[p].mixed /\ c.timer = client[p].timer
  BY <1>3, Parts DEF Clients
<1> HIDE DEF c
<1>6. BrowserStep(p, join[p], poll[p], NoLeave, visit[p], c)
  BY <1>1, <1>4, Parts DEF BrowserStep
<1>7. Lawful(p, join[p], poll[p], c)
  BY <1>5, Parts DEF Lawful, Consistent, CurrentPoll, SidesKnown
<1> QED BY <1>2, <1>5, <1>6, <1>7, Parts, NewRequests, BrowserInv

LEMMA FindInv ==
    ASSUME Inv, NEW p \in Players, Find(p)
    PROVE  Inv'
<1>1. /\ join' = [join EXCEPT ![p] = NewJoin] /\ Clicks(p)
      /\ UNCHANGED <<queue, sentinel, result, games, poll, leave, visit, events>>
  BY DEF Find, NewJoin, server, redis
<1>2. Bounded'
  BY <1>1, Parts, StillBounded
<1> DEFINE c == [client[p] EXCEPT !.find = FALSE, !.gaveUp = FALSE, !.failed = FALSE]
<1>4. client' = [client EXCEPT ![p] = c]
  <2>1. client' = [client EXCEPT ![p].find = FALSE, ![p].gaveUp = FALSE, ![p].failed = FALSE]
    BY DEF Find
  <2> QED BY <2>1, Parts
<1>5. /\ c \in Clients(Len(games)) /\ c.screen = client[p].screen /\ c.game = client[p].game
      /\ c.side = client[p].side /\ c.mixed = client[p].mixed /\ c.timer = client[p].timer
  BY Parts DEF Clients
<1> HIDE DEF c
<1>6. BrowserStep(p, NewJoin, poll[p], leave[p], visit[p], c)
  BY <1>1, <1>4, Parts DEF BrowserStep
<1>7. Lawful(p, NewJoin, poll[p], c)
  BY <1>5, Parts, NewRequests DEF Lawful, Consistent, CurrentPoll, SidesKnown
<1> QED BY <1>2, <1>5, <1>6, <1>7, Parts, NewRequests, BrowserInv

(* A page that clears its timer and sends a leave.                         *)
LEMMA LeavingPage ==
    ASSUME Inv, NEW p \in Players, NEW b \in BOOLEAN, SendLeave(p, b), NEW v \in Visiting,
           visit' = [visit EXCEPT ![p] = v], Bounded',
           UNCHANGED <<queue, sentinel, result, games, join>>
    PROVE  Inv'
<1>1. StopTimer(p)
  BY DEF SendLeave
<1> DEFINE l == [at |-> "entry", awaited |-> b]
           c == [client[p] EXCEPT !.timer = FALSE, !.gaveUp = TRUE]
<1>2. l \in Leaves /\ leave' = [leave EXCEPT ![p] = l]
  BY DEF Leaves, SendLeave
<1>3. client' = [client EXCEPT ![p] = c]
  <2>1. client' = [client EXCEPT ![p].timer = FALSE, ![p].gaveUp = TRUE]
    BY DEF SendLeave
  <2> QED BY <2>1, Parts
<1>4. /\ c \in Clients(Len(games)) /\ c.screen = client[p].screen /\ c.game = client[p].game
      /\ c.side = client[p].side /\ c.mixed = client[p].mixed
  BY Parts DEF Clients
<1> HIDE DEF c, l
<1>5. BrowserStep(p, join[p], Stale(poll[p]), l, v, c)
  BY <1>1, <1>2, <1>3, Parts, StalePoll DEF BrowserStep
<1>6. Lawful(p, join[p], Stale(poll[p]), c)
  BY <1>1, <1>4, Parts, StalePoll DEF Lawful, Consistent, SidesKnown
<1> QED BY <1>1, <1>2, <1>4, <1>5, <1>6, Parts, StalePoll, BrowserInv

LEMMA CancelInv ==
    ASSUME Inv, NEW p \in Players, Cancel(p)
    PROVE  Inv'
<1>1. /\ SendLeave(p, TRUE) /\ Clicks(p)
      /\ UNCHANGED <<queue, sentinel, result, games, join, visit, events>>
  BY DEF Cancel, server, redis
<1>2. Bounded'
  BY <1>1, Parts, StillBounded
<1>3. visit' = [visit EXCEPT ![p] = visit[p]] /\ visit[p] \in Visiting
  BY <1>1, Parts
<1> QED BY <1>1, <1>2, <1>3, Booleans, LeavingPage

LEMMA CreateGameInv ==
    ASSUME Inv, NEW p \in Players, CreateGame(p)
    PROVE  Inv'
<1>1. /\ SendLeave(p, FALSE) /\ Clicks(p) /\ Happens /\ visit' = [visit EXCEPT ![p] = "create"]
      /\ UNCHANGED <<queue, sentinel, result, games, join>>
  BY DEF CreateGame, Visits, server, redis
<1>2. Bounded'
  BY <1>1, Parts, StillBounded
<1>3. "create" \in Visiting
  BY DEF Visiting
<1> QED BY <1>1, <1>2, <1>3, Booleans, LeavingPage

LEMMA LeaveGameInv ==
    ASSUME Inv, NEW p \in Players, LeaveGame(p)
    PROVE  Inv'
<1>1. /\ StopTimer(p) /\ Clicks(p) /\ client' = [client EXCEPT ![p] = Quit]
      /\ UNCHANGED <<queue, sentinel, result, games, join, leave, visit, events>>
  BY DEF LeaveGame, server, redis
<1>2. Bounded'
  BY <1>1, Parts, StillBounded
<1>3. Quit \in Clients(Len(games)) /\ Quit.screen = "lobby"
  <2>1. Len(games) \in Nat
    BY Parts
  <2>2. \A a, b \in BOOLEAN :
           [screen |-> "lobby", game |-> 0, side |-> 0, find |-> a, timer |-> b, gaveUp |-> b,
            mixed |-> b, failed |-> b] \in Clients(Len(games))
    BY <2>1 DEF Clients
  <2>3. Lobby \in Clients(Len(games))
    BY <2>2, Booleans, Zenon DEF Lobby
  <2>4. Lobby.screen = "lobby"
    BY DEF Lobby
  <2>5. \A c \in Clients(Len(games)), b \in BOOLEAN :
           [c EXCEPT !.gaveUp = b] \in Clients(Len(games)) /\ [c EXCEPT !.gaveUp = b].screen = c.screen
    BY DEF Clients
  <2> HIDE DEF Lobby
  <2> QED BY <2>3, <2>4, <2>5, Booleans, Zenon DEF Quit
<1>4. BrowserStep(p, join[p], Stale(poll[p]), leave[p], visit[p], Quit)
  BY <1>1, Parts, StalePoll DEF BrowserStep
<1>5. Lawful(p, join[p], Stale(poll[p]), Quit)
  BY <1>1, <1>3, Parts, StalePoll DEF Lawful
<1> QED BY <1>1, <1>2, <1>3, <1>4, <1>5, Parts, StalePoll, BrowserInv

(* A page that shows a game no match made.                                 *)
LEMMA ElsewhereInv ==
    ASSUME Inv, NEW p \in Players, StartGame(p, 0, 0), StopTimer(p), NEW v \in Visiting,
           visit' = [visit EXCEPT ![p] = v], Bounded',
           UNCHANGED <<queue, sentinel, result, games, join, leave>>
    PROVE  Inv'
<1>1. 0 \in 0 .. Len(games) /\ 0 \in 0 .. 2
  BY Parts
<1>2. PICK c \in Clients(Len(games)) : client' = [client EXCEPT ![p] = c] /\ c.game = 0 /\ c.side = 0
  BY <1>1, StartedPage
<1>3. BrowserStep(p, join[p], Stale(poll[p]), leave[p], v, c)
  BY <1>2, Parts, StalePoll DEF BrowserStep
<1>4. Lawful(p, join[p], Stale(poll[p]), c)
  BY <1>2, Parts, StalePoll DEF Lawful
<1> QED BY <1>3, <1>4, Parts, StalePoll, BrowserInv

LEMMA RejoinInv ==
    ASSUME Inv, NEW p \in Players, Rejoin(p)
    PROVE  Inv'
<1>1. /\ StartGame(p, 0, 0) /\ StopTimer(p) /\ Clicks(p) /\ Happens
      /\ UNCHANGED <<queue, sentinel, result, games, join, leave, visit>>
  BY DEF Rejoin, server, redis
<1>2. Bounded'
  BY <1>1, Parts, StillBounded
<1>3. visit' = [visit EXCEPT ![p] = visit[p]] /\ visit[p] \in Visiting
  BY <1>1, Parts
<1> QED BY <1>1, <1>2, <1>3, ElsewhereInv

LEMMA TakeVisitInv ==
    ASSUME Inv, NEW p \in Players, TakeVisit(p)
    PROVE  Inv'
<1>1. /\ visit' = [visit EXCEPT ![p] = "idle"]
      /\ UNCHANGED <<queue, sentinel, result, games, join, leave, counters>>
  BY DEF TakeVisit, server, redis
<1>2. Bounded' /\ "idle" \in Visiting
  BY <1>1, Parts, StillBounded DEF counters, Visiting
<1>3. CASE StartGame(p, 0, 0) /\ StopTimer(p)
  BY <1>1, <1>2, <1>3, ElsewhereInv
<1>4. CASE UNCHANGED <<client, poll>>
  <2>1. BrowserStep(p, join[p], poll[p], leave[p], "idle", client[p])
    BY <1>1, <1>4, Parts DEF BrowserStep
  <2>2. Lawful(p, join[p], poll[p], client[p])
    BY Parts DEF Lawful, Consistent, CurrentPoll, SidesKnown
  <2> QED BY <1>2, <2>1, <2>2, Parts, BrowserInv
<1> QED BY <1>3, <1>4 DEF TakeVisit

LEMMA JoinWaitingInv ==
    ASSUME Inv, NEW p \in Players, JoinWaiting(p)
    PROVE  Inv'
<1>1. /\ visit' = [visit EXCEPT ![p] = "join"] /\ Clicks(p) /\ Happens
      /\ UNCHANGED <<queue, sentinel, result, games, join, poll, leave, client>>
  BY DEF JoinWaiting, Visits, server, redis
<1>2. Bounded' /\ "join" \in Visiting
  BY <1>1, Parts, StillBounded DEF Visiting
<1>3. BrowserStep(p, join[p], poll[p], leave[p], "join", client[p])
  BY <1>1, Parts DEF BrowserStep
<1>4. Lawful(p, join[p], poll[p], client[p])
  BY Parts DEF Lawful, Consistent, CurrentPoll, SidesKnown
<1> QED BY <1>2, <1>3, <1>4, Parts, BrowserInv

LEMMA TakeCreateInv ==
    ASSUME Inv, NEW p \in Players, TakeCreate(p)
    PROVE  Inv'
<1>1. UNCHANGED <<queue, sentinel, result, games, join, poll, leave, counters>>
  BY DEF TakeCreate, server, redis
<1>2. Bounded'
  BY <1>1, Parts, StillBounded DEF counters
<1>3. ASSUME NEW v \in Visiting, visit' = [visit EXCEPT ![p] = v],
             NEW c \in Clients(Len(games)), client' = [client EXCEPT ![p] = c],
             c.timer = client[p].timer,
             c.mixed \/ (/\ c.screen = client[p].screen /\ c.game = client[p].game
                         /\ c.side = client[p].side /\ c.mixed = client[p].mixed)
      PROVE  Inv'
  <2>1. BrowserStep(p, join[p], poll[p], leave[p], v, c)
    BY <1>1, <1>3, Parts DEF BrowserStep
  <2>2. Lawful(p, join[p], poll[p], c)
    BY <1>3, Parts DEF Lawful, Consistent, CurrentPoll, SidesKnown
  <2> QED BY <1>2, <1>3, <2>1, <2>2, Parts, BrowserInv
<1>4. "wait" \in Visiting /\ "idle" \in Visiting
  BY DEF Visiting
<1>5. CASE visit' = [visit EXCEPT ![p] = "wait"] /\ client[p].screen = "game" /\ client[p].game # 0
  <2> DEFINE c == [client[p] EXCEPT !.find = TRUE, !.side = 1, !.mixed = TRUE]
  <2>1. client' = [client EXCEPT ![p] = c] \/ visit' = [visit EXCEPT ![p] = "idle"]
    BY <1>5 DEF TakeCreate
  <2>2. client[p] \in Clients(Len(games))
    BY Parts
  <2>3. \A s \in 0 .. 2, a, b \in BOOLEAN :
           [client[p] EXCEPT !.find = a, !.side = s, !.mixed = b] \in Clients(Len(games))
    BY <2>2 DEF Clients
  <2>4. [client[p] EXCEPT !.find = TRUE, !.side = 1, !.mixed = TRUE].timer = client[p].timer
    BY <2>2 DEF Clients
  <2>5. [client[p] EXCEPT !.find = TRUE, !.side = 1, !.mixed = TRUE].mixed
    BY <2>2, Zenon DEF Clients
  <2>6. 1 \in 0 .. 2
    OBVIOUS
  <2>7. c \in Clients(Len(games)) /\ c.timer = client[p].timer /\ c.mixed
    BY <2>3, <2>4, <2>5, <2>6, Booleans, Zenon
  <2> HIDE DEF c
  <2>8. visit' # [visit EXCEPT ![p] = "idle"]
    <3>1. visit \in [Players -> Visiting]
      BY DEF Inv, TypeParts, Requests
    <3> QED BY <1>5, <3>1
  <2> QED BY <1>3, <1>4, <1>5, <2>1, <2>7, <2>8
<1>6. CASE visit' = [visit EXCEPT ![p] = "wait"] /\ ~(client[p].screen = "game" /\ client[p].game # 0)
  <2> DEFINE c == [client[p] EXCEPT !.find = TRUE]
  <2>1. client' = [client EXCEPT ![p] = c] \/ visit' = [visit EXCEPT ![p] = "idle"]
    BY <1>6 DEF TakeCreate
  <2>2. /\ c \in Clients(Len(games)) /\ c.screen = client[p].screen /\ c.game = client[p].game
        /\ c.side = client[p].side /\ c.mixed = client[p].mixed /\ c.timer = client[p].timer
    BY Parts DEF Clients
  <2> HIDE DEF c
  <2>3. visit' # [visit EXCEPT ![p] = "idle"]
    <3>1. visit \in [Players -> Visiting]
      BY DEF Inv, TypeParts, Requests
    <3> QED BY <1>6, <3>1
  <2> QED BY <1>3, <1>4, <1>6, <2>1, <2>2, <2>3
<1>7. CASE visit' = [visit EXCEPT ![p] = "idle"]
  <2> DEFINE b == ~client[p].find
             c == [client[p] EXCEPT !.failed = b]
  <2>1. client' = [client EXCEPT ![p] = c] \/ visit' = [visit EXCEPT ![p] = "wait"]
    BY Zenon DEF TakeCreate
  <2>2. b \in BOOLEAN
    OBVIOUS
  <2> HIDE DEF b
  <2>3. /\ c \in Clients(Len(games)) /\ c.screen = client[p].screen /\ c.game = client[p].game
        /\ c.side = client[p].side /\ c.mixed = client[p].mixed /\ c.timer = client[p].timer
    BY <2>2, Parts DEF Clients
  <2> HIDE DEF c
  <2>4. visit' # [visit EXCEPT ![p] = "wait"]
    <3>1. visit \in [Players -> Visiting]
      BY DEF Inv, TypeParts, Requests
    <3> QED BY <1>7, <3>1
  <2> QED BY <1>3, <1>4, <1>7, <2>1, <2>3, <2>4
<1> QED BY <1>5, <1>6, <1>7 DEF TakeCreate

(* Keys that reach their time to live.                                     *)
LEMMA ExpiryInv ==
    ASSUME Inv, NEW p \in Players, Lapse(p) \/ Forget(p)
    PROVE  Inv'
<1>1. TypeParts /\ Consistent(p)
  BY DEF Inv
<1>2. UNCHANGED <<queue, games, join, poll, leave, visit, client, clicks>> /\ Happens
  BY DEF Lapse, Forget, requests
<1>3. sentinel' \subseteq Players /\ (result' = [result EXCEPT ![p] = 0] \/ result' = result)
  BY <1>1 DEF Lapse, Forget, TypeParts, Keys
<1>4. /\ result' \in [Players -> 0 .. Len(games)] /\ result'[p] \in {0, result[p]}
      /\ \A q \in Players \ {p} : result'[q] = result[q]
  <2>1. result \in [Players -> 0 .. Len(games)] /\ 0 \in 0 .. Len(games)
    BY <1>1, LenProperties DEF TypeParts, Keys
  <2> QED BY <1>3, <2>1
<1>5. Bounded'
  BY <1>1, <1>2, StillBounded DEF TypeParts
<1>6. TypeParts'
  BY <1>1, <1>2, <1>3, <1>4, <1>5 DEF TypeParts, Keys, Requests, Browsers
<1>7. Consistent(p)'
  BY <1>1, <1>2, <1>4 DEF Consistent, CurrentPoll, HasChosen, SidesKnown, Seated
<1>8. \A q \in Players \ {p} : SameFor(q)
  BY <1>2, <1>4 DEF SameFor
<1> QED BY <1>2, <1>6, <1>7, <1>8, Others

(* A match adds a game: those who know of an older one still do, and the   *)
(* two who learn of it are its first and its second player.                *)
LEMMA PublishInv ==
    ASSUME Inv, NEW p \in Players, Publish(p)
    PROVE  Inv'
<1>0. /\ TypeParts /\ Len(games) \in Nat /\ games \in Seq(Matches)
      /\ join[p].other \in Players
  BY LenProperties DEF Inv, TypeParts, Publish, Consistent, HasChosen
<1>n. PICK n \in Nat : n = Len(games)
  BY <1>0
<1>o. PICK o \in Players : o = join[p].other
  BY <1>0
<1> DEFINE match == [player1 |-> o, player2 |-> p]
<1>1. TypeParts /\ n \in Nat /\ o \in Players /\ games \in Seq(Matches)
  BY <1>0
<1>2. /\ games' = Append(games, match) /\ result' = [result EXCEPT ![o] = Len(games')]
      /\ join' = [join EXCEPT ![p].at = "matched", ![p].game = Len(games')]
      /\ UNCHANGED <<queue, sentinel, poll, leave, visit, client, counters>>
  BY <1>o DEF Publish
<1>3. match \in Matches /\ match.player1 = o /\ match.player2 = p
  BY <1>1 DEF Matches
<1>4. /\ games' \in Seq(Matches) /\ Len(games') = n + 1 /\ games'[n + 1] = match
      /\ \A i \in 1 .. n : games'[i] = games[i]
  BY <1>1, <1>2, <1>3, <1>n, Appended
<1>5. Keys(n + 1) /\ Requests(n + 1) /\ Browsers(n + 1)
  BY <1>1, <1>n, MoreGames DEF TypeParts
<1> DEFINE r == [join[p] EXCEPT !.at = "matched", !.game = n + 1]
<1>6. r \in Joins(n + 1) /\ r.at = "matched" /\ r.game = n + 1
  <2>1. join[p] \in Joins(n + 1) /\ n + 1 \in 0 .. n + 1
    BY <1>1, <1>5 DEF Requests
  <2> QED BY <2>1 DEF Joins, JoinAts
<1>7. join' = [join EXCEPT ![p] = r]
  BY <1>2, <1>4
<1> HIDE DEF r
<1>8. /\ join' \in [Players -> Joins(n + 1)] /\ join'[p] = r
      /\ \A q \in Players \ {p} : join'[q] = join[q]
  BY <1>5, <1>6, <1>7, Replaced DEF Requests
<1>9. /\ result' \in [Players -> 0 .. n + 1] /\ result'[o] = n + 1
      /\ \A q \in Players \ {o} : result'[q] = result[q]
  <2>1. n + 1 \in 0 .. n + 1 /\ result \in [Players -> 0 .. n + 1]
    BY <1>1, <1>5 DEF Keys
  <2>2. result' = [result EXCEPT ![o] = n + 1]
    BY <1>2, <1>4
  <2> QED BY <1>1, <2>1, <2>2, Replaced
<1>10. TypeParts'
  <2>1. Keys(n + 1)'
    BY <1>2, <1>5, <1>9 DEF Keys
  <2>2. Requests(n + 1)' /\ Browsers(n + 1)'
    BY <1>2, <1>5, <1>8 DEF Requests, Browsers
  <2>3. Bounded'
    BY <1>1, <1>2 DEF TypeParts, Bounded, counters
  <2> QED BY <1>4, <2>1, <2>2, <2>3 DEF TypeParts, Keys, Requests, Browsers
<1>11. ASSUME NEW q \in Players PROVE Consistent(q)'
  <2>1. Consistent(q) /\ Consistent(p)
    BY DEF Inv
  <2>2. \A g, side : Seated(q, g, side) => Seated(q, g, side)'
    BY <1>1, <1>4, <1>n DEF Seated
  <2>3. Seated(p, n + 1, 2)' /\ Seated(o, n + 1, 1)'
    BY <1>1, <1>3, <1>4 DEF Seated
  <2>4. CurrentPoll(q)'
    <3>1. join[p].at = "publish"
      BY DEF Publish
    <3> QED BY <1>2, <1>8, <2>1, <3>1 DEF Consistent, CurrentPoll
  <2>5. HasChosen(join[q])'
    BY <1>6, <1>8, <2>1 DEF Consistent, HasChosen
  <2>6. result'[q] # 0 => Seated(q, result[q], 1)'
    BY <1>9, <2>1, <2>2, <2>3 DEF Consistent, SidesKnown
  <2>7. join'[q].at = "matched" => Seated(q, join[q].game, 2)'
    BY <1>6, <1>8, <2>1, <2>2, <2>3 DEF Consistent, SidesKnown
  <2>8. /\ poll'[q].at \in {"delete", "matched"} => Seated(q, poll[q].game, 1)'
        /\ client'[q].screen = "game" /\ client'[q].game # 0 /\ ~client'[q].mixed
             => Seated(q, client[q].game, client[q].side)'
    BY <1>2, <2>1, <2>2 DEF Consistent, SidesKnown
  <2> QED BY <2>4, <2>5, <2>6, <2>7, <2>8 DEF Consistent, SidesKnown
<1> QED BY <1>10, <1>11 DEF Inv

LEMMA RestartInv ==
    ASSUME Inv, Restart
    PROVE  Inv'
<1>1. TypeParts /\ Len(games) \in Nat
  BY LenProperties DEF Inv, TypeParts
<1>2. /\ queue' = {} /\ join' = [q \in Players |-> NoJoin] /\ poll' = [q \in Players |-> NoPoll]
      /\ leave' = [q \in Players |-> NoLeave]
      /\ visit' = [q \in Players |-> IF visit[q] = "wait" THEN "wait" ELSE "idle"]
      /\ UNCHANGED <<sentinel, result, games, clicks>> /\ Happens
  BY DEF Restart
<1>3. NoJoin \in Joins(Len(games)) /\ NoPoll \in Polls(Len(games)) /\ NoLeave \in Leaves
  BY <1>1, NewRequests
<1>4. Requests(Len(games))'
  BY <1>2, <1>3 DEF Requests, Visiting
<1> DEFINE page(q) == IF join[q].at # "idle" \/ leave[q].awaited
                      THEN [client[q] EXCEPT !.find = TRUE, !.gaveUp = TRUE]
                      ELSE [client[q] EXCEPT !.failed = @ \/ (visit[q] = "create" /\ ~client[q].find)]
<1>5. client' = [q \in Players |-> page(q)]
  BY Zenon DEF Restart
<1>6. ASSUME NEW q \in Players
      PROVE  /\ page(q) \in Clients(Len(games)) /\ page(q).screen = client[q].screen
             /\ page(q).game = client[q].game /\ page(q).side = client[q].side
             /\ page(q).mixed = client[q].mixed
  <2>1. client[q] \in Clients(Len(games))
    BY <1>1 DEF TypeParts, Browsers
  <2> DEFINE b == client[q].failed \/ (visit[q] = "create" /\ ~client[q].find)
             c == [client[q] EXCEPT !.find = TRUE, !.gaveUp = TRUE]
             d == [client[q] EXCEPT !.failed = b]
  <2>2. b \in BOOLEAN
    OBVIOUS
  <2>3. page(q) = c \/ page(q) = d
    BY Zenon
  <2>4. /\ c \in Clients(Len(games)) /\ c.screen = client[q].screen /\ c.game = client[q].game
        /\ c.side = client[q].side /\ c.mixed = client[q].mixed
    BY <2>1 DEF Clients
  <2> HIDE DEF b
  <2>5. /\ d \in Clients(Len(games)) /\ d.screen = client[q].screen /\ d.game = client[q].game
        /\ d.side = client[q].side /\ d.mixed = client[q].mixed
    BY <2>1, <2>2 DEF Clients
  <2> HIDE DEF c, d, page
  <2> QED BY <2>3, <2>4, <2>5
<1> HIDE DEF page
<1>7. Browsers(Len(games))'
  BY <1>2, <1>5, <1>6 DEF Browsers
<1>8. Keys(Len(games))'
  BY <1>1, <1>2 DEF TypeParts, Keys
<1>9. TypeParts'
  <2>1. Bounded'
    <3>1. CASE Players = {}
      BY <1>1, <1>2, <3>1, MatchmakingAssumption DEF TypeParts, Bounded, Happens
    <3>2. ASSUME NEW q \in Players PROVE Bounded'
      BY <1>1, <1>2, <3>2, StillBounded DEF TypeParts
    <3> QED BY <3>1, <3>2
  <2> QED BY <1>1, <1>2, <1>4, <1>7, <1>8, <2>1 DEF TypeParts
<1>10. ASSUME NEW q \in Players PROVE Consistent(q)'
  <2>1. Consistent(q)
    BY DEF Inv
  <2>2. join'[q] = NoJoin /\ poll'[q] = NoPoll /\ result'[q] = result[q]
    BY <1>2
  <2>3. /\ client'[q].screen = client[q].screen /\ client'[q].game = client[q].game
        /\ client'[q].side = client[q].side /\ client'[q].mixed = client[q].mixed
    BY <1>5, <1>6
  <2>4. CurrentPoll(q)' /\ HasChosen(join[q])'
    BY <1>1, <2>2, NewRequests DEF CurrentPoll, HasChosen
  <2>5. SidesKnown(q)'
    BY <1>1, <1>2, <2>1, <2>2, <2>3, NewRequests DEF Consistent, SidesKnown, Seated
  <2> QED BY <2>4, <2>5 DEF Consistent
<1> QED BY <1>9, <1>10 DEF Inv

LEMMA InvNext == Inv /\ [Next]_vars => Inv'
<1> SUFFICES ASSUME Inv, [Next]_vars PROVE Inv'
  OBVIOUS
<1>1. CASE UNCHANGED vars
  BY <1>1 DEF vars, server, redis, requests, counters, Inv, TypeParts, Keys, Requests, Browsers,
              Bounded, Consistent, CurrentPoll, HasChosen, SidesKnown, Seated
<1>2. ASSUME NEW p \in Players, Step(p) PROVE Inv'
  <2>1. CASE JoinStep(p)
    BY <2>1, JoinInv, PublishInv
  <2>2. CASE ClientStep(p)
    BY <2>2, TakeJoinInv, SendPollInv, TakePollInv, TakeLeaveInv, TakeCreateInv DEF ClientStep
  <2> QED BY <1>2, <2>1, <2>2, PollInv, LeaveStepInv DEF Step
<1>3. ASSUME NEW p \in Players, Click(p) PROVE Inv'
  BY <1>3, FindInv, CancelInv, LeaveGameInv, CreateGameInv, JoinWaitingInv, RejoinInv DEF Click
<1>4. ASSUME NEW p \in Players, TakeVisit(p) \/ Lapse(p) \/ Forget(p) PROVE Inv'
  BY <1>4, TakeVisitInv, ExpiryInv
<1> QED BY <1>1, <1>2, <1>3, <1>4, RestartInv DEF Next

THEOREM Invariance == Spec => []Inv
  BY InvInit, InvNext, PTL DEF Spec

-----------------------------------------------------------------------------
(* The theorems                                                            *)

(* The keys, the requests in flight and the browsers stay of their types   *)
(* (matchmaking.py 28-182, app.js 435-623).                                *)
THEOREM TypeCorrect == Spec => []TypeOK
<1>1. Inv => TypeOK
  BY Typed DEF Inv
<1> QED BY <1>1, Invariance, PTL

(* Both players of a match play the sides the game has for them, whichever *)
(* way they learn of it, whatever expires, is pressed or restarts between, *)
(* unless a Create is answered under the game (matchmaking.py 94-125 and   *)
(* 146-159, app.js 445-447).                                               *)
THEOREM PlayersAgree == Spec => []SidesAgree
<1>1. Inv => SidesAgree
  BY DEF Inv, Consistent, SidesKnown, Seated, SidesAgree
<1> QED BY <1>1, Invariance, PTL

(* Another player's step, and every step but the browser's own, leaves     *)
(* what the page of p shows.                                               *)
LEMMA ShownByOwnSteps ==
    ASSUME Inv, NEW p \in Players, NEW q \in Players,
           JoinStep(q) \/ PollStep(q) \/ LeaveStep(q) \/ Lapse(q) \/ Forget(q)
    PROVE  client' = client
  BY DEF JoinStep, JoinAt, EvictOwn, ForgetOwn, Scan, CheckCandidate, DropCandidate, Claim,
         ForgetMatch, Publish, Enqueue, Stamp, PollStep, PollGet, PollDelete, PollRank, LeaveStep,
         LeaveEntry, LeaveSentinel, LeaveResult, Lapse, Forget

(* No late answer to a poll or a leave moves a player out of the game the  *)
(* browser shows, once nothing is under way that the code lets open a game *)
(* whenever it is answered (app.js 546-550, 593-605).                      *)
THEOREM NoLateAnswer == Spec => StaysInItsGame
<1>1. ASSUME Inv, [Next]_vars, NEW p \in Players, Settled(p)
      PROVE  Shown(p)' = Shown(p) \/ LeaveGame(p)
  <2>1. /\ join[p].at = "idle" /\ ~poll[p].current /\ visit[p] = "idle"
        /\ client[p].screen = "game" /\ ~client[p].timer
    BY <1>1 DEF Inv, Consistent, CurrentPoll, Settled
  <2>2. client \in [Players -> Clients(Len(games))] /\ client[p] \in Clients(Len(games))
    BY <1>1 DEF Inv, TypeParts, Browsers
  <2>3. ASSUME NEW q \in Players, ClientStep(q) \/ Click(q) \/ TakeVisit(q), ~LeaveGame(p)
        PROVE  Shown(p)' = Shown(p)
    <3>1. CASE q # p
      <4>1. client'[p] = client[p]
        BY <2>2, <2>3, <3>1 DEF ClientStep, Click, TakeVisit, TakeJoin, SendPoll, TakePoll, UsePoll,
              TakeLeave, TakeCreate, Find, Cancel, LeaveGame, CreateGame, SendLeave, JoinWaiting,
              Rejoin, StartGame
      <4> QED BY <4>1 DEF Shown
    <3>2. CASE q = p
      <4>1. ~TakeJoin(p) /\ ~SendPoll(p) /\ ~TakeCreate(p) /\ ~TakeVisit(p)
        BY <2>1 DEF TakeJoin, SendPoll, TakeCreate, TakeVisit
      <4>2. ~Find(p) /\ ~Cancel(p) /\ ~CreateGame(p) /\ ~JoinWaiting(p) /\ ~Rejoin(p)
        BY <2>1 DEF Find, Cancel, CreateGame, JoinWaiting, Rejoin, Visits
      <4>3. CASE TakePoll(p)
        BY <2>1, <4>3 DEF TakePoll, Shown
      <4>4. CASE TakeLeave(p)
        <5>1. PICK b : client' = [client EXCEPT ![p].find = b]
          BY <4>4, Zenon DEF TakeLeave
        <5> QED BY <2>2, <5>1 DEF Shown, Clients
      <4> QED BY <2>3, <3>2, <4>1, <4>2, <4>3, <4>4 DEF ClientStep, Click
    <3> QED BY <3>1, <3>2
  <2>4. CASE Restart
    <3>1. client'[p] = IF join[p].at # "idle" \/ leave[p].awaited
                       THEN [client[p] EXCEPT !.find = TRUE, !.gaveUp = TRUE]
                       ELSE [client[p] EXCEPT !.failed = @ \/ (visit[p] = "create" /\ ~client[p].find)]
      BY <2>4, Zenon DEF Restart
    <3> DEFINE b == client[p].failed \/ (visit[p] = "create" /\ ~client[p].find)
    <3>2. \/ client'[p] = [client[p] EXCEPT !.find = TRUE, !.gaveUp = TRUE]
          \/ client'[p] = [client[p] EXCEPT !.failed = b]
      BY <3>1, Zenon
    <3> HIDE DEF b
    <3> QED BY <2>2, <3>2 DEF Shown, Clients
  <2>5. CASE UNCHANGED vars
    BY <2>5 DEF vars, Shown
  <2>6. ASSUME NEW q \in Players,
               JoinStep(q) \/ PollStep(q) \/ LeaveStep(q) \/ Lapse(q) \/ Forget(q)
        PROVE  Shown(p)' = Shown(p)
    BY <1>1, <2>6, ShownByOwnSteps DEF Shown
  <2>7. ASSUME NEW q \in Players, Step(q) \/ Click(q) \/ TakeVisit(q) \/ Lapse(q) \/ Forget(q),
               ~LeaveGame(p)
        PROVE  Shown(p)' = Shown(p)
    BY <2>3, <2>6, <2>7 DEF Step
  <2> QED BY <1>1, <2>4, <2>5, <2>7 DEF Next
<1>2. Inv /\ [Next]_vars
        => [\A p \in Players : Settled(p) => Shown(p)' = Shown(p) \/ LeaveGame(p)]_vars
  BY <1>1
<1> QED BY <1>2, Invariance, PTL DEF Spec, StaysInItsGame
=============================================================================
