---------------------------- MODULE LobbyProofs ----------------------------
(***************************************************************************)
(* What is proved of module Lobby: its type invariant; that a game's board *)
(* is stored before anybody is told of the game; that, however requests    *)
(* overlap, only one that wrote a row on the strength of an outdated read  *)
(* gets a second player in, takes a game from its players or leaves one of *)
(* them without a seat; and that a page which waits for a joined game does *)
(* not wait on.                                                            *)
(***************************************************************************)
EXTENDS Lobby, FiniteSetTheorems, TLAPS

(* The invariants.                                                         *)

(* A join that is about to commit has stored its board.                    *)
BoardIsSaved ==
    \A r \in Requests : r[2] = "join" /\ txn[r].at = "commit" => txn[r].game \in boards

(* Every request under way is for a game; only a join stores a board, and  *)
(* a create has nothing left to do but to commit.                          *)
RequestInv ==
    \A r \in Requests :
        /\ txn[r].at # "idle" => txn[r].game \in Games
        /\ r[2] = "create" => txn[r].at \in {"idle", "commit"}
        /\ r[2] = "cancel" => txn[r].at # "save"

(* A status request asks for a game.                                       *)
PollInv == \A p \in Players : poll[p].answer # "idle" => poll[p].game \in Games

(* What a transaction has read of its row is still so, unless it is stale. *)
ReadHolds ==
    \A r \in Requests \ stale :
        txn[r].at \in Working =>
            rows[txn[r].game].status = IF r[2] = "create" THEN "absent" ELSE "waiting"

(* Who joined a game is its second player; nobody joined an open game; but *)
(* for the games that a stale request has written.                         *)
JoinersInv ==
    \A g \in Games \ raced :
        /\ joiners[g] \subseteq {rows[g].player2}
        /\ rows[g].status \in {"absent", "waiting"} => joiners[g] = {}

(* Games that are not created yet have no row.                             *)
Unborn == \A g \in Games : g > created => rows[g].status = "absent" /\ joiners[g] = {}

Txn == [at : {"idle", "read"} \cup Working, game : 0 .. created,
        answer : {"none", "due", "ok", "refused"}]

TypeInv == TypeOK /\ RequestInv /\ PollInv

LEMMA NoTxnType == ASSUME TypeOK PROVE NoTxn \in Txn
<1>1. created \in Nat
  BY LobbyAssumption DEF TypeOK
<1> QED BY <1>1 DEF NoTxn, Txn

LEMMA TypeInit == Init => TypeInv
<1> SUFFICES ASSUME Init PROVE TypeInv
  OBVIOUS
<1>1. TypeOK
  BY LobbyAssumption DEF Init, TypeOK, NoRow, NoTxn, NoPoll, Fresh, Games
<1>2. RequestInv
  BY DEF Init, RequestInv, NoTxn
<1>3. PollInv
  BY DEF Init, PollInv, NoPoll
<1> QED BY <1>1, <1>2, <1>3 DEF TypeInv

(* A request that goes on, and one that is over.                           *)
LEMMA GotoType ==
    ASSUME TypeInv, NEW r \in Requests, NEW at \in {"idle", "read"} \cup Working,
           NEW answer \in {"none", "due", "ok", "refused"}, created' = created,
           Goto(r, at, answer),
           at # "idle" => txn[r].at # "idle",
           r[2] = "create" => at \in {"idle", "commit"},
           r[2] = "cancel" => at # "save"
    PROVE  txn' \in [Requests -> Txn'] /\ RequestInv'
<1> DEFINE t == [at |-> at, game |-> txn[r].game, answer |-> answer]
<1>1. t \in Txn' /\ t.game = txn[r].game /\ t.at = at
  BY DEF TypeInv, TypeOK, Txn
<1>2. txn' = [txn EXCEPT ![r] = t]
  BY DEF Goto
<1> HIDE DEF t
<1>3. txn' \in [Requests -> Txn']
  BY <1>1, <1>2 DEF TypeInv, TypeOK, Txn
<1>4. RequestInv'
  BY <1>1, <1>2 DEF TypeInv, TypeOK, RequestInv, Games
<1> QED BY <1>3, <1>4

LEMMA CloseType ==
    ASSUME TypeInv, NEW r \in Requests, NEW answer \in {"none", "due", "ok", "refused"},
           created' = created, Close(r, answer)
    PROVE  txn' \in [Requests -> Txn'] /\ RequestInv'
<1>1. CASE answer = "none"
  <2>1. txn' = [txn EXCEPT ![r] = NoTxn]
    BY <1>1 DEF Close
  <2>2. NoTxn \in Txn' /\ NoTxn.at = "idle"
    BY NoTxnType DEF Txn, TypeInv, NoTxn
  <2>3. txn' \in [Requests -> Txn']
    BY <2>1, <2>2 DEF TypeInv, TypeOK, Txn
  <2>4. RequestInv'
    BY <2>1, <2>2 DEF TypeInv, TypeOK, RequestInv, Games
  <2> QED BY <2>3, <2>4
<1>2. CASE answer # "none"
  <2>1. Goto(r, "idle", answer)
    BY <1>2 DEF Close
  <2> QED BY <2>1, GotoType
<1> QED BY <1>1, <1>2

(* A browser's state.                                                      *)
Browser == [screen : {"lobby", "game"}, game : 0 .. created, side : 0 .. 2,
            polling : 0 .. created]

LEMMA StatusType ==
    ASSUME TypeOK, NEW g \in Games
    PROVE  Status(g) \in {"waiting", "playing", "finished", "missing"}
  BY DEF TypeOK, Status

LEMMA PlayType ==
    ASSUME TypeOK, NEW c \in Browser, NEW g \in 0 .. created
    PROVE  Play(c, g) \in Browser
<1>1. created \in Nat
  BY LobbyAssumption DEF TypeOK
<1> QED BY <1>1 DEF Play, Browser

LEMMA FollowType ==
    ASSUME TypeOK, NEW c \in Browser, NEW g \in 0 .. created,
           NEW answer \in {"waiting", "playing", "finished", "missing", "lost"}
    PROVE  Follow(c, g, answer) \in Browser
<1>1. created \in Nat
  BY LobbyAssumption DEF TypeOK
<1>2. CASE answer = "playing"
  BY <1>2, PlayType DEF Follow
<1>3. CASE answer \in {"finished", "missing"}
  BY <1>1, <1>3 DEF Follow, Browser
<1>4. CASE answer \in {"waiting", "lost"}
  BY <1>4 DEF Follow
<1> QED BY <1>2, <1>3, <1>4

LEMMA ResumedType ==
    ASSUME TypeOK, NEW c \in Browser PROVE Resumed(c) \in Browser
<1>1. created \in Nat /\ Fresh \in Browser
  BY LobbyAssumption DEF TypeOK, Fresh, Browser
<1> DEFINE back   == c.game # 0 /\ c.side = 1 /\ Status(c.game) = "waiting"
           inGame == c.game # 0 /\ c.side # 0 /\ Status(c.game) = "playing"
           card   == [screen |-> "lobby", game |-> c.game, side |-> 1, polling |-> c.game]
<1>2. c.game \in 0 .. created
  BY DEF Browser
<1>5. Play(c, c.game) \in Browser
  BY <1>2, PlayType
<1>6. card \in Browser
  BY <1>2 DEF Browser
<1>3. back => ~inGame
  OBVIOUS
<1> HIDE DEF card
<1>4. Resumed(c) \in {card, Play(c, c.game), Fresh}
  BY <1>3 DEF Resumed, card
<1> QED BY <1>1, <1>4, <1>5, <1>6

LEMMA WrittenType ==
    ASSUME TypeOK, NEW p \in Players, NEW op \in Ops, NEW g \in Games
    PROVE  /\ Written(p, op, rows[g]) \in
                  [player1 : Players \cup {NoPlayer}, player2 : Players \cup {NoPlayer},
                   status : {"absent", "waiting", "playing", "finished", "deleted"}]
           /\ op = "create" => Written(p, op, rows[g]).status = "waiting"
           /\ op = "join" => /\ Written(p, op, rows[g]).status = "playing"
                             /\ Written(p, op, rows[g]).player2 = p
           /\ op = "cancel" => Written(p, op, rows[g]).status = "deleted"
           /\ op # "join" => Written(p, op, rows[g]).player2 = rows[g].player2
<1>1. rows[g] \in [player1 : Players \cup {NoPlayer}, player2 : Players \cup {NoPlayer},
                   status : {"absent", "waiting", "playing", "finished", "deleted"}]
  BY DEF TypeOK
<1>2. CASE op = "create"
  BY <1>1, <1>2 DEF Written
<1>3. CASE op = "join"
  BY <1>1, <1>3 DEF Written
<1>4. CASE op = "cancel"
  BY <1>1, <1>4 DEF Written
<1> QED BY <1>2, <1>3, <1>4 DEF Ops

LEMMA NamedRequest ==
    ASSUME NEW p \in Players, NEW op \in Ops
    PROVE  <<p, op>> \in Requests
  BY DEF Requests

LEMMA HeardType ==
    ASSUME TypeOK, NEW r \in Requests
    PROVE  /\ txn[r].answer \in {"none", "due", "ok", "refused"}
           /\ Heard(r, "ok") \in {"none", "due", "ok", "refused"}
           /\ Heard(r, "refused") \in {"none", "due", "ok", "refused"}
  BY DEF TypeOK, Heard

(* The steps that only change a request and its board.                     *)
LEMMA RequestStepType ==
    ASSUME TypeInv, txn' \in [Requests -> Txn'], RequestInv', boards' \subseteq Games,
           stale' \subseteq Requests, UNCHANGED <<created, rows, joiners, undone, raced, poll, client>>,
           faults' \in 0 .. MaxFaults
    PROVE  TypeInv'
  BY DEF TypeInv, TypeOK, Txn, PollInv

LEMMA FaultType == ASSUME TypeOK, Fault PROVE faults' \in 0 .. MaxFaults
<1>1. faults \in Nat /\ MaxFaults \in Nat
  BY LobbyAssumption DEF TypeOK
<1> QED BY <1>1 DEF Fault

LEMMA TypeNext == TypeInv /\ [Next]_vars => TypeInv'
<1> SUFFICES ASSUME TypeInv, [Next]_vars PROVE TypeInv'
  OBVIOUS
<1> USE DEF TypeInv
<1>0. created \in Nat /\ MaxGames \in Nat /\ faults \in 0 .. MaxFaults
  BY LobbyAssumption DEF TypeOK
<1>a. poll' = poll => PollInv'
  BY DEF PollInv
<1>1. ASSUME NEW p \in Players, ClickCreate(p) PROVE TypeInv'
  <2> DEFINE t == [at |-> "commit", game |-> created', answer |-> "ok"]
             row == [player1 |-> p, player2 |-> NoPlayer, status |-> "absent"]
  <2>1. created' = created + 1 /\ created' \in 1 .. MaxGames
    BY <1>0, <1>1 DEF ClickCreate, TypeOK
  <2>2. txn' = [txn EXCEPT ![<<p, "create">>] = t]
    BY <1>1 DEF ClickCreate
  <2>3. t \in Txn' /\ t.at = "commit" /\ t.game = created'
    BY <2>1, <1>0 DEF Txn, Working
  <2> HIDE DEF t
  <2>4. \A u \in Txn : u \in Txn'
    BY <2>1, <1>0 DEF Txn
  <2>5. txn' \in [Requests -> Txn']
    BY <2>2, <2>3, <2>4 DEF TypeOK, Txn
  <2>6. RequestInv'
    BY <2>1, <2>2, <2>3, NamedRequest DEF RequestInv, Games, Ops, TypeOK
  <2>7. rows' \in [Games -> [player1 : Players \cup {NoPlayer}, player2 : Players \cup {NoPlayer},
                             status : {"absent", "waiting", "playing", "finished", "deleted"}]]
    BY <1>1, <2>1 DEF ClickCreate, TypeOK
  <2>8. poll' \in [Players -> [game : 0 .. created',
                             answer : {"idle", "asked", "waiting", "playing", "finished",
                                       "missing", "lost"}]]
    BY <1>0, <1>1, <2>1 DEF ClickCreate, TypeOK
  <2>9. client' \in [Players -> [screen : {"lobby", "game"}, game : 0 .. created',
                               side : 0 .. 2, polling : 0 .. created']]
    BY <1>0, <1>1, <2>1 DEF ClickCreate, TypeOK
  <2>10. boards' \subseteq Games /\ joiners' \in [Games -> SUBSET Players]
         /\ undone' \subseteq Players \X Games /\ faults' \in 0 .. MaxFaults
         /\ stale' \subseteq Requests /\ raced' \subseteq Games
    BY <1>1 DEF ClickCreate, history, TypeOK
  <2>11. PollInv'
    BY <1>1, <1>a DEF ClickCreate
  <2> QED BY <2>1, <2>5, <2>6, <2>7, <2>8, <2>9, <2>10, <2>11 DEF TypeOK, Txn
<1>2. ASSUME NEW p \in Players, NEW g \in Games, ClickJoin(p, g) PROVE TypeInv'
  <2> DEFINE t == [at |-> "read", game |-> g, answer |-> "due"]
  <2>1. txn' = [txn EXCEPT ![<<p, "join">>] = t] /\ UNCHANGED <<database, poll, client, faults>>
    BY <1>2 DEF ClickJoin
  <2>2. t \in Txn' /\ t.at = "read" /\ t.game = g
    BY <1>0, <1>2, <2>1 DEF ClickJoin, Txn, Games, database, history
  <2> HIDE DEF t
  <2>3. txn' \in [Requests -> Txn']
    BY <2>1, <2>2 DEF TypeOK, Txn, database, history
  <2>4. RequestInv'
    BY <2>1, <2>2, NamedRequest DEF RequestInv, TypeOK, database, history, Ops
  <2> QED BY <2>1, <2>3, <2>4, RequestStepType DEF database, history, TypeOK
<1>3. ASSUME NEW p \in Players, ClickCancel(p) PROVE TypeInv'
  <2> DEFINE t == [at |-> "read", game |-> client[p].game, answer |-> "none"]
  <2>1. txn' = [txn EXCEPT ![<<p, "cancel">>] = t] /\ UNCHANGED <<database, poll, faults>>
    BY <1>3 DEF ClickCancel
  <2>2. client[p].game \in 0 .. created /\ client[p].game # 0
    BY <1>3 DEF ClickCancel, TypeOK
  <2>3. t \in Txn' /\ t.at = "read" /\ t.game \in Games
    BY <1>0, <2>1, <2>2 DEF Txn, Games, database, history, TypeOK
  <2> HIDE DEF t
  <2>4. txn' \in [Requests -> Txn']
    BY <2>1, <2>3 DEF TypeOK, Txn, database, history
  <2>5. RequestInv'
    BY <2>1, <2>3, NamedRequest DEF RequestInv, TypeOK, database, history, Ops
  <2>6. Fresh \in [screen : {"lobby", "game"}, game : 0 .. created, side : 0 .. 2,
                   polling : 0 .. created]
    BY <1>0 DEF Fresh
  <2>7. client' \in [Players -> [screen : {"lobby", "game"}, game : 0 .. created, side : 0 .. 2,
                                 polling : 0 .. created]]
    BY <1>3, <2>6 DEF ClickCancel, TypeOK
  <2> QED BY <1>a, <2>1, <2>4, <2>5, <2>7 DEF database, history, TypeOK, Txn
<1>4. ASSUME NEW p \in Players, NEW op \in {"join", "cancel"}, ReadRow(p, op) PROVE TypeInv'
  <2> DEFINE r == <<p, op>>
  <2>1. r \in Requests /\ r[2] = op
    BY NamedRequest DEF Ops
  <2>2. /\ UNCHANGED <<database, poll, client, faults>>
        /\ txn[r].at = "read"
        /\ Goto(r, "write", txn[r].answer) \/ Close(r, Heard(r, "refused"))
    BY <1>4 DEF ReadRow
  <2> HIDE DEF r
  <2>3. txn' \in [Requests -> Txn'] /\ RequestInv'
    BY <2>1, <2>2, HeardType, GotoType, CloseType DEF database, history, Working
  <2> QED BY <2>2, <2>3, RequestStepType DEF database, history, TypeOK
<1>5. ASSUME NEW p \in Players, UpdateRow(p) PROVE TypeInv'
  <2> DEFINE r == <<p, "join">>
  <2>1. r \in Requests /\ r[2] = "join"
    BY NamedRequest DEF Ops
  <2>2. /\ UNCHANGED <<created, rows, boards, joiners, undone, raced, poll, client, faults>>
        /\ stale' \in {stale, stale \ {r}}
        /\ txn[r].at = "write"
        /\ Goto(r, "save", txn[r].answer) \/ Close(r, Heard(r, "refused"))
    BY <1>5 DEF UpdateRow
  <2> HIDE DEF r
  <2>3. txn' \in [Requests -> Txn'] /\ RequestInv'
    BY <2>1, <2>2, HeardType, GotoType, CloseType DEF database, history, Working
  <2> QED BY <2>2, <2>3, RequestStepType DEF database, history, TypeOK
<1>6. ASSUME NEW p \in Players, DeleteRow(p) PROVE TypeInv'
  <2> DEFINE r == <<p, "cancel">>
  <2>1. r \in Requests /\ r[2] = "cancel"
    BY NamedRequest DEF Ops
  <2>2. /\ UNCHANGED <<database, poll, client, faults>>
        /\ txn[r].at = "write"
        /\ Goto(r, "commit", txn[r].answer)
    BY <1>6 DEF DeleteRow
  <2> HIDE DEF r
  <2>3. txn' \in [Requests -> Txn'] /\ RequestInv'
    BY <2>1, <2>2, HeardType, GotoType DEF database, history, Working
  <2> QED BY <2>2, <2>3, RequestStepType DEF database, history, TypeOK
<1>7. ASSUME NEW p \in Players, SaveBoard(p) PROVE TypeInv'
  <2> DEFINE r == <<p, "join">>
  <2>1. r \in Requests /\ r[2] = "join"
    BY NamedRequest DEF Ops
  <2>2. /\ UNCHANGED <<created, rows, history, poll, client, faults>>
        /\ txn[r].at = "save"
        /\ Goto(r, "commit", Heard(r, "ok"))
        /\ boards' = boards \cup {txn[r].game}
    BY <1>7 DEF SaveBoard
  <2> HIDE DEF r
  <2>3. txn' \in [Requests -> Txn'] /\ RequestInv'
    BY <2>1, <2>2, HeardType, GotoType DEF Working
  <2>4. boards' \subseteq Games
    BY <2>1, <2>2 DEF RequestInv, TypeOK
  <2> QED BY <2>2, <2>3, <2>4, RequestStepType DEF history, TypeOK
<1>8. ASSUME NEW p \in Players, NEW op \in Ops, Commit(p, op) PROVE TypeInv'
  <2> DEFINE r == <<p, op>>
             g == txn[r].game
  <2>1. r \in Requests /\ r[2] = op
    BY NamedRequest
  <2>2. /\ UNCHANGED <<created, boards, undone, poll, client, faults>>
        /\ txn[r].at = "commit"
        /\ Close(r, txn[r].answer)
        /\ rows' = [rows EXCEPT ![g] = Written(p, op, rows[g])]
        /\ joiners' \in {joiners, [joiners EXCEPT ![g] = joiners[g] \cup {p}]}
        /\ raced' \subseteq raced \cup {g} /\ stale' \subseteq stale \cup Requests
    BY <1>8 DEF Commit, Readers
  <2> HIDE DEF r
  <2>3. txn' \in [Requests -> Txn'] /\ RequestInv'
    BY <2>1, <2>2, HeardType, CloseType
  <2>4. g \in Games
    BY <2>1, <2>2 DEF RequestInv
  <2> HIDE DEF g
  <2>5. rows' \in [Games -> [player1 : Players \cup {NoPlayer}, player2 : Players \cup {NoPlayer},
                             status : {"absent", "waiting", "playing", "finished", "deleted"}]]
    BY <2>2, <2>4, WrittenType DEF TypeOK
  <2>6. joiners' \in [Games -> SUBSET Players]
    BY <2>2, <2>4 DEF TypeOK
  <2>7. stale' \subseteq Requests /\ raced' \subseteq Games
    BY <2>2, <2>4 DEF TypeOK
  <2> QED BY <1>a, <2>2, <2>3, <2>5, <2>6, <2>7 DEF TypeOK, Txn
<1>9. ASSUME NEW p \in Players, NEW op \in Ops, FailCommit(p, op) PROVE TypeInv'
  <2> DEFINE r == <<p, op>>
             g == txn[r].game
  <2>1. r \in Requests /\ r[2] = op
    BY NamedRequest
  <2>2. /\ UNCHANGED <<created, rows, boards, joiners, raced, poll, client>>
        /\ stale' \subseteq stale
        /\ Fault
        /\ txn[r].at = "commit"
        /\ Close(r, txn[r].answer)
        /\ undone' \in {undone, undone \cup {<<p, g>>}}
    BY <1>9 DEF FailCommit
  <2> HIDE DEF r
  <2>3. txn' \in [Requests -> Txn'] /\ RequestInv'
    BY <2>1, <2>2, HeardType, CloseType
  <2>4. g \in Games
    BY <2>1, <2>2 DEF RequestInv
  <2> HIDE DEF g
  <2>5. undone' \subseteq Players \X Games
    BY <2>2, <2>4 DEF TypeOK
  <2>6. faults' \in 0 .. MaxFaults
    BY <2>2, FaultType
  <2> QED BY <1>a, <2>2, <2>3, <2>5, <2>6 DEF TypeOK, Txn
<1>10. ASSUME NEW p \in Players, NEW op \in {"create", "join"}, NEW answer \in {"ok", "refused"},
              Hear(<<p, op>>, answer),
              client' \in [Players -> Browser]
       PROVE  TypeInv'
  <2> DEFINE r == <<p, op>>
             t == [at |-> txn[r].at, game |-> txn[r].game, answer |-> "none"]
  <2>1. r \in Requests /\ r[2] = op
    BY NamedRequest DEF Ops
  <2>2. /\ UNCHANGED <<database, poll, faults>>
        /\ \/ txn' = [txn EXCEPT ![r] = NoTxn]
           \/ txn' = [txn EXCEPT ![r] = t]
    BY <1>10 DEF Hear
  <2> HIDE DEF r
  <2>3. /\ t \in Txn' /\ t.at = txn[r].at /\ t.game = txn[r].game
        /\ NoTxn \in Txn' /\ NoTxn.at = "idle"
    BY <2>1, <2>2, NoTxnType DEF TypeOK, Txn, NoTxn, database, history
  <2> HIDE DEF t
  <2>4. txn' \in [Requests -> Txn']
    BY <2>1, <2>2, <2>3 DEF TypeOK, Txn, database, history
  <2>5. RequestInv'
    BY <2>1, <2>2, <2>3 DEF RequestInv, TypeOK, database, history
  <2> QED BY <1>10, <1>a, <2>2, <2>4, <2>5 DEF TypeOK, Txn, Browser, database, history
<1>11. ASSUME NEW p \in Players, Listen(p) PROVE TypeInv'
  <2>1. client \in [Players -> Browser]
    BY DEF TypeOK, Browser
  <2>2. CASE ShowWaiting(p)
    <3>1. txn[<<p, "create">>].game \in 0 .. created /\ client[p].screen \in {"lobby", "game"}
      BY NamedRequest DEF TypeOK, Ops
    <3> DEFINE c == [screen |-> client[p].screen, game |-> txn[<<p, "create">>].game,
                     side |-> 1, polling |-> txn[<<p, "create">>].game]
    <3>2. c \in Browser
      BY <3>1 DEF Browser
    <3>3. client' = [client EXCEPT ![p] = c] /\ Hear(<<p, "create">>, "ok")
      BY <2>2 DEF ShowWaiting
    <3> HIDE DEF c
    <3>4. client' \in [Players -> Browser]
      BY <2>1, <3>2, <3>3
    <3> QED BY <1>10, <3>3, <3>4
  <2>3. CASE EnterGame(p)
    <3>1. txn[<<p, "join">>].game \in 0 .. created
      BY NamedRequest DEF TypeOK, Ops
    <3> DEFINE c == [screen |-> "game", game |-> txn[<<p, "join">>].game,
                     side |-> 2, polling |-> 0]
    <3>2. c \in Browser
      BY <1>0, <3>1 DEF Browser
    <3>3. client' = [client EXCEPT ![p] = c] /\ Hear(<<p, "join">>, "ok")
      BY <2>3 DEF EnterGame
    <3> HIDE DEF c
    <3>4. client' \in [Players -> Browser]
      BY <2>1, <3>2, <3>3
    <3> QED BY <1>10, <3>3, <3>4
  <2>4. CASE ShowError(p)
    BY <1>10, <2>1, <2>4 DEF ShowError
  <2> QED BY <1>11, <2>2, <2>3, <2>4 DEF Listen
<1>12. ASSUME NEW p \in Players, Ask(p) PROVE TypeInv'
  <2>1. UNCHANGED <<database, txn, client, faults>>
    BY <1>12 DEF Ask
  <2>2. poll' \in [Players -> [game : 0 .. created,
                             answer : {"idle", "asked", "waiting", "playing", "finished",
                                       "missing", "lost"}]]
    BY <1>12 DEF Ask, TypeOK
  <2>3. client[p].polling \in Games
    BY <1>0, <1>12 DEF Ask, TypeOK, Games
  <2>4. PollInv'
    BY <1>12, <2>3 DEF Ask, PollInv, TypeOK
  <2> QED BY <2>1, <2>2, <2>4 DEF TypeOK, RequestInv, database, history
<1>13. ASSUME NEW p \in Players, AnswerStatus(p) \/ LoseStatus(p) PROVE TypeInv'
  <2>1. poll[p].game \in 0 .. created /\ (poll[p].answer = "asked" => poll[p].game \in Games)
    BY DEF TypeOK, PollInv
  <2>2. PICK answer \in {"waiting", "playing", "finished", "missing", "lost"} : Answered(p, answer)
    BY <1>13, <2>1, StatusType DEF AnswerStatus, LoseStatus, Answered
  <2>3. UNCHANGED <<database, txn, client>>
    BY <2>2 DEF Answered
  <2>4. poll' \in [Players -> [game : 0 .. created,
                             answer : {"idle", "asked", "waiting", "playing", "finished",
                                       "missing", "lost"}]]
    BY <2>1, <2>2 DEF Answered, TypeOK
  <2>5. faults' \in 0 .. MaxFaults
    BY <1>0, <1>13, FaultType DEF AnswerStatus, LoseStatus
  <2>6. PollInv'
    BY <2>2 DEF Answered, PollInv, TypeOK
  <2> QED BY <2>3, <2>4, <2>5, <2>6 DEF TypeOK, RequestInv, database, history
<1>14. ASSUME NEW p \in Players, TakeStatus(p) PROVE TypeInv'
  <2>1. poll[p].game \in 0 .. created /\ client[p] \in Browser
    BY DEF TypeOK, Browser
  <2>2. /\ poll[p].answer \in {"waiting", "playing", "finished", "missing", "lost"}
        /\ poll' = [poll EXCEPT ![p] = NoPoll]
        /\ client' = [client EXCEPT ![p] = Follow(client[p], poll[p].game, poll[p].answer)]
        /\ UNCHANGED <<database, txn, faults>>
    BY <1>14 DEF TakeStatus, Take
  <2>3. Follow(client[p], poll[p].game, poll[p].answer) \in Browser
    BY <2>1, <2>2, FollowType
  <2>4. client' \in [Players -> Browser]
    BY <2>2, <2>3 DEF TypeOK, Browser
  <2>5. poll' \in [Players -> [game : 0 .. created,
                             answer : {"idle", "asked", "waiting", "playing", "finished",
                                       "missing", "lost"}]]
    BY <1>0, <2>2 DEF NoPoll, TypeOK
  <2>6. PollInv'
    BY <2>2 DEF PollInv, NoPoll, TypeOK
  <2> QED BY <2>2, <2>4, <2>5, <2>6 DEF TypeOK, RequestInv, Browser, database, history
<1>15. ASSUME NEW p \in Players, Reload(p) PROVE TypeInv'
  <2>1. /\ poll' = [poll EXCEPT ![p] = NoPoll]
        /\ client' = [client EXCEPT ![p] = Resumed(client[p])]
        /\ UNCHANGED database
        /\ txn' = [r \in Requests |-> IF r[1] = p THEN Unheard(txn[r]) ELSE txn[r]]
    BY <1>15 DEF Reload
  <2>2. client' \in [Players -> Browser]
    BY <2>1, ResumedType DEF TypeOK, Browser
  <2>3. poll' \in [Players -> [game : 0 .. created,
                             answer : {"idle", "asked", "waiting", "playing", "finished",
                                       "missing", "lost"}]]
    BY <1>0, <2>1 DEF NoPoll, TypeOK
  <2>4. ASSUME NEW t \in Txn
        PROVE  /\ Unheard(t) \in Txn /\ Unheard(t).at = t.at
               /\ t.at # "idle" => Unheard(t).game = t.game
    BY NoTxnType DEF Unheard, Txn, NoTxn
  <2>5. txn' \in [Requests -> Txn']
    BY <2>1, <2>4 DEF TypeOK, Txn, database, history
  <2>6. RequestInv'
    BY <2>1, <2>4 DEF RequestInv, TypeOK, Txn
  <2>7. faults' \in 0 .. MaxFaults
    BY <1>15, FaultType DEF Reload
  <2>8. PollInv'
    BY <2>1 DEF PollInv, NoPoll, TypeOK
  <2> QED BY <2>1, <2>2, <2>3, <2>5, <2>6, <2>7, <2>8 DEF TypeOK, Txn, Browser, database, history
<1>16. CASE Restart
  <2>1. /\ poll' = [p \in Players |->
                       IF poll[p].answer = "asked" THEN [game |-> poll[p].game, answer |-> "lost"]
                       ELSE poll[p]]
        /\ txn' = [r \in Requests |-> Aborted(txn[r])]
        /\ UNCHANGED <<created, boards, joiners, raced, client>> /\ stale' = {}
    BY <1>16 DEF Restart
  <2>2. rows' \in [Games -> [player1 : Players \cup {NoPlayer}, player2 : Players \cup {NoPlayer},
                             status : {"absent", "waiting", "playing", "finished", "deleted"}]]
    BY <1>16 DEF Restart, TypeOK
  <2>3. undone' \subseteq Players \X Games
    BY <1>16 DEF Restart, TypeOK
  <2>4. ASSUME NEW t \in Txn PROVE Aborted(t) \in Txn /\ Aborted(t).at = "idle"
    BY NoTxnType DEF Aborted, Txn, NoTxn
  <2>5. txn' \in [Requests -> Txn']
    BY <2>1, <2>4 DEF TypeOK, Txn
  <2>6. RequestInv'
    BY <2>1, <2>4 DEF RequestInv, TypeOK, Txn
  <2>7. poll' \in [Players -> [game : 0 .. created,
                             answer : {"idle", "asked", "waiting", "playing", "finished",
                                       "missing", "lost"}]]
    BY <2>1 DEF TypeOK
  <2>8. faults' \in 0 .. MaxFaults
    BY <1>16, FaultType DEF Restart
  <2>9. PollInv'
    BY <2>1 DEF PollInv, TypeOK
  <2> QED BY <2>1, <2>2, <2>3, <2>5, <2>6, <2>7, <2>8, <2>9 DEF TypeOK, Txn
<1>17. CASE UNCHANGED vars
  BY <1>17 DEF vars, database, history, TypeOK, RequestInv, PollInv
<1> QED BY <1>1, <1>2, <1>3, <1>4, <1>5, <1>6, <1>7, <1>8, <1>9, <1>11, <1>12, <1>13,
           <1>14, <1>15, <1>16, <1>17 DEF Next, Click, Serve

(* Every variable of the lobby keeps its type, for any players and bounds. *)
THEOREM TypeCorrect == Spec => []TypeOK
<1>1. TypeInv => TypeOK
  BY DEF TypeInv
<1> QED BY TypeInit, TypeNext, <1>1, PTL DEF Spec

-----------------------------------------------------------------------------
(* The board is there first.  A join stores the board before it commits, and   *)
(* nothing takes a board away; this needs no assumption about overlaps.    *)

BoardInv == BoardIsSaved /\ BoardBeforeRow

LEMMA BoardInit == Init => BoardInv
  BY DEF Init, BoardInv, BoardIsSaved, BoardBeforeRow, NoTxn, NoRow

(* What a step does to the requests that go on.                            *)
LEMMA Continues ==
    ASSUME TypeInv, NEW r \in Requests, NEW at, NEW answer,
           Goto(r, at, answer) \/ Close(r, answer)
    PROVE  /\ \A s \in Requests : s # r => txn'[s] = txn[s]
           /\ txn'[r].at \in {at, "idle"}
           /\ txn'[r].at # "idle" => txn'[r].game = txn[r].game
<1> DEFINE t(a) == [at |-> a, game |-> txn[r].game, answer |-> answer]
<1>1. \/ txn' = [txn EXCEPT ![r] = t(at)]
      \/ txn' = [txn EXCEPT ![r] = t("idle")]
      \/ txn' = [txn EXCEPT ![r] = NoTxn]
  BY DEF Goto, Close
<1>2. /\ \A a : t(a).at = a /\ t(a).game = txn[r].game
      /\ NoTxn.at = "idle"
  BY DEF NoTxn
<1> HIDE DEF t
<1> QED BY <1>1, <1>2 DEF TypeInv, TypeOK

(* Reading an answer, and a click, change no transaction under way.        *)
LEMMA Hears ==
    ASSUME TypeInv, NEW p \in Players, Listen(p)
    PROVE  /\ UNCHANGED database
           /\ \A s \in Requests : txn'[s].at # "idle" =>
                  txn'[s].at = txn[s].at /\ txn'[s].game = txn[s].game
<1>1. PICK op, answer : op \in {"create", "join"} /\ Hear(<<p, op>>, answer)
  BY DEF Listen, ShowWaiting, EnterGame, ShowError
<1> DEFINE r == <<p, op>>
           t == [at |-> txn[r].at, game |-> txn[r].game, answer |-> "none"]
<1>2. r \in Requests
  BY <1>1, NamedRequest DEF Ops
<1>3. /\ UNCHANGED database
      /\ \/ txn' = [txn EXCEPT ![r] = NoTxn]
         \/ txn' = [txn EXCEPT ![r] = t]
  BY <1>1 DEF Hear
<1> HIDE DEF r
<1>4. t.at = txn[r].at /\ t.game = txn[r].game /\ NoTxn.at = "idle"
  BY DEF NoTxn
<1> HIDE DEF t
<1> QED BY <1>2, <1>3, <1>4 DEF TypeInv, TypeOK

LEMMA Clicks ==
    ASSUME TypeInv, NEW p \in Players, ClickCancel(p) \/ \E g \in Games : ClickJoin(p, g)
    PROVE  /\ UNCHANGED database
           /\ \A s \in Requests : txn'[s].at \in Working => txn'[s] = txn[s]
<1>1. PICK op \in Ops : \E game : \E answer :
          txn' = [txn EXCEPT ![<<p, op>>] = [at |-> "read", game |-> game, answer |-> answer]]
  <2>1. CASE ClickCancel(p)
    BY <2>1 DEF ClickCancel, Ops
  <2>2. CASE \E g \in Games : ClickJoin(p, g)
    BY <2>2 DEF ClickJoin, Ops
  <2> QED BY <2>1, <2>2
<1>2. PICK game, answer :
          txn' = [txn EXCEPT ![<<p, op>>] = [at |-> "read", game |-> game, answer |-> answer]]
  BY <1>1
<1> DEFINE r == <<p, op>>
           t == [at |-> "read", game |-> game, answer |-> answer]
<1>3. r \in Requests /\ txn' = [txn EXCEPT ![r] = t]
  BY <1>2, NamedRequest
<1> HIDE DEF r
<1>4. t.at = "read"
  OBVIOUS
<1> HIDE DEF t
<1>5. \A s \in Requests : txn'[s].at \in Working => txn'[s] = txn[s]
  BY <1>3, <1>4 DEF TypeInv, TypeOK, Working
<1>6. UNCHANGED database
  BY DEF ClickCancel, ClickJoin
<1> QED BY <1>5, <1>6

LEMMA BoardNext == TypeInv /\ BoardInv /\ [Next]_vars => BoardInv'
<1> SUFFICES ASSUME TypeInv, BoardInv, [Next]_vars PROVE BoardInv'
  OBVIOUS
<1> USE DEF BoardInv, BoardIsSaved, BoardBeforeRow
<1> DEFINE Quiet ==
        /\ rows' = rows /\ boards' = boards
        /\ \A r \in Requests : txn'[r].at = "commit" /\ r[2] = "join" =>
               txn[r].at = "commit" /\ txn'[r].game = txn[r].game
<1>0. Quiet => BoardInv'
  OBVIOUS
<1>1. ASSUME NEW p \in Players, Click(p) \/ Listen(p) \/ Reload(p) PROVE BoardInv'
  <2>1. CASE ClickCreate(p)
    <3>1. \A r \in Requests : r[2] = "join" => txn'[r] = txn[r]
      BY <2>1 DEF ClickCreate, TypeInv, TypeOK
    <3>2. \A g \in Games : rows'[g].status = "playing" => rows[g].status = "playing"
      BY <2>1 DEF ClickCreate, TypeInv, TypeOK
    <3> QED BY <2>1, <3>1, <3>2 DEF ClickCreate
  <2>2. CASE ClickCancel(p) \/ \E g \in Games : ClickJoin(p, g)
    BY <1>0, <2>2, Clicks DEF Working, database, history
  <2>3. CASE Listen(p)
    BY <1>0, <2>3, Hears DEF database, history
  <2>4. CASE Reload(p)
    BY <1>0, <2>4 DEF Reload, Unheard, TypeInv, TypeOK, NoTxn, database, history
  <2> QED BY <1>1, <2>1, <2>2, <2>3, <2>4 DEF Click
<1>2. ASSUME NEW p \in Players, NEW op \in {"join", "cancel"}, ReadRow(p, op) PROVE BoardInv'
  <2>1. <<p, op>> \in Requests
    BY NamedRequest DEF Ops
  <2>2. \E answer : \/ Goto(<<p, op>>, "write", answer)
                    \/ Close(<<p, op>>, answer)
    BY <1>2 DEF ReadRow
  <2> QED BY <1>0, <1>2, <2>1, <2>2, Continues DEF ReadRow, database, history
<1>3. ASSUME NEW p \in Players, UpdateRow(p) \/ DeleteRow(p) PROVE BoardInv'
  <2>1. CASE UpdateRow(p)
    <3>1. <<p, "join">> \in Requests
      BY NamedRequest DEF Ops
    <3>2. \E answer : \/ Goto(<<p, "join">>, "save", answer)
                      \/ Close(<<p, "join">>, answer)
      BY <2>1 DEF UpdateRow
    <3> QED BY <1>0, <2>1, <3>1, <3>2, Continues DEF UpdateRow, database, history
  <2>2. CASE DeleteRow(p)
    <3>1. <<p, "cancel">> \in Requests
      BY NamedRequest DEF Ops
    <3>2. \E answer : Goto(<<p, "cancel">>, "commit", answer)
      BY <2>2 DEF DeleteRow
    <3> QED BY <1>0, <2>2, <3>1, <3>2, Continues DEF DeleteRow, database, history
  <2> QED BY <1>3, <2>1, <2>2
<1>4. ASSUME NEW p \in Players, SaveBoard(p) PROVE BoardInv'
  <2> DEFINE r == <<p, "join">>
  <2>1. r \in Requests
    BY NamedRequest DEF Ops
  <2>2. /\ boards' = boards \cup {txn[r].game} /\ rows' = rows
        /\ Goto(r, "commit", Heard(r, "ok"))
    BY <1>4 DEF SaveBoard
  <2> HIDE DEF r
  <2>3. /\ \A s \in Requests : s # r => txn'[s] = txn[s]
        /\ txn'[r].at # "idle" => txn'[r].game = txn[r].game
    BY <2>1, <2>2, Continues
  <2> QED BY <2>2, <2>3
<1>5. ASSUME NEW p \in Players, NEW op \in Ops, Commit(p, op) PROVE BoardInv'
  <2> DEFINE r == <<p, op>>
             g == txn[r].game
  <2>1. r \in Requests /\ r[2] = op
    BY NamedRequest
  <2>2. /\ boards' = boards /\ txn[r].at = "commit" /\ Close(r, txn[r].answer)
        /\ rows' = [rows EXCEPT ![g] = Written(p, op, rows[g])]
    BY <1>5 DEF Commit
  <2> HIDE DEF r
  <2>3. g \in Games
    BY <2>1, <2>2 DEF RequestInv, TypeInv
  <2> HIDE DEF g
  <2>4. Written(p, op, rows[g]).status = "playing" => op = "join"
    BY <2>3, WrittenType DEF TypeInv, Ops
  <2>5. \A s \in Requests : txn'[s].at # "idle" => txn'[s] = txn[s]
    BY <2>1, <2>2, Continues
  <2>6. BoardIsSaved'
    BY <2>2, <2>5
  <2>7. op = "join" => g \in boards
    BY <2>1, <2>2 DEF g
  <2>8. BoardBeforeRow'
    BY <2>2, <2>3, <2>4, <2>7 DEF TypeInv, TypeOK
  <2> QED BY <2>6, <2>8
<1>6. ASSUME NEW p \in Players, NEW op \in Ops, FailCommit(p, op) PROVE BoardInv'
  <2>1. <<p, op>> \in Requests
    BY NamedRequest
  <2>2. /\ Close(<<p, op>>, txn[<<p, op>>].answer)
        /\ rows' = rows /\ boards' = boards
    BY <1>6 DEF FailCommit
  <2>3. \A s \in Requests : txn'[s].at # "idle" => txn'[s] = txn[s]
    BY <2>1, <2>2, Continues
  <2> QED BY <1>0, <2>2, <2>3
<1>7. ASSUME NEW p \in Players, Ask(p) \/ AnswerStatus(p) \/ TakeStatus(p) \/ LoseStatus(p)
      PROVE BoardInv'
  BY <1>7 DEF Ask, AnswerStatus, LoseStatus, Answered, TakeStatus, Take, database, history
<1>8. CASE Restart
  <2>1. \A r \in Requests : txn'[r].at = "idle"
    BY <1>8 DEF Restart, Aborted, NoTxn
  <2>2. \A g \in Games : rows'[g].status # "playing"
    BY <1>8 DEF Restart, TypeInv, TypeOK
  <2> QED BY <2>1, <2>2
<1>9. CASE UNCHANGED vars
  BY <1>9 DEF vars, database, history
<1> QED BY <1>1, <1>2, <1>3, <1>4, <1>5, <1>6, <1>7, <1>8, <1>9 DEF Next, Serve

(* A game that the database shows as playing has its board in Redis.       *)
THEOREM BoardComesFirst == Spec => []BoardBeforeRow
<1>1. BoardInv => BoardBeforeRow
  BY DEF BoardInv
<1> QED BY TypeInit, TypeNext, BoardInit, BoardNext, <1>1, PTL DEF Spec

-----------------------------------------------------------------------------
(* A game is joined once, unless a stale request writes it.  What any      *)
(* other request read of its row still holds when it commits, although     *)
(* others may be between their read and their commit too (ReadHolds).      *)

SafeInv == ReadHolds /\ JoinersInv /\ Unborn

LEMMA SafeInit == Init => SafeInv
  BY DEF Init, SafeInv, ReadHolds, JoinersInv, Unborn, NoTxn, NoRow, Working

(* A step that leaves the table alone and lets nobody past its read.       *)
Quiet ==
    /\ rows' = rows /\ joiners' = joiners /\ created' = created /\ raced' = raced
    /\ \A r \in Requests : txn'[r].at \in Working =>
           /\ txn[r].at \in Working /\ txn'[r].game = txn[r].game
           /\ r \in stale => r \in stale'

LEMMA QuietIsSafe == SafeInv /\ Quiet => SafeInv'
<1> SUFFICES ASSUME SafeInv, Quiet PROVE SafeInv'
  OBVIOUS
<1>1. ReadHolds'
  BY DEF SafeInv, ReadHolds, Quiet
<1>2. JoinersInv' /\ Unborn'
  BY DEF SafeInv, JoinersInv, Unborn, Quiet
<1> QED BY <1>1, <1>2 DEF SafeInv

(* A request that goes on from its read stays by itself.                   *)
LEMMA QuietGoto ==
    ASSUME TypeInv, NEW r \in Requests, NEW at, NEW answer,
           Goto(r, at, answer) \/ Close(r, answer),
           rows' = rows, joiners' = joiners, created' = created, raced' = raced,
           at \in Working => txn[r].at \in Working,
           stale' = stale \/ (stale' = stale \ {r} /\ Close(r, answer))
    PROVE  Quiet
<1>1. /\ \A s \in Requests : s # r => txn'[s] = txn[s]
      /\ txn'[r].at \in {at, "idle"}
      /\ txn'[r].at # "idle" => txn'[r].game = txn[r].game
  BY Continues
<1>2. Close(r, answer) => txn'[r].at = "idle"
  BY DEF Close, Goto, NoTxn, TypeInv, TypeOK
<1> QED BY <1>1, <1>2 DEF Quiet, Working

LEMMA ReadIsSafe ==
    ASSUME TypeInv, SafeInv, NEW p \in Players, NEW op \in {"join", "cancel"},
           ReadRow(p, op)
    PROVE  SafeInv'
<1> DEFINE r == <<p, op>>
           g == txn[r].game
<1>1. r \in Requests /\ r[2] # "create"
  BY NamedRequest DEF Ops
<1>2. /\ txn[r].at = "read"
      /\ rows' = rows /\ joiners' = joiners /\ created' = created
      /\ raced' = raced /\ stale' = stale
      /\ \/ Goto(r, "write", txn[r].answer) /\ rows[g].status = "waiting"
         \/ \E answer : Close(r, answer)
  BY DEF ReadRow, Joinable, Cancellable, database, history
<1> HIDE DEF r
<1>3. CASE \E answer : Close(r, answer)
  <2>1. Quiet
    <3>1. PICK answer : Close(r, answer)
      BY <1>3
    <3> QED BY <1>1, <1>2, <3>1, QuietGoto DEF Working
  <2> QED BY <2>1, QuietIsSafe
<1>4. CASE Goto(r, "write", txn[r].answer) /\ rows[g].status = "waiting"
  <2>1. /\ \A s \in Requests : s # r => txn'[s] = txn[s]
        /\ txn'[r].at # "idle" => txn'[r].game = g
    BY <1>1, <1>4, Continues
  <2> HIDE DEF g
  <2>2. ReadHolds'
    BY <1>1, <1>2, <1>4, <2>1 DEF SafeInv, ReadHolds, Working
  <2>3. JoinersInv' /\ Unborn'
    BY <1>2 DEF SafeInv, JoinersInv, Unborn
  <2> QED BY <2>2, <2>3 DEF SafeInv
<1> QED BY <1>2, <1>3, <1>4

LEMMA CreateIsSafe ==
    ASSUME TypeInv, SafeInv, NEW p \in Players, ClickCreate(p)
    PROVE  SafeInv'
<1> DEFINE r == <<p, "create">>
           t == [at |-> "commit", game |-> created', answer |-> "ok"]
           row == [player1 |-> p, player2 |-> NoPlayer, status |-> "absent"]
<1>1. r \in Requests /\ r[2] = "create"
  BY NamedRequest DEF Ops
<1>2. /\ created' = created + 1 /\ created' \in Games /\ created \in Nat
      /\ txn' = [txn EXCEPT ![r] = t] /\ rows' = [rows EXCEPT ![created'] = row]
      /\ joiners' = joiners /\ raced' = raced /\ stale' = stale
  BY LobbyAssumption DEF ClickCreate, history, TypeInv, TypeOK, Games
<1>3. t.at = "commit" /\ t.game = created' /\ row.status = "absent"
  OBVIOUS
<1> HIDE DEF r, t, row
<1>4. \A s \in Requests : txn[s].game \in 0 .. created
  BY DEF TypeInv, TypeOK
<1>5. \A s \in Requests : s # r => txn'[s] = txn[s] /\ txn'[s].game # created'
  BY <1>1, <1>2, <1>4 DEF TypeInv, TypeOK
<1>6. txn'[r] = t
  BY <1>1, <1>2 DEF TypeInv, TypeOK
<1>7. /\ rows'[created'].status = "absent" /\ joiners[created'] = {}
      /\ \A h \in Games : h # created' => rows'[h] = rows[h]
  BY <1>2, <1>3 DEF SafeInv, Unborn, TypeInv, TypeOK
<1>8. ReadHolds'
  <2> SUFFICES ASSUME NEW s \in Requests \ stale, txn'[s].at \in Working
               PROVE  rows'[txn'[s].game].status = IF s[2] = "create" THEN "absent" ELSE "waiting"
    BY <1>2 DEF ReadHolds
  <2>1. CASE s = r
    BY <1>1, <1>3, <1>6, <1>7, <2>1
  <2>2. CASE s # r
    <3>1. txn'[s] = txn[s] /\ txn[s].game # created' /\ txn[s].at # "idle"
      BY <1>5, <2>2 DEF Working
    <3>2. txn[s].game \in Games
      BY <3>1 DEF TypeInv, RequestInv
    <3> QED BY <1>7, <3>1, <3>2 DEF SafeInv, ReadHolds
  <2> QED BY <2>1, <2>2
<1>9. JoinersInv'
  BY <1>2, <1>7 DEF SafeInv, JoinersInv
<1>10. Unborn'
  BY <1>2, <1>7 DEF SafeInv, Unborn, Games
<1> QED BY <1>8, <1>9, <1>10 DEF SafeInv

LEMMA WrittenRow ==
    ASSUME TypeInv, NEW p \in Players, NEW op \in Ops, NEW g \in Games
    PROVE  /\ Written(p, op, rows[g]).player2 = IF op = "join" THEN p ELSE rows[g].player2
           /\ op = "create" => Written(p, op, rows[g]).status = "waiting"
           /\ op = "join" => Written(p, op, rows[g]).status = "playing"
           /\ op = "cancel" => Written(p, op, rows[g]).status = "deleted"
  BY DEF Written, Ops

LEMMA CommitIsSafe ==
    ASSUME TypeInv, SafeInv, NEW p \in Players, NEW op \in Ops, Commit(p, op)
    PROVE  SafeInv'
<1> DEFINE r == <<p, op>>
           g == txn[r].game
           row == Written(p, op, rows[g])
<1>1. r \in Requests /\ r[2] = op
  BY NamedRequest
<1>2. /\ created' = created /\ txn[r].at = "commit" /\ Close(r, txn[r].answer)
      /\ rows' = [rows EXCEPT ![g] = row]
      /\ joiners' = IF op = "join" THEN [joiners EXCEPT ![g] = joiners[g] \cup {p}] ELSE joiners
      /\ raced' = IF r \in stale THEN raced \cup {g} ELSE raced
      /\ \A s \in Requests \ {r} :
             \/ s \in stale'
             \/ s \notin stale /\ ~(txn[s].at \in Working /\ txn[s].game = g)
  BY DEF Commit, Readers
<1> HIDE DEF r
<1>3. g \in Games /\ g \in 0 .. created /\ created \in Nat
  BY <1>1, <1>2, LobbyAssumption DEF TypeInv, TypeOK, RequestInv
<1> HIDE DEF g
<1>4. /\ row.player2 = IF op = "join" THEN p ELSE rows[g].player2
      /\ op = "create" => row.status = "waiting"
      /\ op = "join" => row.status = "playing"
      /\ op = "cancel" => row.status = "deleted"
  BY <1>3, WrittenRow
<1> HIDE DEF row
<1>5. g \notin raced' => joiners[g] = {}
  BY <1>1, <1>2, <1>3 DEF SafeInv, ReadHolds, JoinersInv, Working, g
<1>6. \A s \in Requests : txn'[s].at # "idle" => s # r /\ txn'[s] = txn[s]
  <2>1. /\ \A s \in Requests : s # r => txn'[s] = txn[s]
        /\ txn'[r].at = "idle"
    BY <1>1, <1>2, Continues
  <2> QED BY <2>1
<1>7. \A s \in Requests \ stale' : txn'[s].at \in Working =>
          s # r /\ s \notin stale /\ txn'[s] = txn[s] /\ txn'[s].game \in Games \ {g}
  BY <1>2, <1>6 DEF Working, TypeInv, RequestInv
<1>8. ReadHolds'
  <2>1. \A h \in Games \ {g} : rows'[h] = rows[h]
    BY <1>2 DEF TypeInv, TypeOK
  <2> QED BY <1>7, <2>1 DEF SafeInv, ReadHolds
<1>9. rows'[g] = row /\ (g \notin raced' => joiners'[g] = IF op = "join" THEN {p} ELSE {})
  BY <1>2, <1>3, <1>5 DEF TypeInv, TypeOK
<1>10. /\ raced \subseteq raced'
       /\ \A h \in Games : h # g => rows'[h] = rows[h] /\ joiners'[h] = joiners[h]
  BY <1>2 DEF TypeInv, TypeOK
<1>11. JoinersInv'
  <2>1. g \notin raced' => joiners'[g] \subseteq {rows'[g].player2}
    BY <1>4, <1>9
  <2>2. g \notin raced' /\ rows'[g].status \in {"absent", "waiting"} => joiners'[g] = {}
    BY <1>4, <1>9
  <2> QED BY <1>10, <2>1, <2>2 DEF SafeInv, JoinersInv
<1>12. Unborn'
  BY <1>2, <1>3, <1>10 DEF SafeInv, Unborn, Games
<1> QED BY <1>8, <1>11, <1>12 DEF SafeInv

LEMMA RestartIsSafe ==
    ASSUME TypeInv, SafeInv, Restart
    PROVE  SafeInv'
<1>1. \A r \in Requests : txn'[r].at \notin Working
  BY DEF Restart, Aborted, NoTxn, Working
<1>2. joiners' = joiners /\ created' = created /\ raced' = raced
  BY DEF Restart
<1>3. \A g \in Games : /\ rows'[g].player2 = rows[g].player2
                       /\ rows'[g].status \in {"absent", "waiting"} => rows[g].status = "absent"
                       /\ rows[g].status = "absent" => rows'[g].status = "absent"
  BY DEF Restart, TypeInv, TypeOK
<1>4. ReadHolds'
  BY <1>1 DEF ReadHolds
<1>5. JoinersInv' /\ Unborn'
  BY <1>2, <1>3 DEF SafeInv, JoinersInv, Unborn
<1> QED BY <1>4, <1>5 DEF SafeInv

(* The other steps are quiet.                                              *)
LEMMA OtherStepsAreQuiet ==
    ASSUME TypeInv, [Next]_vars
    PROVE  \/ \E p \in Players :
                 \/ ClickCreate(p)
                 \/ \E op \in {"join", "cancel"} : ReadRow(p, op)
                 \/ \E op \in Ops : Commit(p, op)
           \/ Restart
           \/ Quiet
<1>1. ASSUME NEW p \in Players, Click(p) PROVE ClickCreate(p) \/ Quiet
  BY <1>1, Clicks DEF Click, Quiet, database, history
<1>2. ASSUME NEW p \in Players, UpdateRow(p) \/ SaveBoard(p) PROVE Quiet
  <2> DEFINE r == <<p, "join">>
             ok == Heard(r, "ok")
             refused == Heard(r, "refused")
  <2>1. r \in Requests
    BY NamedRequest DEF Ops
  <2>2. /\ rows' = rows /\ joiners' = joiners /\ created' = created /\ raced' = raced
        /\ txn[r].at \in Working
    BY <1>2 DEF UpdateRow, SaveBoard, database, history, Working
  <2>3. \/ Goto(r, "save", txn[r].answer) /\ stale' = stale
        \/ Goto(r, "commit", ok) /\ stale' = stale
        \/ Close(r, refused) /\ stale' = stale \ {r}
    BY <1>2 DEF UpdateRow, SaveBoard, database, history
  <2> HIDE DEF r, ok, refused
  <2>4. CASE Goto(r, "save", txn[r].answer) /\ stale' = stale
    BY <2>1, <2>2, <2>4, QuietGoto
  <2>5. CASE Goto(r, "commit", ok) /\ stale' = stale
    BY <2>1, <2>2, <2>5, QuietGoto
  <2>6. CASE Close(r, refused) /\ stale' = stale \ {r}
    BY <2>1, <2>2, <2>6, QuietGoto
  <2> QED BY <2>3, <2>4, <2>5, <2>6
<1>3. ASSUME NEW p \in Players, DeleteRow(p) PROVE Quiet
  <2>1. <<p, "cancel">> \in Requests
    BY NamedRequest DEF Ops
  <2>2. /\ rows' = rows /\ joiners' = joiners /\ created' = created
        /\ raced' = raced /\ stale' = stale /\ txn[<<p, "cancel">>].at \in Working
        /\ Goto(<<p, "cancel">>, "commit", txn[<<p, "cancel">>].answer)
    BY <1>3 DEF DeleteRow, database, history, Working
  <2> QED BY <2>1, <2>2, QuietGoto
<1>4. ASSUME NEW p \in Players, NEW op \in Ops, FailCommit(p, op) PROVE Quiet
  <2>1. <<p, op>> \in Requests
    BY NamedRequest
  <2>2. /\ rows' = rows /\ joiners' = joiners /\ created' = created
        /\ raced' = raced /\ stale' = stale \ {<<p, op>>} /\ txn[<<p, op>>].at \in Working
        /\ Close(<<p, op>>, txn[<<p, op>>].answer)
    BY <1>4 DEF FailCommit, Working
  <2> QED BY <2>1, <2>2, QuietGoto
<1>5. ASSUME NEW p \in Players, Listen(p) PROVE Quiet
  BY <1>5, Hears DEF Quiet, database, history, Working
<1>6. ASSUME NEW p \in Players, Reload(p) PROVE Quiet
  BY <1>6 DEF Reload, Unheard, NoTxn, Quiet, database, history, Working, TypeInv, TypeOK
<1>7. ASSUME NEW p \in Players, Ask(p) \/ AnswerStatus(p) \/ TakeStatus(p) \/ LoseStatus(p)
      PROVE Quiet
  BY <1>7 DEF Ask, AnswerStatus, LoseStatus, Answered, TakeStatus, Take, Quiet, database, history
<1>8. CASE UNCHANGED vars
  BY <1>8 DEF vars, database, history, Quiet
<1>9. ASSUME NEW p \in Players, Serve(p)
      PROVE  (\E op \in {"join", "cancel"} : ReadRow(p, op)) \/ (\E op \in Ops : Commit(p, op)) \/ Quiet
  BY <1>2, <1>3, <1>9 DEF Serve
<1> QED BY <1>1, <1>4, <1>5, <1>6, <1>7, <1>8, <1>9 DEF Next

LEMMA SafeNext == TypeInv /\ SafeInv /\ [Next]_vars => SafeInv'
<1> SUFFICES ASSUME TypeInv, SafeInv, [Next]_vars PROVE SafeInv'
  OBVIOUS
<1>1. CASE Quiet
  BY <1>1, QuietIsSafe
<1>2. ASSUME NEW p \in Players, ClickCreate(p) PROVE SafeInv'
  BY <1>2, CreateIsSafe
<1>3. ASSUME NEW p \in Players, NEW op \in {"join", "cancel"}, ReadRow(p, op) PROVE SafeInv'
  BY <1>3, ReadIsSafe
<1>4. ASSUME NEW p \in Players, NEW op \in Ops, Commit(p, op) PROVE SafeInv'
  BY <1>4, CommitIsSafe
<1>5. CASE Restart
  BY <1>5, RestartIsSafe
<1> QED BY <1>1, <1>2, <1>3, <1>4, <1>5, OtherStepsAreQuiet

LEMMA JoinersAreOne == ASSUME JoinersInv PROVE OneJoinerUnlessRaced
<1> SUFFICES ASSUME NEW g \in Games \ raced PROVE Cardinality(joiners[g]) <= 1
  BY DEF OneJoinerUnlessRaced
<1>1. joiners[g] \in SUBSET {rows[g].player2}
  BY DEF JoinersInv
<1>2. IsFiniteSet({rows[g].player2}) /\ Cardinality({rows[g].player2}) = 1
  BY FS_Singleton
<1> QED BY <1>1, <1>2, FS_Subset

(* However requests for one row overlap, a game gets a second joiner only  *)
(* by a request that wrote it on the strength of an outdated read.         *)
THEOREM JoinsAreSingle == Spec => []OneJoinerUnlessRaced
<1>1. SafeInv => OneJoinerUnlessRaced
  BY JoinersAreOne DEF SafeInv
<1> QED BY TypeInit, TypeNext, SafeInit, SafeNext, <1>1, PTL DEF Spec

(* The rows change by a create, a commit or a restart only.                *)
LEMMA WhoWrites ==
    ASSUME TypeInv, [Next]_vars
    PROVE  \/ \E p \in Players : ClickCreate(p) \/ \E op \in Ops : Commit(p, op)
           \/ Restart
           \/ rows' = rows
<1>1. ASSUME NEW p \in Players, Click(p) PROVE ClickCreate(p) \/ rows' = rows
  BY <1>1, Clicks DEF Click, database, history
<1>2. ASSUME NEW p \in Players, Serve(p)
      PROVE  (\E op \in Ops : Commit(p, op)) \/ rows' = rows
  BY <1>2 DEF Serve, ReadRow, UpdateRow, DeleteRow, SaveBoard, database, history
<1>3. ASSUME NEW p \in Players, Listen(p) PROVE rows' = rows
  BY <1>3, Hears DEF database, history
<1>4. ASSUME NEW p \in Players,
             \/ Ask(p) \/ AnswerStatus(p) \/ TakeStatus(p) \/ LoseStatus(p) \/ Reload(p)
             \/ \E op \in Ops : FailCommit(p, op)
      PROVE  rows' = rows
  BY <1>4 DEF Ask, AnswerStatus, LoseStatus, Answered, TakeStatus, Take, Reload, FailCommit,
              database, history
<1>5. CASE UNCHANGED vars
  BY <1>5 DEF vars, database, history
<1> QED BY <1>1, <1>2, <1>3, <1>4, <1>5 DEF Next

(* What a game is once it was joined, ended or was cancelled changes only  *)
(* when the server restarts or a stale request writes it.                  *)
LEMMA SettledRow ==
    ASSUME TypeInv, SafeInv, [Next]_vars, NEW g \in Games,
           rows[g].status \notin {"absent", "waiting"}
    PROVE  Restart \/ g \in raced' \/ rows'[g] = rows[g]
<1>1. ASSUME NEW q \in Players, ClickCreate(q) PROVE rows'[g] = rows[g]
  <2>1. created' \in Games /\ created' > created /\ \A h \in Games : h # created' => rows'[h] = rows[h]
    BY <1>1, LobbyAssumption DEF ClickCreate, TypeInv, TypeOK, Games
  <2>2. rows[created'].status = "absent"
    BY <2>1 DEF SafeInv, Unborn
  <2> QED BY <2>1, <2>2
<1>2. ASSUME NEW q \in Players, NEW op \in Ops, Commit(q, op)
      PROVE  g \in raced' \/ rows'[g] = rows[g]
  <2>1. <<q, op>> \in Requests
    BY NamedRequest
  <2>2. \/ <<q, op>> \in stale /\ txn[<<q, op>>].game \in raced'
        \/ rows[txn[<<q, op>>].game].status \in {"absent", "waiting"}
    BY <1>2, <2>1 DEF Commit, SafeInv, ReadHolds, Working
  <2>3. \A h \in Games : h # txn[<<q, op>>].game => rows'[h] = rows[h]
    BY <1>2 DEF Commit, TypeInv, TypeOK
  <2> QED BY <2>2, <2>3
<1> QED BY <1>1, <1>2, WhoWrites

(* A step that finds a game playing leaves it with its second player, or   *)
(* is the commit of a stale request.                                       *)
Stays(g) ==
    rows[g].status = "playing" =>
        \/ rows'[g].status \in {"playing", "finished"} /\ rows'[g].player2 = rows[g].player2
        \/ g \in raced'

LEMMA StaysNext ==
    ASSUME TypeInv, SafeInv, [Next]_vars, NEW g \in Games PROVE Stays(g)
<1>1. CASE Restart
  BY <1>1 DEF Restart, Stays, TypeInv, TypeOK
<1>2. CASE rows'[g] = rows[g]
  BY <1>2 DEF Stays
<1>3. CASE g \in raced'
  BY <1>3 DEF Stays
<1> QED BY <1>1, <1>2, <1>3, SettledRow DEF Stays

(* A joined game is cancelled or joined over only by a request that had    *)
(* read its row before it was joined.                                      *)
THEOREM JoinsStay == Spec => OnlyRacesUndoJoins
<1>1. TypeInv /\ SafeInv /\ [Next]_vars
          => [\A g \in Games :
                  rows[g].status = "playing" =>
                      \/ rows'[g].status \in {"playing", "finished"} /\ rows'[g].player2 = rows[g].player2
                      \/ g \in raced']_vars
  BY StaysNext DEF Stays
<1> QED BY TypeInit, TypeNext, SafeInit, SafeNext, <1>1, PTL DEF Spec, OnlyRacesUndoJoins

-----------------------------------------------------------------------------
(* The second player's seat.  Whoever was let into a game has its seat in  *)
(* the database, or a commit under way that brings it, or a commit that    *)
(* failed, unless a stale request wrote the game.  A page may also enter   *)
(* its own game, by its poll, with a side that is left from another one    *)
(* (Asks).                                                                 *)

(* The player is in the game as its second, or has the answer that says so. *)
Entered(p, g) ==
    \/ client[p].side = 2 /\ client[p].game = g
    \/ txn[<<p, "join">>].answer = "ok" /\ txn[<<p, "join">>].game = g

(* The player waits for the game, or is in it as its first.                *)
Asks(p, g) ==
    \/ client[p].polling = g
    \/ poll[p].game = g
    \/ txn[<<p, "create">>].game = g
    \/ client[p].side = 1 /\ client[p].game = g

Seat(p, g) ==
    \/ txn[<<p, "join">>].game = g /\ txn[<<p, "join">>].at = "commit"
    \/ <<p, g>> \in undone
    \/ rows[g].player2 = p /\ rows[g].status \notin {"absent", "waiting"}

OwnInv  == \A p \in Players, g \in Games : Asks(p, g) => rows[g].player1 = p
SeatInv == \A p \in Players, g \in Games \ raced : Entered(p, g) => rows[g].player1 = p \/ Seat(p, g)

LEMMA PlayersRequests ==
    ASSUME NEW p \in Players, NEW g \in Games
    PROVE  <<p, "create">> \in Requests /\ <<p, "join">> \in Requests /\ g # 0
<1>1. g # 0
  BY LobbyAssumption DEF Games
<1>2. <<p, "create">> \in Requests /\ <<p, "join">> \in Requests
  BY DEF Requests, Ops
<1> QED BY <1>1, <1>2

LEMMA SeatInit == Init => OwnInv /\ SeatInv
<1> SUFFICES ASSUME Init, NEW p \in Players, NEW g \in Games PROVE ~Asks(p, g) /\ ~Entered(p, g)
  BY DEF OwnInv, SeatInv
<1>1. <<p, "create">> \in Requests /\ <<p, "join">> \in Requests /\ g # 0
  BY PlayersRequests
<1> QED BY <1>1 DEF Init, Asks, Entered, Fresh, NoPoll, NoTxn

(* What a step does to the game and the answer of a request.               *)
LEMMA Answers ==
    ASSUME TypeInv, NEW r \in Requests, NEW at, NEW answer,
           Goto(r, at, answer) \/ Close(r, answer)
    PROVE  /\ \A s \in Requests : s # r => txn'[s] = txn[s]
           /\ txn'[r].answer = answer
           /\ txn'[r].game \in {txn[r].game, 0}
<1> DEFINE t(a) == [at |-> a, game |-> txn[r].game, answer |-> answer]
<1>1. \/ txn' = [txn EXCEPT ![r] = t(at)]
      \/ txn' = [txn EXCEPT ![r] = t("idle")]
      \/ txn' = [txn EXCEPT ![r] = NoTxn] /\ answer = "none"
  BY DEF Goto, Close
<1>2. /\ \A a : t(a).game = txn[r].game /\ t(a).answer = answer
      /\ NoTxn.game = 0 /\ NoTxn.answer = "none"
  BY DEF NoTxn
<1> HIDE DEF t
<1> QED BY <1>1, <1>2 DEF TypeInv, TypeOK

(* The games a step brings a player to.                                    *)
Brought(p, g) ==
    /\ Asks(p, g)' => Asks(p, g) \/ (ClickCreate(p) /\ g = created')
    /\ Entered(p, g)' =>
           \/ Entered(p, g) \/ Asks(p, g)
           \/ txn'[<<p, "join">>].game = g /\ txn'[<<p, "join">>].at = "commit"

(* A step of the server: it answers a join only when it is to commit.      *)
Silent ==
    /\ client' = client /\ poll' = poll
    /\ \A s \in Requests :
           /\ txn'[s].game \in {txn[s].game, 0}
           /\ txn'[s].answer = "ok" => txn[s].answer = "ok" \/ txn'[s].at = "commit"

LEMMA SilentBrings ==
    ASSUME Silent, NEW p \in Players, NEW g \in Games PROVE Brought(p, g)
<1>1. <<p, "create">> \in Requests /\ <<p, "join">> \in Requests /\ g # 0
  BY PlayersRequests
<1> QED BY <1>1 DEF Silent, Brought, Asks, Entered

LEMMA ServerIsSilent ==
    ASSUME TypeInv, NEW q \in Players,
           Serve(q) \/ \E op \in Ops : FailCommit(q, op)
    PROVE  Silent
<1>1. PICK op \in Ops : \E at, answer :
          /\ Goto(<<q, op>>, at, answer) \/ Close(<<q, op>>, answer)
          /\ \/ answer = "ok" => txn[<<q, op>>].answer = "ok"
             \/ op = "join" /\ Goto(<<q, op>>, "commit", answer)
  <2>1. CASE \E op \in {"join", "cancel"} : ReadRow(q, op)
    BY <2>1 DEF ReadRow, Heard, Ops
  <2>2. CASE UpdateRow(q)
    <3> DEFINE r == <<q, "join">>
    <3>1. \/ Goto(r, "save", txn[r].answer)
          \/ Close(r, Heard(r, "refused"))
      BY <2>2 DEF UpdateRow
    <3>2. Heard(r, "refused") = "ok" => txn[r].answer = "ok"
      BY DEF Heard
    <3> QED BY <3>1, <3>2 DEF Ops
  <2>3. CASE DeleteRow(q)
    BY <2>3 DEF DeleteRow, Ops
  <2>4. CASE SaveBoard(q)
    BY <2>4 DEF SaveBoard, Ops
  <2>5. CASE \E op \in Ops : Commit(q, op) \/ FailCommit(q, op)
    BY <2>5 DEF Commit, FailCommit
  <2> QED BY <2>1, <2>2, <2>3, <2>4, <2>5 DEF Serve
<1>2. PICK at, answer :
          /\ Goto(<<q, op>>, at, answer) \/ Close(<<q, op>>, answer)
          /\ \/ answer = "ok" => txn[<<q, op>>].answer = "ok"
             \/ op = "join" /\ Goto(<<q, op>>, "commit", answer)
  BY <1>1
<1> DEFINE r == <<q, op>>
<1>3. r \in Requests
  BY NamedRequest
<1> HIDE DEF r
<1>4. /\ \A s \in Requests : s # r => txn'[s] = txn[s]
      /\ txn'[r].answer = answer /\ txn'[r].game \in {txn[r].game, 0}
  BY <1>2, <1>3, Answers DEF r
<1>5. Goto(r, "commit", answer) => txn'[r].at = "commit"
  BY <1>3 DEF Goto, TypeInv, TypeOK
<1>6. client' = client /\ poll' = poll
  BY DEF Serve, ReadRow, UpdateRow, DeleteRow, SaveBoard, Commit, FailCommit
<1> QED BY <1>2, <1>4, <1>5, <1>6 DEF Silent, r

(* The answers that a page takes bring it to games it had asked for.       *)
LEMMA ListenBrings ==
    ASSUME TypeInv, NEW q \in Players, Listen(q), NEW p \in Players, NEW g \in Games
    PROVE  Brought(p, g)
<1>1. PICK op, answer : op \in {"create", "join"} /\ Hear(<<q, op>>, answer)
  <2>1. \/ Hear(<<q, "create">>, "ok") \/ Hear(<<q, "join">>, "ok") \/ Hear(<<q, "join">>, "refused")
    BY DEF Listen, ShowWaiting, EnterGame, ShowError
  <2> QED BY <2>1
<1>2. poll' = poll
  BY <1>1 DEF Hear
<1>3. \A s \in Requests : txn'[s].game \in {txn[s].game, 0} /\ txn'[s].answer \in {txn[s].answer, "none"}
  <2> DEFINE r == <<q, op>>
             t == [at |-> txn[r].at, game |-> txn[r].game, answer |-> "none"]
  <2>1. txn' = [txn EXCEPT ![r] = NoTxn] \/ txn' = [txn EXCEPT ![r] = t]
    BY <1>1 DEF Hear
  <2> HIDE DEF r
  <2>2. t.game = txn[r].game /\ t.answer = "none" /\ NoTxn.game = 0 /\ NoTxn.answer = "none"
    BY DEF NoTxn
  <2> HIDE DEF t
  <2> QED BY <2>1, <2>2 DEF TypeInv, TypeOK
<1>4. <<p, "create">> \in Requests /\ <<p, "join">> \in Requests /\ g # 0
  BY PlayersRequests
<1>5. client \in [Players -> Browser]
  BY DEF TypeInv, TypeOK, Browser
<1>6. \/ client'[p] = client[p]
      \/ /\ client'[p].side = 1 /\ client'[p].polling = txn[<<p, "create">>].game
         /\ client'[p].game = txn[<<p, "create">>].game
      \/ /\ client'[p].side = 2 /\ client'[p].polling = 0
         /\ client'[p].game = txn[<<p, "join">>].game /\ txn[<<p, "join">>].answer = "ok"
  BY <1>5 DEF Listen, ShowWaiting, EnterGame, ShowError, Hear
<1> QED BY <1>2, <1>3, <1>4, <1>6 DEF Brought, Asks, Entered

LEMMA FollowEnds ==
    ASSUME NEW c, NEW g, NEW answer \in {"finished", "missing"}
    PROVE  Follow(c, g, answer).game = 0 /\ Follow(c, g, answer).polling = 0
BY DEF Follow

(* So do the answers to polls, and a reload.                               *)
LEMMA PageBrings ==
    ASSUME TypeInv, NEW q \in Players,
           Ask(q) \/ AnswerStatus(q) \/ LoseStatus(q) \/ TakeStatus(q) \/ Reload(q) \/ ClickCancel(q),
           NEW p \in Players, NEW g \in Games
    PROVE  Brought(p, g)
<1>1. <<p, "create">> \in Requests /\ <<p, "join">> \in Requests /\ g # 0
  BY PlayersRequests
<1>2. client \in [Players -> Browser] /\ poll[p].game \in 0 .. created /\ client[p] \in Browser
  BY DEF TypeInv, TypeOK, Browser
<1>3. CASE Ask(q)
  <2>1. client' = client /\ txn' = txn /\ poll'[p].game \in {poll[p].game, client[p].polling}
    BY <1>3 DEF Ask, TypeInv, TypeOK
  <2> QED BY <2>1 DEF Brought, Asks, Entered
<1>4. CASE AnswerStatus(q) \/ LoseStatus(q)
  <2>1. client' = client /\ txn' = txn /\ poll'[p].game = poll[p].game
    BY <1>4 DEF AnswerStatus, LoseStatus, Answered, TypeInv, TypeOK
  <2> QED BY <2>1 DEF Brought, Asks, Entered
<1>5. CASE TakeStatus(q)
  <2>1. /\ txn' = txn /\ poll'[p].game \in {poll[p].game, 0}
        /\ client'[p] \in {client[p], Follow(client[p], poll[p].game, poll[p].answer)}
        /\ client'[p] # client[p] => poll[p].answer \in {"waiting", "playing", "finished", "missing", "lost"}
    BY <1>5 DEF TakeStatus, Take, NoPoll, TypeInv, TypeOK
  <2>2. \/ client'[p] = client[p]
        \/ /\ client'[p].side = client[p].side /\ client'[p].game = poll[p].game
           /\ client'[p].polling = 0
        \/ client'[p].game = 0 /\ client'[p].polling = 0
    <3>1. CASE poll[p].answer = "playing"
      BY <2>1, <3>1 DEF Follow, Play
    <3>2. CASE poll[p].answer \in {"finished", "missing"}
      BY <2>1, <3>2, FollowEnds
    <3>3. CASE poll[p].answer \in {"waiting", "lost"}
      BY <2>1, <3>3 DEF Follow
    <3> QED BY <2>1, <3>1, <3>2, <3>3
  <2> QED BY <1>1, <2>1, <2>2 DEF Brought, Asks, Entered
<1>6. CASE Reload(q)
  <2>1. /\ poll'[p].game \in {poll[p].game, 0}
        /\ client'[p] \in {client[p], Resumed(client[p])}
    BY <1>6 DEF Reload, NoPoll, TypeInv, TypeOK
  <2>2. \A s \in Requests : txn'[s].game \in {txn[s].game, 0} /\ txn'[s].answer \in {txn[s].answer, "none"}
    BY <1>6 DEF Reload, Unheard, NoTxn
  <2> DEFINE c      == client[p]
             back   == c.game # 0 /\ c.side = 1 /\ Status(c.game) = "waiting"
             inGame == c.game # 0 /\ c.side # 0 /\ Status(c.game) = "playing"
             card   == [screen |-> "lobby", game |-> c.game, side |-> 1, polling |-> c.game]
  <2>3. back => ~inGame
    OBVIOUS
  <2>4. /\ card.game = c.game /\ card.side = 1 /\ card.polling = c.game
        /\ Play(c, c.game).game = c.game /\ Play(c, c.game).side = c.side /\ Play(c, c.game).polling = 0
        /\ Fresh.game = 0 /\ Fresh.polling = 0
    BY DEF Play, Fresh
  <2> HIDE DEF card
  <2>5. Resumed(c) \in {Play(c, c.game), Fresh} \/ (Resumed(c) = card /\ c.side = 1)
    BY <2>3 DEF Resumed, card
  <2> QED BY <1>1, <2>1, <2>2, <2>4, <2>5 DEF Brought, Asks, Entered
<1>7. CASE ClickCancel(q)
  <2>1. poll' = poll /\ client'[p] \in {client[p], Fresh}
    BY <1>7 DEF ClickCancel, TypeInv, TypeOK
  <2>2. txn'[<<p, "create">>] = txn[<<p, "create">>] /\ txn'[<<p, "join">>] = txn[<<p, "join">>]
    BY <1>1, <1>7 DEF ClickCancel, TypeInv, TypeOK
  <2>3. Fresh.game = 0 /\ Fresh.polling = 0
    BY DEF Fresh
  <2> QED BY <1>1, <2>1, <2>2, <2>3 DEF Brought, Asks, Entered
<1> QED BY <1>3, <1>4, <1>5, <1>6, <1>7

LEMMA StepBrings ==
    ASSUME TypeInv, [Next]_vars, NEW p \in Players, NEW g \in Games
    PROVE  Brought(p, g)
<1>1. <<p, "create">> \in Requests /\ <<p, "join">> \in Requests /\ g # 0
  BY PlayersRequests
<1>2. ASSUME NEW q \in Players, ClickCreate(q) PROVE Brought(p, g)
  <2>1. poll' = poll /\ client' = client
    BY <1>2 DEF ClickCreate
  <2>2. /\ txn'[<<p, "join">>] = txn[<<p, "join">>]
        /\ \/ txn'[<<p, "create">>] = txn[<<p, "create">>]
           \/ q = p /\ txn'[<<p, "create">>].game = created'
    BY <1>1, <1>2 DEF ClickCreate, TypeInv, TypeOK
  <2> QED BY <1>2, <2>1, <2>2 DEF Brought, Asks, Entered
<1>3. ASSUME NEW q \in Players, NEW h \in Games, ClickJoin(q, h) PROVE Brought(p, g)
  <2>1. poll' = poll /\ client' = client
    BY <1>3 DEF ClickJoin
  <2>2. /\ txn'[<<p, "create">>] = txn[<<p, "create">>]
        /\ txn'[<<p, "join">>] = txn[<<p, "join">>] \/ txn'[<<p, "join">>].answer = "due"
    BY <1>1, <1>3 DEF ClickJoin, TypeInv, TypeOK
  <2> QED BY <2>1, <2>2 DEF Brought, Asks, Entered
<1>4. CASE Restart
  <2>1. client' = client /\ poll'[p].game = poll[p].game
    BY <1>4 DEF Restart, TypeInv, TypeOK
  <2>2. \A s \in Requests : /\ txn'[s].game \in {txn[s].game, 0}
                            /\ txn'[s].answer = "ok" => txn[s].answer = "ok"
    BY <1>4 DEF Restart, Aborted, NoTxn
  <2> QED BY <1>1, <2>1, <2>2 DEF Brought, Asks, Entered
<1>5. CASE UNCHANGED vars
  BY <1>5 DEF vars, Brought, Asks, Entered
<1>6. ASSUME NEW q \in Players, Serve(q) \/ \E op \in Ops : FailCommit(q, op) PROVE Brought(p, g)
  BY <1>6, ServerIsSilent, SilentBrings
<1> QED BY <1>2, <1>3, <1>4, <1>5, <1>6, ListenBrings, PageBrings DEF Next, Click

(* A game keeps the player who created it.                                 *)
LEMMA CreatorStays ==
    ASSUME TypeInv, [Next]_vars, NEW g \in Games, g <= created
    PROVE  rows'[g].player1 = rows[g].player1
<1>1. ASSUME NEW p \in Players, ClickCreate(p) PROVE rows'[g] = rows[g]
  BY <1>1, LobbyAssumption DEF ClickCreate, TypeInv, TypeOK, Games
<1>2. ASSUME NEW p \in Players, NEW op \in Ops, Commit(p, op)
      PROVE  rows'[g].player1 = rows[g].player1
  <2>1. Written(p, op, rows[g]).player1 = rows[g].player1
    BY DEF Written
  <2> QED BY <1>2, <2>1 DEF Commit, TypeInv, TypeOK
<1>3. CASE Restart
  BY <1>3 DEF Restart
<1> QED BY <1>1, <1>2, <1>3, WhoWrites

(* The games that a player has to do with exist.                           *)
LEMMA GamesExist ==
    ASSUME TypeInv, NEW p \in Players, NEW g \in Games, Asks(p, g) \/ Entered(p, g)
    PROVE  g <= created
<1>1. <<p, "create">> \in Requests /\ <<p, "join">> \in Requests
  BY NamedRequest DEF Ops
<1>2. created \in Nat /\ \A n \in 0 .. created : n <= created
  BY LobbyAssumption DEF TypeInv, TypeOK
<1> QED BY <1>1, <1>2 DEF TypeInv, TypeOK, Asks, Entered

LEMMA OwnNext == TypeInv /\ OwnInv /\ [Next]_vars => OwnInv'
<1> SUFFICES ASSUME TypeInv, OwnInv, [Next]_vars, NEW p \in Players, NEW g \in Games, Asks(p, g)'
             PROVE  rows'[g].player1 = p
  BY DEF OwnInv
<1>1. CASE Asks(p, g)
  BY <1>1, CreatorStays, GamesExist DEF OwnInv
<1>2. CASE ClickCreate(p) /\ g = created'
  BY <1>2 DEF ClickCreate, TypeInv, TypeOK
<1> QED BY <1>1, <1>2, StepBrings DEF Brought

(* A commit that is under way comes to an end, and the seat is recorded or *)
(* the player is among those whose join was undone.                        *)
LEMMA CommitEnds ==
    ASSUME TypeInv, [Next]_vars, NEW p \in Players, NEW g \in Games,
           txn[<<p, "join">>].game = g, txn[<<p, "join">>].at = "commit"
    PROVE  Seat(p, g)'
<1> DEFINE r == <<p, "join">>
           Waits == txn'[r].game = g /\ txn'[r].at = "commit"
<1>0. r \in Requests
  BY NamedRequest DEF Ops
<1>1. CASE Commit(p, "join")
  <2>1. rows'[g] = Written(p, "join", rows[g])
    BY <1>1 DEF Commit, TypeInv, TypeOK
  <2> QED BY <2>1, WrittenRow DEF Seat, Ops
<1>2. CASE FailCommit(p, "join") \/ Restart
  <2>1. <<p, g>> \in undone'
    BY <1>2 DEF FailCommit, Restart
  <2> QED BY <2>1 DEF Seat
<1>3. ASSUME NEW s \in Requests, s # r,
             \E at, answer : Goto(s, at, answer) \/ Close(s, answer)
      PROVE  Waits
  BY <1>0, <1>3, Continues
<1>4. ASSUME NEW q \in Players, Serve(q) \/ \E op \in Ops : FailCommit(q, op)
      PROVE  Waits \/ Commit(p, "join") \/ FailCommit(p, "join")
  <2>1. \A op \in Ops : <<q, op>> \in Requests /\ (<<q, op>> = r => q = p /\ op = "join")
    BY NamedRequest
  <2>2. CASE \E op \in {"join", "cancel"} : ReadRow(q, op)
    <3>1. PICK op \in {"join", "cancel"} : ReadRow(q, op)
      BY <2>2
    <3>2. /\ <<q, op>> # r /\ <<q, op>> \in Requests
          /\ \E at, answer : Goto(<<q, op>>, at, answer) \/ Close(<<q, op>>, answer)
      BY <2>1, <3>1 DEF ReadRow, Ops
    <3> QED BY <1>3, <3>2
  <2>3. CASE UpdateRow(q) \/ SaveBoard(q)
    <3>1. /\ <<q, "join">> # r /\ <<q, "join">> \in Requests
          /\ \E at, answer : Goto(<<q, "join">>, at, answer) \/ Close(<<q, "join">>, answer)
      BY <2>1, <2>3 DEF UpdateRow, SaveBoard, Ops
    <3> QED BY <1>3, <3>1
  <2>4. CASE DeleteRow(q)
    <3>1. /\ <<q, "cancel">> # r /\ <<q, "cancel">> \in Requests
          /\ \E at, answer : Goto(<<q, "cancel">>, at, answer) \/ Close(<<q, "cancel">>, answer)
      BY <2>1, <2>4 DEF DeleteRow, Ops
    <3> QED BY <1>3, <3>1
  <2>5. ASSUME NEW op \in Ops, Commit(q, op) \/ FailCommit(q, op)
        PROVE  Waits \/ Commit(p, "join") \/ FailCommit(p, "join")
    <3>1. CASE <<q, op>> = r
      BY <2>1, <2>5, <3>1
    <3>2. CASE <<q, op>> # r
      <4>1. \E at, answer : Goto(<<q, op>>, at, answer) \/ Close(<<q, op>>, answer)
        BY <2>5 DEF Commit, FailCommit
      <4> QED BY <1>3, <2>1, <3>2, <4>1
    <3> QED BY <3>1, <3>2
  <2> QED BY <1>4, <2>2, <2>3, <2>4, <2>5 DEF Serve
<1>5. ASSUME NEW q \in Players,
             Click(q) \/ Listen(q) \/ Ask(q) \/ AnswerStatus(q) \/ TakeStatus(q) \/ LoseStatus(q) \/ Reload(q)
      PROVE  Waits
  <2>1. CASE ClickCreate(q) \/ ClickCancel(q)
    BY <1>0, <2>1 DEF ClickCreate, ClickCancel, TypeInv, TypeOK
  <2>2. ASSUME NEW h \in Games, ClickJoin(q, h) PROVE Waits
    <3>1. <<q, "join">> # r /\ r \in Requests
      BY <1>0, <2>2 DEF ClickJoin, NoTxn
    <3> DEFINE u == [at |-> "read", game |-> h, answer |-> "due"]
    <3>2. txn' = [txn EXCEPT ![<<q, "join">>] = u]
      BY <2>2 DEF ClickJoin
    <3> HIDE DEF r, u
    <3>3. txn'[r] = txn[r]
      BY <3>1, <3>2 DEF TypeInv, TypeOK
    <3> QED BY <3>3 DEF r
  <2>3. ASSUME Listen(q) PROVE Waits
    <3>1. PICK op, answer : op \in {"create", "join"} /\ Hear(<<q, op>>, answer)
      BY <2>3 DEF Listen, ShowWaiting, EnterGame, ShowError
    <3> DEFINE s == <<q, op>>
               t == [at |-> txn[s].at, game |-> txn[s].game, answer |-> "none"]
    <3>2. \/ txn[s].at = "idle" /\ txn' = [txn EXCEPT ![s] = NoTxn]
          \/ txn' = [txn EXCEPT ![s] = t]
      BY <3>1 DEF Hear
    <3> HIDE DEF s
    <3>3. t.at = txn[s].at /\ t.game = txn[s].game
      OBVIOUS
    <3> HIDE DEF t
    <3> QED BY <1>0, <3>2, <3>3 DEF TypeInv, TypeOK
  <2>4. CASE Ask(q) \/ AnswerStatus(q) \/ TakeStatus(q) \/ LoseStatus(q)
    BY <2>4 DEF Ask, AnswerStatus, LoseStatus, Answered, TakeStatus, Take
  <2>5. CASE Reload(q)
    BY <1>0, <2>5 DEF Reload, Unheard
  <2> QED BY <1>5, <2>1, <2>2, <2>3, <2>4, <2>5 DEF Click
<1>6. CASE UNCHANGED vars
  BY <1>6 DEF vars, Seat
<1>7. Waits => Seat(p, g)'
  BY DEF Seat
<1> QED BY <1>1, <1>2, <1>4, <1>5, <1>6, <1>7 DEF Next

(* What was undone, and what was raced, stays so.                          *)
LEMMA HistoryGrows == ASSUME [Next]_vars PROVE undone \subseteq undone' /\ raced \subseteq raced'
<1>1. ASSUME NEW p \in Players, Click(p) \/ Serve(p) \/ Listen(p)
      PROVE  undone \subseteq undone' /\ raced \subseteq raced'
  <2>1. CASE Click(p)
    BY <2>1 DEF Click, ClickCreate, ClickJoin, ClickCancel, database, history
  <2>2. ASSUME NEW op \in Ops, Commit(p, op) PROVE undone \subseteq undone' /\ raced \subseteq raced'
    BY <2>2 DEF Commit
  <2>3. CASE ReadRow(p, "join") \/ ReadRow(p, "cancel") \/ UpdateRow(p) \/ DeleteRow(p) \/ SaveBoard(p)
    BY <2>3 DEF ReadRow, UpdateRow, DeleteRow, SaveBoard, database, history
  <2>4. CASE Listen(p)
    BY <2>4 DEF Listen, ShowWaiting, EnterGame, ShowError, Hear, database, history
  <2> QED BY <1>1, <2>1, <2>2, <2>3, <2>4 DEF Serve
<1>2. ASSUME NEW p \in Players,
             \/ Ask(p) \/ AnswerStatus(p) \/ TakeStatus(p) \/ LoseStatus(p) \/ Reload(p)
             \/ \E op \in Ops : FailCommit(p, op)
      PROVE  undone \subseteq undone' /\ raced \subseteq raced'
  BY <1>2 DEF FailCommit, Ask, AnswerStatus, LoseStatus, Answered, TakeStatus, Take, Reload,
              database, history
<1>3. CASE Restart \/ UNCHANGED vars
  BY <1>3 DEF Restart, vars, database, history
<1> QED BY <1>1, <1>2, <1>3 DEF Next

(* A seat that was recorded, or a join that was undone, stays so.          *)
LEMMA SeatStays ==
    ASSUME TypeInv, SafeInv, [Next]_vars, NEW p \in Players, NEW g \in Games, Seat(p, g)
    PROVE  Seat(p, g)' \/ g \in raced'
<1>1. CASE txn[<<p, "join">>].game = g /\ txn[<<p, "join">>].at = "commit"
  BY <1>1, CommitEnds
<1>2. CASE <<p, g>> \in undone
  BY <1>2, HistoryGrows DEF Seat
<1>3. CASE rows[g].player2 = p /\ rows[g].status \notin {"absent", "waiting"}
  <2>1. CASE Restart
    BY <1>3, <2>1 DEF Restart, Seat
  <2>2. rows'[g] = rows[g] => Seat(p, g)'
    BY <1>3 DEF Seat
  <2> QED BY <1>3, <2>1, <2>2, SettledRow
<1> QED BY <1>1, <1>2, <1>3 DEF Seat

LEMMA SeatNext == TypeInv /\ SafeInv /\ OwnInv /\ SeatInv /\ [Next]_vars => SeatInv'
<1> SUFFICES ASSUME TypeInv, SafeInv, OwnInv, SeatInv, [Next]_vars,
                    NEW p \in Players, NEW g \in Games \ raced', Entered(p, g)'
             PROVE  rows'[g].player1 = p \/ Seat(p, g)'
  BY DEF SeatInv
<1>0. g \notin raced
  BY HistoryGrows
<1>1. CASE Entered(p, g)
  BY <1>0, <1>1, CreatorStays, GamesExist, SeatStays DEF SeatInv
<1>2. CASE Asks(p, g)
  BY <1>2, CreatorStays, GamesExist DEF OwnInv
<1>3. CASE txn'[<<p, "join">>].game = g /\ txn'[<<p, "join">>].at = "commit"
  BY <1>3 DEF Seat
<1> QED BY <1>1, <1>2, <1>3, StepBrings DEF Brought

(* Whoever was let into another player's game has its seat in the          *)
(* database, unless the commit itself failed or a request wrote the game   *)
(* on the strength of an outdated read.                                    *)
THEOREM SeatsAreRecorded == Spec => []SeatIsRecorded
<1>1. TypeInv /\ SafeInv /\ [Next]_vars => SafeInv'
  BY SafeNext
<1>2. SeatInv => SeatIsRecorded
  BY DEF SeatInv, SeatIsRecorded, Entered, Seat
<1> QED BY TypeInit, TypeNext, SafeInit, SeatInit, OwnNext, SeatNext, <1>1, <1>2, PTL DEF Spec

-----------------------------------------------------------------------------
(* Progress.  The prover reasons about weak fairness but cannot compute    *)
(* ENABLED: the theorem below assumes of it what the guards of the actions *)
(* of a waiting page say.  Nor can it count the faults down: that they end *)
(* (faults is at most MaxFaults) is assumed as well.                       *)

Results == {"waiting", "playing", "finished", "missing", "lost"}

StepsAreEnabled ==
    \A p \in Players :
        /\ client[p].polling # 0 /\ poll[p] = NoPoll => ENABLED <<Ask(p)>>_vars
        /\ poll[p].answer = "asked" => ENABLED <<AnswerStatus(p)>>_vars
        /\ poll[p].answer \in Results => ENABLED <<TakeStatus(p)>>_vars

FaultsEnd == <>[][faults' = faults]_vars

(* A game waits for nobody once it was joined, ended or was cancelled.     *)
Settled(g)  == rows[g].status \notin {"absent", "waiting"}
Waits(p, g) == client[p].polling = g /\ Settled(g)

(* Only a create works on a row that is not there yet, even if requests    *)
(* are stale: so nothing makes a settled game wait again.                  *)
OpenInv == \A r \in Requests :
               txn[r].at \in Working => (rows[txn[r].game].status = "absent" <=> r[2] = "create")

LEMMA OpenInit == Init => OpenInv
  BY DEF Init, OpenInv, NoTxn, Working

LEMMA QuietIsOpen == OpenInv /\ Quiet => OpenInv'
  BY DEF OpenInv, Quiet

LEMMA ReadIsOpen ==
    ASSUME TypeInv, OpenInv, NEW p \in Players, NEW op \in {"join", "cancel"}, ReadRow(p, op)
    PROVE  OpenInv'
<1> DEFINE r == <<p, op>>
           g == txn[r].game
<1>1. r \in Requests /\ r[2] # "create"
  BY NamedRequest DEF Ops
<1>2. /\ txn[r].at = "read" /\ rows' = rows
      /\ \/ Goto(r, "write", txn[r].answer) /\ rows[g].status = "waiting"
         \/ \E answer : Close(r, answer)
  BY DEF ReadRow, Joinable, Cancellable, database, history
<1> HIDE DEF r
<1>3. /\ \A s \in Requests : s # r => txn'[s] = txn[s]
      /\ txn'[r].at # "idle" => txn'[r].game = g
      /\ txn'[r].at \in Working => rows[g].status = "waiting"
  BY <1>1, <1>2, Continues DEF Working
<1> QED BY <1>1, <1>2, <1>3 DEF OpenInv, Working

LEMMA CreateIsOpen ==
    ASSUME TypeInv, SafeInv, OpenInv, NEW p \in Players, ClickCreate(p)
    PROVE  OpenInv'
<1> DEFINE r == <<p, "create">>
           t == [at |-> "commit", game |-> created', answer |-> "ok"]
           row == [player1 |-> p, player2 |-> NoPlayer, status |-> "absent"]
<1>1. r \in Requests /\ r[2] = "create"
  BY NamedRequest DEF Ops
<1>2. /\ created' = created + 1 /\ created' \in Games /\ created \in Nat
      /\ txn' = [txn EXCEPT ![r] = t] /\ rows' = [rows EXCEPT ![created'] = row]
  BY LobbyAssumption DEF ClickCreate, history, TypeInv, TypeOK, Games
<1>3. t.game = created' /\ row.status = "absent"
  OBVIOUS
<1> HIDE DEF r, t, row
<1>4. \A s \in Requests : txn[s].game \in 0 .. created
  BY DEF TypeInv, TypeOK
<1>5. \A s \in Requests : s # r => txn'[s] = txn[s] /\ txn'[s].game # created'
  BY <1>1, <1>2, <1>4 DEF TypeInv, TypeOK
<1>6. txn'[r] = t
  BY <1>1, <1>2 DEF TypeInv, TypeOK
<1>7. /\ rows'[created'].status = "absent"
      /\ \A h \in Games : h # created' => rows'[h] = rows[h]
  BY <1>2, <1>3 DEF TypeInv, TypeOK
<1> SUFFICES ASSUME NEW s \in Requests, txn'[s].at \in Working
             PROVE  rows'[txn'[s].game].status = "absent" <=> s[2] = "create"
  BY DEF OpenInv
<1>8. CASE s = r
  BY <1>1, <1>3, <1>6, <1>7, <1>8
<1>9. CASE s # r
  <2>1. txn'[s] = txn[s] /\ txn[s].game # created' /\ txn[s].at # "idle"
    BY <1>5, <1>9 DEF Working
  <2>2. txn[s].game \in Games
    BY <2>1 DEF TypeInv, RequestInv
  <2> QED BY <1>7, <2>1, <2>2 DEF OpenInv
<1> QED BY <1>8, <1>9

LEMMA CommitIsOpen ==
    ASSUME TypeInv, OwnInv, OpenInv, NEW p \in Players, NEW op \in Ops, Commit(p, op)
    PROVE  OpenInv'
<1> DEFINE r == <<p, op>>
           g == txn[r].game
           row == Written(p, op, rows[g])
<1>1. r \in Requests /\ r[2] = op
  BY NamedRequest
<1>2. /\ txn[r].at = "commit" /\ Close(r, txn[r].answer)
      /\ rows' = [rows EXCEPT ![g] = row]
  BY DEF Commit
<1>3. g \in Games
  BY <1>1, <1>2 DEF TypeInv, RequestInv
<1>4. row.status # "absent"
  BY <1>3, WrittenRow DEF Ops
<1>5. \A s \in Requests : txn'[s].at # "idle" => s # r /\ txn'[s] = txn[s]
  <2> HIDE DEF r, g, row
  <2>1. /\ \A s \in Requests : s # r => txn'[s] = txn[s]
        /\ txn'[r].at = "idle"
    BY <1>1, <1>2, Continues
  <2> QED BY <2>1
<1>6. ASSUME NEW q \in Players, txn[<<q, "create">>].at \in Working, txn[<<q, "create">>].game = g
      PROVE  <<q, "create">> = r
  <2>1. <<q, "create">> \in Requests
    BY DEF Requests, Ops
  <2>2. op = "create"
    <3>1. rows[g].status = "absent"
      BY <1>6, <2>1 DEF OpenInv
    <3> QED BY <1>1, <1>2, <3>1 DEF OpenInv, Working
  <2>3. rows[g].player1 = q /\ rows[g].player1 = p
    BY <1>3, <1>6, <2>2 DEF OwnInv, Asks
  <2> QED BY <2>2, <2>3
<1> HIDE DEF g, row
<1> SUFFICES ASSUME NEW s \in Requests, txn'[s].at \in Working
             PROVE  rows'[txn'[s].game].status = "absent" <=> s[2] = "create"
  BY DEF OpenInv
<1>7. s # r /\ txn'[s] = txn[s] /\ txn[s].game \in Games
  BY <1>5 DEF Working, TypeInv, RequestInv
<1>8. CASE txn[s].game # g
  <2>1. rows'[txn[s].game] = rows[txn[s].game]
    BY <1>2, <1>7, <1>8 DEF TypeInv, TypeOK
  <2> QED BY <1>7, <2>1 DEF OpenInv
<1>9. CASE txn[s].game = g
  <2>1. rows'[g].status # "absent"
    BY <1>2, <1>3, <1>4 DEF TypeInv, TypeOK
  <2>2. s[2] # "create"
    BY <1>6, <1>7, <1>9 DEF Requests
  <2> QED BY <1>7, <1>9, <2>1, <2>2
<1> QED BY <1>8, <1>9

LEMMA OpenNext == TypeInv /\ SafeInv /\ OwnInv /\ OpenInv /\ [Next]_vars => OpenInv'
<1> SUFFICES ASSUME TypeInv, SafeInv, OwnInv, OpenInv, [Next]_vars PROVE OpenInv'
  OBVIOUS
<1>1. CASE Quiet
  BY <1>1, QuietIsOpen
<1>2. ASSUME NEW p \in Players, ClickCreate(p) PROVE OpenInv'
  BY <1>2, CreateIsOpen
<1>3. ASSUME NEW p \in Players, NEW op \in {"join", "cancel"}, ReadRow(p, op) PROVE OpenInv'
  BY <1>3, ReadIsOpen
<1>4. ASSUME NEW p \in Players, NEW op \in Ops, Commit(p, op) PROVE OpenInv'
  BY <1>4, CommitIsOpen
<1>5. CASE Restart
  BY <1>5 DEF Restart, Aborted, NoTxn, Working, OpenInv
<1> QED BY <1>1, <1>2, <1>3, <1>4, <1>5, OtherStepsAreQuiet

LEMMA JoinedForGood ==
    ASSUME TypeInv, SafeInv, OpenInv, [Next]_vars, NEW g \in Games, Settled(g)
    PROVE  Settled(g)'
<1>1. CASE Restart
  BY <1>1 DEF Restart, TypeInv, TypeOK, Settled
<1>2. ASSUME NEW q \in Players, ClickCreate(q) PROVE Settled(g)'
  <2>1. created' \in Games /\ created' > created /\ \A h \in Games : h # created' => rows'[h] = rows[h]
    BY <1>2, LobbyAssumption DEF ClickCreate, TypeInv, TypeOK, Games
  <2>2. rows[created'].status = "absent"
    BY <2>1 DEF SafeInv, Unborn
  <2> QED BY <2>1, <2>2 DEF Settled
<1>3. ASSUME NEW q \in Players, NEW op \in Ops, Commit(q, op) PROVE Settled(g)'
  <2>1. <<q, op>> \in Requests /\ <<q, op>>[2] = op
    BY NamedRequest
  <2>2. CASE txn[<<q, op>>].game # g
    BY <1>3, <2>2 DEF Commit, TypeInv, TypeOK, Settled
  <2>3. CASE txn[<<q, op>>].game = g
    <3>1. op # "create"
      BY <1>3, <2>1, <2>3 DEF Commit, OpenInv, Working, Settled
    <3>2. Written(q, op, rows[g]).status \in {"playing", "deleted"}
      BY <3>1, WrittenRow DEF Ops
    <3>3. rows'[g] = Written(q, op, rows[g])
      BY <1>3, <2>3 DEF Commit, TypeInv, TypeOK
    <3> QED BY <3>2, <3>3 DEF Settled
  <2> QED BY <2>2, <2>3
<1>4. CASE rows' = rows
  BY <1>4 DEF Settled
<1> QED BY <1>1, <1>2, <1>3, <1>4, WhoWrites

(* What a step without a fault does to the page of p and its request.      *)
Asking(p)    == poll[p] = NoPoll /\ poll'[p] = [game |-> client[p].polling, answer |-> "asked"]
Answering(p) == /\ poll[p].answer = "asked"
                /\ poll'[p] = [game |-> poll[p].game, answer |-> Status(poll[p].game)]
Taking(p)    == /\ poll[p].answer \in Results /\ poll'[p] = NoPoll
                /\ client'[p] = Follow(client[p], poll[p].game, poll[p].answer)

LEMMA PageMoves ==
    ASSUME TypeInv, [Next]_vars, faults' = faults, NEW p \in Players
    PROVE  \/ client'[p] = client[p] /\ (Asking(p) \/ Answering(p))
           \/ Taking(p)
           \/ /\ poll'[p] = poll[p]
              /\ \/ client'[p].polling \in {client[p].polling, 0}
                 \/ client'[p].polling = txn[<<p, "create">>].game
<1> DEFINE Rests == /\ poll'[p] = poll[p]
                    /\ \/ client'[p].polling \in {client[p].polling, 0}
                       \/ client'[p].polling = txn[<<p, "create">>].game
<1>1. faults \in Nat /\ ~Fault
  BY DEF TypeInv, TypeOK, Fault
<1>2. client \in [Players -> Browser] /\ poll \in [Players -> [game : 0 .. created, answer : {"idle", "asked"} \cup Results]]
  BY DEF TypeInv, TypeOK, Browser, Results
<1>3. ASSUME NEW q \in Players, Click(q) PROVE Rests
  <2>1. CASE ClickCreate(q) \/ \E g \in Games : ClickJoin(q, g)
    BY <2>1 DEF ClickCreate, ClickJoin
  <2>2. CASE ClickCancel(q)
    BY <1>2, <2>2 DEF ClickCancel, Fresh
  <2> QED BY <1>3, <2>1, <2>2 DEF Click
<1>4. ASSUME NEW q \in Players, Serve(q) PROVE Rests
  <2>1. CASE ReadRow(q, "join") \/ ReadRow(q, "cancel") \/ UpdateRow(q) \/ DeleteRow(q) \/ SaveBoard(q)
    BY <2>1 DEF ReadRow, UpdateRow, DeleteRow, SaveBoard
  <2>2. ASSUME NEW op \in Ops, Commit(q, op) PROVE Rests
    BY <2>2 DEF Commit
  <2> QED BY <1>4, <2>1, <2>2 DEF Serve
<1>5. ASSUME NEW q \in Players, Listen(q) PROVE Rests
  <2>1. poll' = poll
    BY <1>5 DEF Listen, ShowWaiting, EnterGame, ShowError, Hear
  <2>2. CASE ShowWaiting(q)
    BY <1>2, <2>1, <2>2 DEF ShowWaiting
  <2>3. CASE EnterGame(q)
    BY <1>2, <2>1, <2>3 DEF EnterGame
  <2>4. CASE ShowError(q)
    BY <2>1, <2>4 DEF ShowError
  <2> QED BY <1>5, <2>2, <2>3, <2>4 DEF Listen
<1>6. ASSUME NEW q \in Players, Ask(q) PROVE Rests \/ (client'[p] = client[p] /\ Asking(p))
  BY <1>2, <1>6 DEF Ask, Asking
<1>7. ASSUME NEW q \in Players, AnswerStatus(q)
      PROVE  Rests \/ (client'[p] = client[p] /\ Answering(p))
  BY <1>2, <1>7 DEF AnswerStatus, Answered, Answering
<1>8. ASSUME NEW q \in Players, TakeStatus(q) PROVE Rests \/ Taking(p)
  BY <1>2, <1>8 DEF TakeStatus, Take, Taking, Results
<1>9. ASSUME NEW q \in Players, LoseStatus(q) \/ Reload(q) \/ \E op \in Ops : FailCommit(q, op)
      PROVE  FALSE
  BY <1>1, <1>9 DEF LoseStatus, Reload, FailCommit
<1>10. ~Restart
  BY <1>1 DEF Restart
<1>11. CASE UNCHANGED vars
  BY <1>11 DEF vars
<1> QED BY <1>3, <1>4, <1>5, <1>6, <1>7, <1>8, <1>9, <1>10, <1>11 DEF Next

(* A page that has no request under way holds nothing of an earlier one.   *)
IdlePolls == \A p \in Players : poll[p].answer = "idle" => poll[p] = NoPoll

LEMMA IdleInit == Init => IdlePolls
  BY DEF Init, IdlePolls, NoPoll

LEMMA IdleNext == TypeInv /\ IdlePolls /\ [Next]_vars => IdlePolls'
<1> SUFFICES ASSUME TypeInv, IdlePolls, [Next]_vars, NEW p \in Players, poll'[p].answer = "idle"
             PROVE  poll'[p] = NoPoll
  BY DEF IdlePolls
<1>1. poll \in [Players -> [game : 0 .. created, answer : {"idle", "asked"} \cup Results]]
  BY DEF TypeInv, TypeOK, Results
<1>2. poll' = poll => poll'[p] = NoPoll
  BY DEF IdlePolls
<1>3. ASSUME NEW q \in Players, Click(q) \/ Serve(q) \/ Listen(q) \/ \E op \in Ops : FailCommit(q, op)
      PROVE  poll'[p] = NoPoll
  <2>1. CASE Click(q)
    BY <1>2, <2>1, Clicks DEF Click, ClickCreate, ClickJoin, ClickCancel
  <2>2. CASE ReadRow(q, "join") \/ ReadRow(q, "cancel") \/ UpdateRow(q) \/ DeleteRow(q) \/ SaveBoard(q)
    BY <1>2, <2>2 DEF ReadRow, UpdateRow, DeleteRow, SaveBoard
  <2>3. ASSUME NEW op \in Ops, Commit(q, op) \/ FailCommit(q, op) PROVE poll'[p] = NoPoll
    BY <1>2, <2>3 DEF Commit, FailCommit
  <2>4. CASE Listen(q)
    BY <1>2, <2>4 DEF Listen, ShowWaiting, EnterGame, ShowError, Hear
  <2> QED BY <1>3, <2>1, <2>2, <2>3, <2>4 DEF Serve
<1>4. ASSUME NEW q \in Players, Ask(q) PROVE poll'[p] = NoPoll
  BY <1>1, <1>4 DEF Ask, IdlePolls
<1>5. ASSUME NEW q \in Players, AnswerStatus(q) \/ LoseStatus(q) PROVE poll'[p] = NoPoll
  <2>1. CASE AnswerStatus(q)
    <3>1. Status(poll[q].game) # "idle"
      BY <2>1, StatusType DEF AnswerStatus, Answered, TypeInv, PollInv
    <3> QED BY <1>1, <2>1, <3>1 DEF AnswerStatus, Answered, IdlePolls
  <2>2. CASE LoseStatus(q)
    BY <1>1, <2>2 DEF LoseStatus, Answered, IdlePolls
  <2> QED BY <1>5, <2>1, <2>2
<1>6. ASSUME NEW q \in Players, TakeStatus(q) \/ Reload(q) PROVE poll'[p] = NoPoll
  BY <1>1, <1>6 DEF TakeStatus, Take, Reload, IdlePolls
<1>7. CASE Restart
  BY <1>1, <1>7 DEF Restart, IdlePolls
<1>8. CASE UNCHANGED vars
  BY <1>2, <1>8 DEF vars
<1> QED BY <1>3, <1>4, <1>5, <1>6, <1>7, <1>8 DEF Next

(* How far the request of a waiting page is: the page has asked for no     *)
(* game, for this one or for an earlier one; the answer ends the waiting,  *)
(* or is of no use.                                                        *)
Unasked(p, g)    == Waits(p, g) /\ poll[p] = NoPoll
Asked(p, g)      == Waits(p, g) /\ poll[p].answer = "asked" /\ poll[p].game = g
AskedOther(p, g) == Waits(p, g) /\ poll[p].answer = "asked" /\ poll[p].game # g
Told(p, g)       == Waits(p, g) /\ poll[p].answer \in {"playing", "finished", "missing"}
Useless(p, g)    == Waits(p, g) /\ poll[p].answer \in {"waiting", "lost"}

(* One step without a fault.                                               *)
LEMMA WaitingMoves ==
    ASSUME TypeInv, SafeInv, OpenInv, [Next]_vars, faults' = faults,
           NEW p \in Players, NEW g \in Games, Waits(p, g), client'[p].polling = g
    PROVE  /\ Unasked(p, g) => Unasked(p, g)' \/ Asked(p, g)'
           /\ Asked(p, g) => Asked(p, g)' \/ Told(p, g)'
           /\ AskedOther(p, g) => AskedOther(p, g)' \/ Told(p, g)' \/ Useless(p, g)'
           /\ Told(p, g) => Told(p, g)'
           /\ Useless(p, g) => Useless(p, g)' \/ Unasked(p, g)'
<1>1. Waits(p, g)'
  BY JoinedForGood DEF Waits
<1>2. CASE poll'[p] = poll[p]
  BY <1>1, <1>2 DEF Unasked, Asked, AskedOther, Told, Useless
<1>3. CASE Asking(p)
  BY <1>1, <1>3 DEF Asking, Waits, NoPoll, Unasked, Asked, AskedOther, Told, Useless
<1>4. CASE Answering(p)
  <2>1. Status(poll[p].game) \in {"waiting", "playing", "finished", "missing"}
    BY <1>4, StatusType DEF Answering, TypeInv, PollInv
  <2>2. poll[p].game = g => Status(poll[p].game) \in {"playing", "finished", "missing"}
    BY <2>1 DEF Waits, Settled, Status
  <2> QED BY <1>1, <1>4, <2>1, <2>2 DEF Answering, NoPoll, Unasked, Asked, AskedOther, Told, Useless
<1>5. CASE Taking(p)
  <2>1. poll[p].answer \notin {"playing", "finished", "missing"}
    <3>1. g # 0
      BY LobbyAssumption DEF Games
    <3>2. poll[p].answer \in {"finished", "missing"} => client'[p].polling = 0
      BY <1>5, FollowEnds DEF Taking
    <3>3. poll[p].answer = "playing" => client'[p].polling = 0
      BY <1>5 DEF Taking, Follow, Play
    <3> QED BY <3>1, <3>2, <3>3
  <2> QED BY <1>1, <1>5, <2>1 DEF Taking, Results, NoPoll, Unasked, Asked, AskedOther, Told, Useless
<1> QED BY <1>2, <1>3, <1>4, <1>5, PageMoves

(* The step that is due moves the request on.                              *)
LEMMA DueMoves ==
    ASSUME TypeInv, SafeInv, OpenInv, [Next]_vars, faults' = faults,
           NEW p \in Players, NEW g \in Games, Waits(p, g), client'[p].polling = g
    PROVE  /\ Unasked(p, g) /\ Ask(p) => Asked(p, g)'
           /\ Asked(p, g) /\ AnswerStatus(p) => Told(p, g)'
           /\ AskedOther(p, g) /\ AnswerStatus(p) => Told(p, g)' \/ Useless(p, g)'
           /\ ~(Told(p, g) /\ TakeStatus(p))
           /\ Useless(p, g) /\ TakeStatus(p) => Unasked(p, g)'
<1>1. poll \in [Players -> [game : 0 .. created, answer : {"idle", "asked"} \cup Results]]
  BY DEF TypeInv, TypeOK, Results
<1>2. ASSUME Unasked(p, g), Ask(p) PROVE Asked(p, g)'
  BY <1>1, <1>2, WaitingMoves DEF Unasked, Asked, Ask, NoPoll
<1>3. ASSUME poll[p].answer = "asked", AnswerStatus(p)
      PROVE  poll'[p].answer \in {"waiting", "playing", "finished", "missing"}
  <2>1. Status(poll[p].game) \in {"waiting", "playing", "finished", "missing"}
    BY <1>3, StatusType DEF TypeInv, PollInv
  <2> QED BY <1>1, <1>3, <2>1 DEF AnswerStatus, Answered
<1>4. TakeStatus(p) => poll'[p] = NoPoll
  BY <1>1 DEF TakeStatus, Take
<1> QED BY <1>2, <1>3, <1>4, WaitingMoves DEF Asked, AskedOther, Told, Useless, NoPoll

(* A page that waits for a game that was joined enters it, or gives it up, *)
(* if the faults come to an end, whatever requests race for the row:       *)
(* neither a request that was lost nor one for an earlier game ends        *)
(* pollForOpponent's interval (static/app.js 465-500).                     *)
THEOREM CreatorsArrive == FairSpec /\ []StepsAreEnabled /\ FaultsEnd => CreatorArrives
<1>1. ASSUME NEW p \in Players, NEW g \in Games
      PROVE  FairSpec /\ []StepsAreEnabled /\ FaultsEnd
                 => ((client[p].polling = g /\ rows[g].status = "playing")
                         ~> client[p].polling # g)
  <2> DEFINE Inv  == TypeInv /\ SafeInv /\ OwnInv /\ OpenInv /\ IdlePolls
             Left == client[p].polling # g
             Sound == faults' = faults
  <2>1. client[p].polling = g /\ rows[g].status = "playing" => Waits(p, g)
    BY DEF Waits, Settled
  <2>2. Inv /\ Waits(p, g)
        => Unasked(p, g) \/ Asked(p, g) \/ AskedOther(p, g) \/ Told(p, g) \/ Useless(p, g)
    BY DEF TypeInv, TypeOK, IdlePolls, Unasked, Asked, AskedOther, Told, Useless
  <2>3. Inv /\ [Next]_vars => Inv'
    BY TypeNext, SafeNext, OwnNext, OpenNext, IdleNext
  <2>4. Inv /\ [Next]_vars /\ Waits(p, g) => Waits(p, g)' \/ Left'
    BY JoinedForGood DEF Waits
  <2>5. Unasked(p, g) \/ Asked(p, g) \/ AskedOther(p, g) \/ Told(p, g) \/ Useless(p, g) => Waits(p, g)
    BY DEF Unasked, Asked, AskedOther, Told, Useless
  <2>6. Inv /\ [Next]_vars /\ [Sound]_vars
        => /\ Unasked(p, g) => Unasked(p, g)' \/ Asked(p, g)' \/ Left'
           /\ Asked(p, g) => Asked(p, g)' \/ Told(p, g)' \/ Left'
           /\ AskedOther(p, g) => AskedOther(p, g)' \/ Told(p, g)' \/ Useless(p, g)' \/ Left'
           /\ Told(p, g) => Told(p, g)' \/ Left'
           /\ Useless(p, g) => Useless(p, g)' \/ Unasked(p, g)' \/ Left'
    BY <2>5, WaitingMoves DEF vars
  <2>7. Inv /\ [Next]_vars /\ [Sound]_vars
        => /\ Unasked(p, g) /\ <<Ask(p)>>_vars => Asked(p, g)' \/ Left'
           /\ Asked(p, g) /\ <<AnswerStatus(p)>>_vars => Told(p, g)' \/ Left'
           /\ AskedOther(p, g) /\ <<AnswerStatus(p)>>_vars => Told(p, g)' \/ Useless(p, g)' \/ Left'
           /\ Told(p, g) /\ <<TakeStatus(p)>>_vars => Left'
           /\ Useless(p, g) /\ <<TakeStatus(p)>>_vars => Unasked(p, g)' \/ Left'
    BY <2>5, DueMoves DEF vars
  <2>8. StepsAreEnabled
        => /\ Unasked(p, g) => ENABLED <<Ask(p)>>_vars
           /\ Asked(p, g) \/ AskedOther(p, g) => ENABLED <<AnswerStatus(p)>>_vars
           /\ Told(p, g) \/ Useless(p, g) => ENABLED <<TakeStatus(p)>>_vars
    <3>1. Unasked(p, g) => client[p].polling # 0
      BY LobbyAssumption DEF Unasked, Waits, Games
    <3> QED BY <3>1 DEF StepsAreEnabled, Unasked, Asked, AskedOther, Told, Useless, Results
  <2>9. FairSpec => Spec /\ Fairness(p)
    BY DEF FairSpec
  <2>10. Init => Inv
    BY TypeInit, SafeInit, SeatInit, OpenInit, IdleInit
  <2> HIDE DEF Inv
  <2> QED BY <2>1, <2>2, <2>3, <2>4, <2>6, <2>7, <2>8, <2>9, <2>10, PTL DEF Spec, Fairness, FaultsEnd
<1> QED BY <1>1, LobbyAssumption DEF CreatorArrives

=============================================================================
