-------------------------- MODULE GameScreenProofs --------------------------
(***************************************************************************)
(* Theorems about GameScreen, for any connections, game length and bounds. *)
(***************************************************************************)
EXTENDS GameScreen, SequenceTheorems, TLAPS

USE GameScreenAssumption

-----------------------------------------------------------------------------
(* Type correctness.                                                       *)

(* A handler that records or sends has saved a move.                       *)
BusyHasMove == \A s \in Sockets : Busy(s) => job[s] >= 1

TypeInv == TypeOK /\ BusyHasMove

Links  == {"free", "opening", "open", "broken", "closing"}
Awaits == {"closed", "receive", "record", "send"}

(* connectWebSocket leaves the timers' connections free, and gives the     *)
(* page one of its own.                                                    *)
LEMMA ConnectType ==
    ASSUME TypeOK, NEW p \in Players, NEW timed \in SUBSET timers, ConnectWebSocket(p, timed)
    PROVE  /\ ws' \in [Players -> Sockets \cup {NoSocket}]
           /\ \A q \in Players : ws'[q] # NoSocket => Owner[ws'[q]] = q
           /\ link' \in [Sockets -> Links]
           /\ \A s \in timed : link'[s] = "free"
           /\ ws'[p] \in Spare(p, timed)
<1>1. PICK s \in Spare(p, timed) : ws' = [ws EXCEPT ![p] = s]
  BY DEF ConnectWebSocket
<1>2. s \in Sockets \ timed /\ Owner[s] = p
  BY <1>1 DEF Spare
<1>3. ws \in [Players -> Sockets \cup {NoSocket}]
  BY DEF TypeOK
<1>4. ws' \in [Players -> Sockets \cup {NoSocket}] /\ ws'[p] = s
  BY <1>1, <1>2, <1>3
<1>5. \A q \in Players : ws'[q] # NoSocket => Owner[ws'[q]] = q
  BY <1>1, <1>2, <1>3 DEF TypeOK
<1>6. link' = [t \in Sockets |-> IF t = s THEN "opening"
                                ELSE IF t \in Hangs(p) THEN "closing" ELSE link[t]]
  BY <1>4 DEF ConnectWebSocket
<1>7. link' \in [Sockets -> Links]
  BY <1>6 DEF TypeOK, Links
<1>8. \A t \in timed : link'[t] = "free"
  BY <1>2, <1>6 DEF TypeOK, Hangs
<1> QED BY <1>1, <1>4, <1>5, <1>7, <1>8

LEMMA ShowType ==
    ASSUME TypeOK, NEW p \in Players, NEW pieces \in Boards, Show(p, pieces)
    PROVE  shown' \in [Players -> Boards] /\ over' \in [Players -> BOOLEAN] /\ behind' \subseteq Players
<1>1. shown' \in [Players -> Boards]
  BY DEF TypeOK, Show
<1>2. over \in [Players -> BOOLEAN]
  BY DEF TypeOK
<1>3. (over[p] \/ pieces = GameLength) \in BOOLEAN
  OBVIOUS
<1>4. over' \in [Players -> BOOLEAN]
  BY <1>2, <1>3 DEF Show
<1>5. behind' \subseteq Players
  BY DEF TypeOK, Show
<1> QED BY <1>1, <1>4, <1>5

LEMMA MishapType == ASSUME TypeOK, Mishap PROVE mishaps' \in 0 .. MaxMishaps
  BY DEF TypeOK, Mishap

LEMMA ExceptAt ==
    ASSUME NEW S, NEW T, NEW f \in [S -> T], NEW x \in S, NEW y \in S, NEW v
    PROVE  [f EXCEPT ![x] = v][y] = IF x = y THEN v ELSE f[y]
  OBVIOUS

LEMMA OneMore ==
    ASSUME NEW S, NEW f \in [S -> Nat], NEW x \in S
    PROVE  [f EXCEPT ![x] = f[x] + 1] \in [S -> Nat]
  OBVIOUS

LEMMA TypeInit == Init => TypeInv
  BY DEF Init, TypeInv, TypeOK, BusyHasMove, Busy, Players, Boards

LEMMA TypeNext == TypeInv /\ [Next]_vars => TypeInv'
<1> SUFFICES ASSUME TypeOK, BusyHasMove, [Next]_vars PROVE TypeOK' /\ BusyHasMove'
  BY DEF TypeInv
<1>t. /\ asked \in [Players -> Nat] /\ clicks \in [Players -> Nat] /\ inbox \in [Sockets -> Nat]
      /\ attempts \in [Players -> 0 .. MaxAttempts] /\ 0 \in 0 .. MaxAttempts
      /\ job \in [Sockets -> Boards] /\ 0 \in Boards
      /\ serve \in [Sockets -> Awaits] /\ link \in [Sockets -> Links]
      /\ timers \subseteq {t \in Sockets : link[t] = "free"}
  BY DEF TypeOK, Boards, Awaits, Links
<1>p. ASSUME NEW p \in Players, StartGame(p) \/ Leave(p) \/ Click(p) PROVE TypeInv'
  <2>1. CASE StartGame(p)
    <3>1. ConnectWebSocket(p, timers) /\ timers \in SUBSET timers
      BY <2>1 DEF StartGame
    <3>2. /\ ws' \in [Players -> Sockets \cup {NoSocket}]
          /\ \A q \in Players : ws'[q] # NoSocket => Owner[ws'[q]] = q
          /\ link' \in [Sockets -> Links]
          /\ \A s \in timers : link'[s] = "free"
      BY <3>1, ConnectType
    <3>4. asked' \in [Players -> Nat]
      <4>1. asked' = [asked EXCEPT ![p] = asked[p] + 1]
        BY <2>1 DEF StartGame, RestoreGameState
      <4> QED BY <4>1, <1>t, OneMore
    <3>5. shown' \in [Players -> Boards]
      BY <2>1, <1>t DEF StartGame, TypeOK
    <3>6. over' \in [Players -> BOOLEAN]
      BY <2>1 DEF StartGame, TypeOK
    <3>3. /\ asked' \in [Players -> Nat] /\ shown' \in [Players -> Boards]
          /\ over' \in [Players -> BOOLEAN]
      BY <3>4, <3>5, <3>6
    <3> QED BY <2>1, <3>2, <3>3
          DEF StartGame, TypeInv, TypeOK, BusyHasMove, Busy, Links, server, counters
  <2>2. CASE Leave(p)
    <3>1. /\ mishaps' \in 0 .. MaxMishaps /\ over' \in [Players -> BOOLEAN]
          /\ ws' \in [Players -> Sockets \cup {NoSocket}]
      BY <2>2, MishapType DEF Leave, TypeOK
    <3>2. \A q \in Players : ws'[q] # NoSocket => Owner[ws'[q]] = q
      BY <2>2 DEF Leave, TypeOK
    <3>3. link' \in [Sockets -> Links] /\ \A s \in timers : link'[s] = "free"
      BY <2>2 DEF Leave, TypeOK, Links, Hangs
    <3> QED BY <2>2, <3>1, <3>2, <3>3
          DEF Leave, TypeInv, TypeOK, BusyHasMove, Busy, Links, server, requests
  <2>3. CASE Click(p)
    <3>1. clicks' \in [Players -> Nat] /\ inbox' \in [Sockets -> Nat]
      <4>1. /\ clicks' = [clicks EXCEPT ![p] = clicks[p] + 1]
            /\ inbox' = [inbox EXCEPT ![ws[p]] = inbox[ws[p]] + 1]
            /\ ws[p] \in Sockets
        BY <2>3 DEF Click, Live, Playing, TypeOK
      <4> QED BY <4>1, <1>t, OneMore
    <3>2. mishaps' \in 0 .. MaxMishaps
      BY <2>3, MishapType DEF Click, TypeOK
    <3> QED BY <2>3, <3>1, <3>2 DEF Click, TypeInv, TypeOK, BusyHasMove, Busy, server, page, requests
  <2> QED BY <1>p, <2>1, <2>2, <2>3
<1>m. ASSUME NEW s \in Sockets, Message(s) PROVE TypeInv'
  <2>1. Head(mail[s]) \in Boards /\ mail' \in [Sockets -> Seq(1 .. GameLength)]
    <3>1. /\ mail \in [Sockets -> Seq(1 .. GameLength)] /\ mail[s] # <<>>
          /\ mail' = [mail EXCEPT ![s] = Tail(mail[s])]
      BY <1>m DEF Message, TypeOK
    <3>2. Head(mail[s]) \in 1 .. GameLength /\ Tail(mail[s]) \in Seq(1 .. GameLength)
      <4>1. mail[s] \in Seq(1 .. GameLength)
        BY <3>1
      <4> QED BY <3>1, <4>1, HeadTailProperties
    <3> QED BY <3>1, <3>2 DEF Boards
  <2>2. Owner[s] \in Players
    BY DEF Players
  <2>3. shown' \in [Players -> Boards] /\ over' \in [Players -> BOOLEAN] /\ behind' \subseteq Players
    BY <1>m, <2>1, <2>2, ShowType DEF Message
  <2>4. attempts' \in [Players -> 0 .. MaxAttempts]
    BY <1>m, <1>t DEF Message
  <2> QED BY <1>m, <2>1, <2>3, <2>4
        DEF Message, TypeInv, TypeOK, BusyHasMove, Busy, server, requests, counters
<1>a. ASSUME NEW p \in Players, TakeAnswer(p) PROVE TypeInv'
  <2>1. PICK pieces \in answers[p] :
            Show(p, pieces) /\ answers' = [answers EXCEPT ![p] = @ \ {pieces}]
    BY <1>a DEF TakeAnswer
  <2>2. pieces \in Boards /\ answers' \in [Players -> SUBSET Boards]
    BY <2>1 DEF TypeOK
  <2>3. shown' \in [Players -> Boards] /\ over' \in [Players -> BOOLEAN] /\ behind' \subseteq Players
    BY <2>1, <2>2, ShowType
  <2> QED BY <1>a, <2>2, <2>3
        DEF TakeAnswer, TypeInv, TypeOK, BusyHasMove, Busy, server, network, counters
<1>c. ASSUME NEW s \in Sockets, Close(s) PROVE TypeInv'
  <2>1. Owner[s] \in Players
    BY DEF Players
  <2>2. attempts' \in [Players -> 0 .. MaxAttempts]
    <3>1. attempts \in [Players -> 0 .. MaxAttempts]
      BY DEF TypeOK
    <3>2. CASE Retries(Owner[s])
      BY <1>c, <2>1, <3>1, <3>2 DEF Close, Retries
    <3>3. CASE ~Retries(Owner[s])
      BY <1>c, <3>1, <3>3 DEF Close
    <3> QED BY <3>2, <3>3
  <2>3. link' \in [Sockets -> Links] /\ mail' \in [Sockets -> Seq(1 .. GameLength)]
    BY <1>c DEF Close, TypeOK, Links
  <2>4. timers' \subseteq timers \cup {s} /\ \A t \in timers \cup {s} : link'[t] = "free"
    BY <1>c DEF Close, TypeOK
  <2>5. timers' \subseteq {t \in Sockets : link'[t] = "free"}
    BY <2>4 DEF TypeOK
  <2> QED BY <1>c, <2>2, <2>3, <2>5
        DEF Close, TypeInv, TypeOK, BusyHasMove, Busy, Links, server, requests, counters
<1>r. ASSUME NEW s \in Sockets, Reconnect(s) PROVE TypeInv'
  <2>1. Owner[s] \in Players /\ timers' \in SUBSET timers
    BY <1>r DEF Reconnect, Players
  <2>2. CASE StillWanted(s)
    <3>1. ConnectWebSocket(Owner[s], timers') /\ FetchBoard(Owner[s])
      BY <1>r, <2>2 DEF Reconnect
    <3>2. /\ ws' \in [Players -> Sockets \cup {NoSocket}]
          /\ \A q \in Players : ws'[q] # NoSocket => Owner[ws'[q]] = q
          /\ link' \in [Sockets -> Links]
          /\ \A t \in timers' : link'[t] = "free"
      BY <2>1, <3>1, ConnectType
    <3>3. asked' \in [Players -> Nat]
      <4>1. asked' = [asked EXCEPT ![Owner[s]] = asked[Owner[s]] + 1]
        BY <3>1 DEF FetchBoard, RestoreGameState
      <4> QED BY <2>1, <4>1, <1>t, OneMore
    <3>4. timers' \in SUBSET Sockets
      BY <1>t, <2>1
    <3>5. /\ UNCHANGED <<server, inbox, mail, shown, over, attempts, answers, counters>>
          /\ behind' \subseteq behind
      BY <1>r, <2>2 DEF Reconnect
    <3>6. BusyHasMove'
      BY <3>5 DEF BusyHasMove, Busy, server
    <3> QED BY <3>2, <3>3, <3>4, <3>5, <3>6
          DEF TypeInv, TypeOK, Links, server, counters
  <2>3. CASE ~StillWanted(s)
    <3>1. UNCHANGED <<server, link, inbox, mail, ws, shown, over, attempts, asked, answers, behind, counters>>
      BY <1>r, <2>3 DEF Reconnect
    <3>2. timers' \subseteq {t \in Sockets : link'[t] = "free"}
      BY <1>t, <2>1, <3>1
    <3>3. BusyHasMove'
      BY <3>1 DEF BusyHasMove, Busy, server
    <3> QED BY <3>1, <3>2, <3>3 DEF TypeInv, TypeOK, server, counters
  <2> QED BY <2>2, <2>3
<1>s. ASSUME NEW s \in Sockets, Accept(s) \/ HangUp(s) \/ Break(s) PROVE TypeInv'
  <2>1. serve' \in [Sockets -> Awaits]
    <3>1. CASE Accept(s)
      BY <3>1, <1>t DEF Accept, Awaits
    <3>2. CASE HangUp(s)
      BY <3>2, <1>t DEF HangUp, Awaits
    <3>3. CASE Break(s)
      BY <3>3, <1>t DEF Break, server
    <3> QED BY <1>s, <3>1, <3>2, <3>3
  <2>2. link' \in [Sockets -> Links] /\ timers' \subseteq {t \in Sockets : link'[t] = "free"}
    <3>1. CASE Accept(s)
      BY <3>1, <1>t DEF Accept, Links, page
    <3>2. CASE HangUp(s)
      BY <3>2, <1>t DEF HangUp, network, page
    <3>3. CASE Break(s)
      BY <3>3, <1>t DEF Break, Links, page
    <3> QED BY <1>s, <3>1, <3>2, <3>3
  <2>3. \A t \in Sockets : Busy(t)' => Busy(t)
    BY <1>s DEF Accept, HangUp, Break, TypeOK, Busy, server
  <2>4. mishaps' \in 0 .. MaxMishaps
    BY <1>s, MishapType DEF Accept, HangUp, Break, counters, TypeOK
  <2>5. UNCHANGED <<board, job, todo, inbox, mail, page, requests, behind, clicks>>
    BY <1>s DEF Accept, HangUp, Break, server, network, counters
  <2> QED BY <2>1, <2>2, <2>3, <2>4, <2>5
        DEF TypeInv, TypeOK, BusyHasMove, Awaits, Links, page, requests
<1>v. ASSUME NEW s \in Sockets, SaveMove(s) PROVE TypeInv'
  <2>1. board \in Nat /\ board' = board + 1 /\ board' \in Boards
    BY <1>v DEF SaveMove, TypeOK, Boards
  <2>2. /\ serve' = [serve EXCEPT ![s] = "record"] /\ job' = [job EXCEPT ![s] = board']
        /\ inbox[s] > 0 /\ inbox' = [inbox EXCEPT ![s] = inbox[s] - 1]
    BY <1>v DEF SaveMove
  <2>3. serve' \in [Sockets -> Awaits] /\ job' \in [Sockets -> Boards]
    BY <2>1, <2>2 DEF TypeOK, Awaits
  <2>4. inbox' \in [Sockets -> Nat]
    <3>1. inbox \in [Sockets -> Nat] /\ inbox[s] - 1 \in Nat
      BY <2>2 DEF TypeOK
    <3> QED BY <2>2, <3>1
  <2>5. BusyHasMove'
    BY <2>1, <2>2 DEF BusyHasMove, Busy, TypeOK
  <2> QED BY <1>v, <2>1, <2>3, <2>4, <2>5
        DEF SaveMove, TypeInv, TypeOK, Awaits, page, requests, counters
<1>f. ASSUME NEW s \in Sockets, Refuse(s) PROVE TypeInv'
  <2>1. inbox' \in [Sockets -> Nat]
    <3>1. inbox \in [Sockets -> Nat] /\ inbox[s] - 1 \in Nat
      BY <1>f DEF TypeOK, Refuse
    <3> QED BY <1>f, <3>1 DEF Refuse
  <2> QED BY <1>f, <2>1 DEF Refuse, TypeInv, TypeOK, BusyHasMove, Busy, server, page, requests, counters
<1>b. ASSUME NEW s \in Sockets, NEW rest \in SUBSET Sockets, Remaining(s, rest), Busy(s)
      PROVE  /\ todo' \in [Sockets -> SUBSET Sockets] /\ serve' \in [Sockets -> Awaits]
             /\ job' \in [Sockets -> Boards] /\ BusyHasMove'
  <2>1. todo' \in [Sockets -> SUBSET Sockets] /\ serve' \in [Sockets -> Awaits]
    BY <1>b DEF Remaining, TypeOK, Awaits
  <2>2. job' \in [Sockets -> Boards]
    BY <1>b, <1>t DEF Remaining
  <2>3. BusyHasMove'
    BY <1>b DEF Remaining, BusyHasMove, Busy, TypeOK
  <2> QED BY <2>1, <2>2, <2>3
<1>d. ASSUME NEW s \in Sockets, Broadcast(s) PROVE TypeInv'
  <2>1. Remaining(s, Room) /\ Room \in SUBSET Sockets /\ Busy(s)
    BY <1>d DEF Broadcast, Audience, Room, Busy
  <2>2. behind' \subseteq Players
    BY <1>d DEF Broadcast, TypeOK
  <2> QED BY <1>b, <1>d, <2>1, <2>2
        DEF Broadcast, TypeInv, TypeOK, Awaits, network, page, requests, counters
<1>e. ASSUME NEW s \in Sockets, NEW t \in Sockets, SendTo(s, t) PROVE TypeInv'
  <2>1. Remaining(s, todo[s] \ {t}) /\ todo[s] \ {t} \in SUBSET Sockets /\ Busy(s)
    BY <1>e DEF SendTo, TypeOK, Busy
  <2>2. job[s] \in 1 .. GameLength
    BY <2>1 DEF BusyHasMove, TypeOK, Boards
  <2>3. mail' \in [Sockets -> Seq(1 .. GameLength)]
    BY <1>e, <2>2 DEF SendTo, TypeOK
  <2> QED BY <1>b, <1>e, <2>1, <2>3
        DEF SendTo, TypeInv, TypeOK, Awaits, page, requests, counters
<1>g. ASSUME NEW p \in Players, Answer(p) PROVE TypeInv'
  <2>1. asked' \in [Players -> Nat]
    BY <1>g DEF Answer, TypeOK
  <2>2. answers' \in [Players -> SUBSET Boards]
    BY <1>g DEF Answer, TypeOK
  <2> QED BY <1>g, <2>1, <2>2
        DEF Answer, TypeInv, TypeOK, BusyHasMove, Busy, server, network, page, counters
<1>l. ASSUME NEW p \in Players, LoseAnswer(p) PROVE TypeInv'
  <2>1. asked' \in [Players -> Nat]
    BY <1>l DEF LoseAnswer, TypeOK
  <2>2. mishaps' \in 0 .. MaxMishaps
    BY <1>l, MishapType DEF LoseAnswer
  <2>3. behind' \subseteq Players
    BY <1>l DEF LoseAnswer, TypeOK
  <2> QED BY <1>l, <2>1, <2>2, <2>3
        DEF LoseAnswer, TypeInv, TypeOK, BusyHasMove, Busy, server, network, page
<1>h. ASSUME Restart PROVE TypeInv'
  <2>1. mishaps' \in 0 .. MaxMishaps
    BY <1>h, MishapType DEF Restart
  <2>2. /\ serve' \in [Sockets -> Awaits] /\ job' \in [Sockets -> Boards]
        /\ todo' \in [Sockets -> SUBSET Sockets] /\ inbox' \in [Sockets -> Nat]
        /\ asked' \in [Players -> Nat]
    BY <1>h DEF Restart, Awaits, Boards
  <2>3. link' \in [Sockets -> Links] /\ timers' \subseteq {t \in Sockets : link'[t] = "free"}
    BY <1>h DEF Restart, TypeOK, Links, page
  <2>4. BusyHasMove'
    BY <1>h DEF Restart, BusyHasMove, Busy
  <2> QED BY <1>h, <2>1, <2>2, <2>3, <2>4
        DEF Restart, TypeInv, TypeOK, Awaits, Links, page
<1>u. ASSUME UNCHANGED vars PROVE TypeInv'
  BY <1>u DEF TypeInv, TypeOK, BusyHasMove, Busy, vars, server, network, page, requests, counters
<1> QED BY <1>p, <1>m, <1>a, <1>c, <1>r, <1>s, <1>v, <1>f, <1>d, <1>e, <1>g, <1>l, <1>h, <1>u
      DEF Next, Step, SocketStep, PageStep, TypeInv

(* Every variable of the two pages, the network and the server keeps its   *)
(* type.                                                                   *)
THEOREM TypeCorrect == Spec => []TypeOK
<1>1. Spec => []TypeInv
  BY TypeInit, TypeNext, PTL DEF Spec
<1>2. TypeInv => TypeOK
  BY DEF TypeInv
<1> QED BY <1>1, <1>2, PTL
-----------------------------------------------------------------------------
(* A live page keeps its connection.                                       *)

(* A step of another page changes neither a page's connection nor the link *)
(* of it.                                                                  *)
LEMMA ConnectOther ==
    ASSUME TypeOK, NEW p \in Players, NEW timed, ConnectWebSocket(p, timed),
           NEW q \in Players, q # p
    PROVE  ws'[q] = ws[q] /\ (Playing(q) => link'[ws[q]] = link[ws[q]])
<1>1. PICK s \in Spare(p, timed) : ws' = [ws EXCEPT ![p] = s]
  BY DEF ConnectWebSocket
<1>2. s \in Sockets /\ Owner[s] = p /\ ws'[p] = s
  BY <1>1 DEF Spare, TypeOK
<1>3. ws'[q] = ws[q]
  BY <1>1 DEF TypeOK
<1>4. ASSUME Playing(q) PROVE link'[ws[q]] = link[ws[q]]
  <2>1. ws[q] \in Sockets /\ Owner[ws[q]] = q
    BY <1>4 DEF Playing, TypeOK
  <2>2. ws[q] # s
    BY <1>2, <2>1
  <2>3. ws[q] \notin Hangs(p)
    BY <2>1 DEF Hangs, Playing, TypeOK
  <2> QED BY <1>2, <2>1, <2>2, <2>3 DEF ConnectWebSocket
<1> QED BY <1>3, <1>4

LEMMA KeepsStep ==
    TypeInv /\ [Next]_vars =>
        \A p \in Players : Live(p) /\ Playing(p)' => ws'[p] = ws[p]
<1> SUFFICES ASSUME TypeOK, [Next]_vars, NEW p \in Players, Live(p), Playing(p)'
             PROVE  ws'[p] = ws[p]
  BY DEF TypeInv
<1>1. ASSUME NEW q \in Players, StartGame(q) PROVE ws'[p] = ws[p]
  <2>1. ~Playing(q) /\ ConnectWebSocket(q, timers)
    BY <1>1 DEF StartGame
  <2> QED BY <2>1, ConnectOther DEF Live
<1>2. ASSUME NEW q \in Players, Leave(q) PROVE ws'[p] = ws[p]
  BY <1>2 DEF Leave, Playing, TypeOK
<1>3. ASSUME NEW s \in Sockets, Reconnect(s) PROVE ws'[p] = ws[p]
  <2>1. CASE StillWanted(s)
    <3>1. link[s] = "free" /\ ws[Owner[s]] = s /\ Owner[s] \in Players
      BY <1>3, <2>1 DEF Reconnect, StillWanted, TypeOK, Players
    <3>2. p # Owner[s]
      BY <3>1 DEF Live
    <3>3. ConnectWebSocket(Owner[s], timers')
      BY <1>3, <2>1 DEF Reconnect
    <3> QED BY <3>1, <3>2, <3>3, ConnectOther
  <2>2. CASE ~StillWanted(s)
    BY <1>3, <2>2 DEF Reconnect
  <2> QED BY <2>1, <2>2
<1>4. ASSUME NEW s \in Sockets, SocketStep(s), ~Reconnect(s) PROVE ws' = ws
  BY <1>4 DEF SocketStep, Message, Close, Accept, SaveMove, Refuse, Broadcast, SendTo, HangUp,
              page, network, server
<1>5. ASSUME NEW q \in Players, PageStep(q) \/ Click(q) \/ LoseAnswer(q) PROVE ws' = ws
  BY <1>5 DEF PageStep, Answer, TakeAnswer, Click, LoseAnswer, page
<1>6. ASSUME NEW s \in Sockets, Break(s) PROVE ws' = ws
  BY <1>6 DEF Break, page
<1>7. ASSUME Restart PROVE ws' = ws
  BY <1>7 DEF Restart, page
<1>8. ASSUME UNCHANGED vars PROVE ws' = ws
  BY <1>8 DEF vars, page
<1> QED BY <1>1, <1>2, <1>3, <1>4, <1>5, <1>6, <1>7, <1>8 DEF Next, Step

(* No timer that an old connection left behind closes the connection of a  *)
(* page that plays (app.js 1216-1221).                                     *)
THEOREM TimersAreHarmless == Spec => KeepsItsConnection
<1>1. TypeInv /\ [Next]_vars =>
          [\A p \in Players : Live(p) /\ Playing(p)' => ws'[p] = ws[p]]_vars
  BY KeepsStep
<1> QED BY <1>1, TypeInit, TypeNext, PTL DEF Spec, KeepsItsConnection
-----------------------------------------------------------------------------
(* Connections and their two ends.                                         *)

Attached ==
    /\ \A s \in Sockets : link[s] \in {"opening", "open", "broken"} => ws[Owner[s]] = s
    /\ \A s \in Sockets : link[s] = "opening" => serve[s] = "closed"
    /\ \A s \in Sockets : link[s] = "open" => serve[s] # "closed"

(* No broadcast has a connection on its list that is not open yet.         *)
Unlisted == \A s \in Sockets : link[s] = "opening" => \A t \in Sockets : s \notin todo[t]

LEMMA ConnectAttaches ==
    ASSUME TypeOK, Attached, NEW p \in Players, NEW timed, ConnectWebSocket(p, timed),
           serve' = serve
    PROVE  Attached' /\ link'[ws'[p]] = "opening"
<1>1. PICK s \in Spare(p, timed) : ws' = [ws EXCEPT ![p] = s]
  BY DEF ConnectWebSocket
<1>2. s \in Sockets /\ Owner[s] = p /\ ws'[p] = s /\ serve[s] = "closed"
  BY <1>1 DEF Spare, TypeOK
<1>3. link' = [t \in Sockets |-> IF t = s THEN "opening"
                                ELSE IF t \in Hangs(p) THEN "closing" ELSE link[t]]
  BY <1>2 DEF ConnectWebSocket
<1>4. ASSUME NEW t \in Sockets, t # s, link'[t] \in {"opening", "open", "broken"}
      PROVE  ws'[Owner[t]] = t /\ link'[t] = link[t]
  <2>1. link'[t] = link[t] /\ t \notin Hangs(p)
    BY <1>3, <1>4
  <2>2. ws[Owner[t]] = t
    BY <1>4, <2>1 DEF Attached
  <2>3. Owner[t] # p
    BY <1>4, <2>1, <2>2 DEF Hangs, Playing
  <2>4. Owner[t] \in Players
    BY DEF Players
  <2> QED BY <1>1, <2>1, <2>2, <2>3, <2>4 DEF TypeOK
<1>5. link'[s] = "opening"
  BY <1>2, <1>3
<1> QED BY <1>2, <1>4, <1>5 DEF Attached

LEMMA AttachedInit == Init => Attached /\ Unlisted
  BY DEF Init, Attached, Unlisted

LEMMA AttachedNext == TypeInv /\ Attached /\ [Next]_vars => Attached'
<1> SUFFICES ASSUME TypeOK, Attached, [Next]_vars PROVE Attached'
  BY DEF TypeInv
<1>1. ASSUME NEW p \in Players, StartGame(p) PROVE Attached'
  BY <1>1, ConnectAttaches DEF StartGame, server
<1>2. ASSUME NEW p \in Players, Leave(p) PROVE Attached'
  <2>1. ASSUME NEW t \in Sockets, link'[t] \in {"opening", "open", "broken"}
        PROVE  ws'[Owner[t]] = t /\ link'[t] = link[t]
    <3>1. link'[t] = link[t] /\ t \notin Hangs(p)
      BY <1>2, <2>1 DEF Leave
    <3>2. ws[Owner[t]] = t /\ Owner[t] \in Players
      BY <2>1, <3>1 DEF Attached, Players
    <3>3. Owner[t] # p
      BY <1>2, <2>1, <3>1, <3>2 DEF Hangs, Leave
    <3> QED BY <1>2, <3>1, <3>2, <3>3 DEF Leave, TypeOK
  <2>2. serve' = serve
    BY <1>2 DEF Leave, server
  <2> QED BY <2>1, <2>2 DEF Attached
<1>3. ASSUME NEW s \in Sockets, Reconnect(s) PROVE Attached'
  <2>1. serve' = serve /\ Owner[s] \in Players
    BY <1>3 DEF Reconnect, server, Players
  <2>2. CASE StillWanted(s)
    BY <1>3, <2>1, <2>2, ConnectAttaches DEF Reconnect
  <2>3. CASE ~StillWanted(s)
    BY <1>3, <2>1, <2>3 DEF Reconnect, Attached
  <2> QED BY <2>2, <2>3
<1>4. ASSUME NEW s \in Sockets, Accept(s) PROVE Attached'
  BY <1>4 DEF Accept, Attached, TypeOK, page
<1>5. ASSUME NEW s \in Sockets, HangUp(s) PROVE Attached'
  BY <1>5 DEF HangUp, Attached, TypeOK, network, page
<1>6. ASSUME NEW s \in Sockets, Break(s) PROVE Attached'
  BY <1>6 DEF Break, Attached, TypeOK, server, page
<1>7. ASSUME NEW s \in Sockets, Close(s) PROVE Attached'
  BY <1>7 DEF Close, Attached, TypeOK, server
<1>8. ASSUME Restart PROVE Attached'
  BY <1>8 DEF Restart, Attached, TypeOK, page
<1>9. ASSUME NEW s \in Sockets, serve[s] # "closed",
             serve' = [serve EXCEPT ![s] = serve'[s]], serve'[s] # "closed",
             link' = link, ws' = ws
      PROVE  Attached'
  BY <1>9 DEF Attached, TypeOK
<1>10. ASSUME NEW s \in Sockets, NEW rest, Remaining(s, rest), serve[s] # "closed",
              link' = link, ws' = ws
       PROVE  Attached'
  <2>1. serve' = [serve EXCEPT ![s] = serve'[s]] /\ serve'[s] # "closed"
    BY <1>10 DEF Remaining, TypeOK
  <2> QED BY <1>9, <1>10, <2>1
<1>11. ASSUME NEW s \in Sockets, SaveMove(s) PROVE Attached'
  <2>1. serve' = [serve EXCEPT ![s] = serve'[s]] /\ serve'[s] # "closed"
    BY <1>11 DEF SaveMove, TypeOK
  <2> QED BY <1>9, <1>11, <2>1 DEF SaveMove, page
<1>12. ASSUME NEW s \in Sockets, Broadcast(s) PROVE Attached'
  BY <1>10, <1>12 DEF Broadcast, network, page
<1>13. ASSUME NEW s \in Sockets, NEW t \in Sockets, SendTo(s, t) PROVE Attached'
  BY <1>10, <1>13 DEF SendTo, page
<1>14. ASSUME UNCHANGED <<ws, link, serve>> PROVE Attached'
  BY <1>14 DEF Attached
<1>15. ASSUME NEW s \in Sockets, Message(s) \/ Refuse(s) PROVE UNCHANGED <<ws, link, serve>>
  BY <1>15 DEF Message, Refuse, server, page
<1>16. ASSUME NEW p \in Players, PageStep(p) \/ Click(p) \/ LoseAnswer(p)
       PROVE  UNCHANGED <<ws, link, serve>>
  BY <1>16 DEF PageStep, Answer, TakeAnswer, Click, LoseAnswer, server, network, page
<1>17. ASSUME UNCHANGED vars PROVE UNCHANGED <<ws, link, serve>>
  BY <1>17 DEF vars, server, network, page
<1> QED BY <1>1, <1>2, <1>3, <1>4, <1>5, <1>6, <1>7, <1>8, <1>11, <1>12, <1>13, <1>14, <1>15,
           <1>16, <1>17 DEF Next, Step, SocketStep

LEMMA ConnectUnlisted ==
    ASSUME TypeOK, Unlisted, NEW p \in Players, NEW timed, ConnectWebSocket(p, timed), todo' = todo
    PROVE  Unlisted'
<1>1. PICK s \in Spare(p, timed) : ws' = [ws EXCEPT ![p] = s]
  BY DEF ConnectWebSocket
<1>2. ws'[p] = s /\ \A t \in Sockets : s \notin todo[t]
  BY <1>1 DEF Spare, TypeOK
<1>3. \A u \in Sockets : link'[u] = "opening" => u = s \/ link[u] = "opening"
  BY <1>2 DEF ConnectWebSocket
<1> QED BY <1>2, <1>3 DEF Unlisted

LEMMA UnlistedNext == TypeInv /\ Attached /\ Unlisted /\ [Next]_vars => Unlisted'
<1> SUFFICES ASSUME TypeOK, Attached, Unlisted, [Next]_vars PROVE Unlisted'
  BY DEF TypeInv
<1>1. ASSUME todo' = todo, \A s \in Sockets : link'[s] = "opening" => link[s] = "opening"
      PROVE  Unlisted'
  BY <1>1 DEF Unlisted
<1>2. ASSUME NEW p \in Players, StartGame(p) PROVE Unlisted'
  BY <1>2, ConnectUnlisted DEF StartGame, server
<1>3. ASSUME NEW s \in Sockets, Reconnect(s) PROVE Unlisted'
  <2>1. todo' = todo /\ Owner[s] \in Players
    BY <1>3 DEF Reconnect, server, Players
  <2>2. CASE StillWanted(s)
    BY <1>3, <2>1, <2>2, ConnectUnlisted DEF Reconnect
  <2>3. CASE ~StillWanted(s)
    BY <1>1, <1>3, <2>1, <2>3 DEF Reconnect
  <2> QED BY <2>2, <2>3
<1>4. ASSUME NEW p \in Players, Leave(p) \/ Click(p) \/ PageStep(p) \/ LoseAnswer(p) PROVE Unlisted'
  <2>1. todo' = todo /\ \A s \in Sockets : link'[s] = "opening" => link[s] = "opening"
    BY <1>4 DEF Leave, Click, PageStep, Answer, TakeAnswer, LoseAnswer, server, network
  <2> QED BY <1>1, <2>1
<1>5. ASSUME NEW s \in Sockets, Message(s) \/ Close(s) \/ Accept(s) \/ SaveMove(s) \/ Refuse(s)
                                \/ HangUp(s) \/ Break(s)
      PROVE  Unlisted'
  <2>1. todo' = todo
    BY <1>5 DEF Message, Close, Accept, SaveMove, Refuse, HangUp, Break, server
  <2>2. link' = link \/ \E state : link' = [link EXCEPT ![s] = state] /\ state # "opening"
    BY <1>5 DEF Message, Close, Accept, SaveMove, Refuse, HangUp, Break, network
  <2>3. \A t \in Sockets : link'[t] = "opening" => link[t] = "opening"
    BY <2>2 DEF TypeOK
  <2> QED BY <1>1, <2>1, <2>3
<1>6. ASSUME NEW s \in Sockets, Broadcast(s) PROVE Unlisted'
  <2>1. link' = link /\ todo' = [todo EXCEPT ![s] = Room]
    BY <1>6 DEF Broadcast, Remaining, Audience, network
  <2>2. \A t \in Sockets : link[t] = "opening" => t \notin Room
    BY DEF Attached, Room
  <2> QED BY <2>1, <2>2 DEF Unlisted, TypeOK
<1>7. ASSUME NEW s \in Sockets, NEW t \in Sockets, SendTo(s, t) PROVE Unlisted'
  <2>1. link' = link /\ todo' = [todo EXCEPT ![s] = todo[s] \ {t}]
    BY <1>7 DEF SendTo, Remaining
  <2> QED BY <2>1 DEF Unlisted, TypeOK
<1>8. ASSUME Restart PROVE Unlisted'
  BY <1>8 DEF Restart, Unlisted
<1>9. ASSUME UNCHANGED vars PROVE Unlisted'
  BY <1>1, <1>9 DEF vars, server, network
<1> QED BY <1>2, <1>3, <1>4, <1>5, <1>6, <1>7, <1>8, <1>9 DEF Next, Step, SocketStep
-----------------------------------------------------------------------------
(* Nothing is ahead of Redis.                                              *)
NoneAhead ==
    /\ \A s \in Sockets : job[s] <= board
    /\ \A p \in Players : shown[p] <= board /\ \A b \in answers[p] : b <= board
    /\ \A s \in Sockets : \A i \in 1 .. Len(mail[s]) : mail[s][i] <= board

LEMMA TailIsPart ==
    ASSUME NEW S, NEW m \in Seq(S), m # <<>>
    PROVE  /\ Head(m) = m[1] /\ Len(m) \in Nat /\ Len(m) >= 1 /\ Len(Tail(m)) = Len(m) - 1
           /\ \A i \in 1 .. Len(Tail(m)) : Tail(m)[i] = m[i + 1]
  OBVIOUS

LEMMA Element == ASSUME NEW S, NEW m \in Seq(S), NEW i \in 1 .. Len(m) PROVE m[i] \in S
  OBVIOUS

LEMMA AppendedPart ==
    ASSUME NEW S, NEW m \in Seq(S), NEW x \in S
    PROVE  /\ Len(Append(m, x)) = Len(m) + 1 /\ Len(m) \in Nat
           /\ Append(m, x)[Len(m) + 1] = x
           /\ \A i \in 1 .. Len(m) : Append(m, x)[i] = m[i]
  OBVIOUS

LEMMA AheadInit == Init => NoneAhead
  BY DEF Init, NoneAhead

LEMMA AheadNext == TypeInv /\ NoneAhead /\ [Next]_vars => NoneAhead'
<1> SUFFICES ASSUME TypeOK, BusyHasMove, NoneAhead, [Next]_vars PROVE NoneAhead'
  BY DEF TypeInv
<1>t. /\ board \in Nat /\ job \in [Sockets -> Boards] /\ shown \in [Players -> Boards]
      /\ answers \in [Players -> SUBSET Boards] /\ mail \in [Sockets -> Seq(1 .. GameLength)]
      /\ \A b \in Boards : b \in Nat
  BY DEF TypeOK, Boards
<1>q. ASSUME board' = board, job' = job, shown' = shown, answers' = answers, mail' = mail
      PROVE  NoneAhead'
  BY <1>q DEF NoneAhead
<1>1. ASSUME NEW p \in Players, StartGame(p) PROVE NoneAhead'
  <2>1. UNCHANGED <<board, job, answers, mail>> /\ shown' = [shown EXCEPT ![p] = 0]
    BY <1>1 DEF StartGame, server
  <2>2. \A q \in Players : shown'[q] <= board
    BY <1>t, <2>1 DEF NoneAhead
  <2> QED BY <2>1, <2>2 DEF NoneAhead
<1>2. ASSUME NEW p \in Players, Leave(p) \/ Click(p) \/ LoseAnswer(p) PROVE NoneAhead'
  BY <1>q, <1>2 DEF Leave, Click, LoseAnswer, server, network, page, requests
<1>3. ASSUME NEW s \in Sockets, Message(s) PROVE NoneAhead'
  <2>1. /\ UNCHANGED <<board, job, answers>> /\ mail[s] # <<>>
        /\ shown' = [shown EXCEPT ![Owner[s]] = Head(mail[s])]
        /\ mail' = [mail EXCEPT ![s] = Tail(mail[s])]
    BY <1>3 DEF Message, Show, server, requests
  <2>2. /\ Head(mail[s]) = mail[s][1] /\ Len(mail[s]) \in Nat /\ Len(mail[s]) >= 1
        /\ Len(Tail(mail[s])) = Len(mail[s]) - 1
        /\ \A i \in 1 .. Len(Tail(mail[s])) : Tail(mail[s])[i] = mail[s][i + 1]
    BY <1>t, <2>1, TailIsPart
  <2>3. Head(mail[s]) <= board
    BY <2>2 DEF NoneAhead
  <2>4. \A q \in Players : shown'[q] <= board
    BY <1>t, <2>1, <2>3 DEF NoneAhead
  <2>5. \A t \in Sockets : \A i \in 1 .. Len(mail'[t]) : mail'[t][i] <= board
    <3> SUFFICES ASSUME NEW t \in Sockets, NEW i \in 1 .. Len(mail'[t]) PROVE mail'[t][i] <= board
      OBVIOUS
    <3>1. mail'[t] = IF t = s THEN Tail(mail[s]) ELSE mail[t]
      BY <1>t, <2>1, ExceptAt
    <3>2. CASE t = s
      <4>1. i \in 1 .. Len(Tail(mail[s])) /\ i + 1 \in 1 .. Len(mail[s])
        BY <2>2, <3>1, <3>2
      <4>2. mail[s][i + 1] <= board
        BY <4>1 DEF NoneAhead
      <4> QED BY <2>2, <3>1, <3>2, <4>1, <4>2
    <3>3. CASE t # s
      BY <3>1, <3>3 DEF NoneAhead
    <3> QED BY <3>2, <3>3
  <2> QED BY <2>1, <2>4, <2>5 DEF NoneAhead
<1>4. ASSUME NEW p \in Players, TakeAnswer(p) PROVE NoneAhead'
  <2>1. /\ UNCHANGED <<board, job, mail>>
        /\ \E pieces \in answers[p] : /\ shown' = [shown EXCEPT ![p] = pieces]
                                      /\ answers' = [answers EXCEPT ![p] = answers[p] \ {pieces}]
    BY <1>4 DEF TakeAnswer, Show, server, network
  <2>2. \A q \in Players : shown'[q] <= board /\ answers'[q] \subseteq answers[q]
    BY <1>t, <2>1 DEF NoneAhead
  <2> QED BY <2>1, <2>2 DEF NoneAhead
<1>5. ASSUME NEW s \in Sockets, Close(s) PROVE NoneAhead'
  <2>1. UNCHANGED <<board, job, shown, answers>> /\ mail' = [mail EXCEPT ![s] = <<>>]
    BY <1>5 DEF Close, server, requests
  <2>2. \A t \in Sockets : \A i \in 1 .. Len(mail'[t]) : t # s /\ mail'[t] = mail[t]
    BY <1>t, <2>1
  <2> QED BY <2>1, <2>2 DEF NoneAhead
<1>6. ASSUME NEW s \in Sockets, Reconnect(s) \/ Accept(s) \/ Refuse(s) \/ HangUp(s) \/ Break(s)
      PROVE  NoneAhead'
  BY <1>q, <1>6 DEF Reconnect, Accept, Refuse, HangUp, Break, server, network, page, requests
<1>7. ASSUME NEW s \in Sockets, SaveMove(s) PROVE NoneAhead'
  <2>1. /\ board' = board + 1 /\ job' = [job EXCEPT ![s] = board + 1]
        /\ UNCHANGED <<shown, answers, mail>>
    BY <1>7 DEF SaveMove, page, requests
  <2>2. \A t \in Sockets : job'[t] <= board + 1
    BY <1>t, <2>1 DEF NoneAhead
  <2>3. \A p \in Players : shown[p] <= board + 1 /\ \A b \in answers[p] : b <= board + 1
    BY <1>t DEF NoneAhead
  <2>4. \A t \in Sockets : \A i \in 1 .. Len(mail[t]) : mail[t][i] <= board + 1
    <3> SUFFICES ASSUME NEW t \in Sockets, NEW i \in 1 .. Len(mail[t]) PROVE mail[t][i] <= board + 1
      OBVIOUS
    <3>1. mail[t] \in Seq(1 .. GameLength)
      BY <1>t
    <3>2. mail[t][i] \in 1 .. GameLength
      BY <3>1, Element
    <3>3. mail[t][i] \in Int /\ board \in Int
      <4>1. board \in Nat
        BY DEF TypeOK, Boards
      <4> QED BY <3>2, <4>1
    <3>4. mail[t][i] <= board
      BY DEF NoneAhead
    <3> QED BY <3>3, <3>4
  <2> QED BY <2>1, <2>2, <2>3, <2>4 DEF NoneAhead
<1>8. ASSUME NEW s \in Sockets, NEW rest, Remaining(s, rest) PROVE \A t \in Sockets : job'[t] <= board
  BY <1>t, <1>8 DEF Remaining, NoneAhead
<1>9. ASSUME NEW s \in Sockets, Broadcast(s) PROVE NoneAhead'
  <2>1. UNCHANGED <<board, shown, answers, mail>> /\ \A t \in Sockets : job'[t] <= board
    BY <1>8, <1>9 DEF Broadcast, network, page, requests
  <2> QED BY <2>1 DEF NoneAhead
<1>10. ASSUME NEW s \in Sockets, NEW u \in Sockets, SendTo(s, u) PROVE NoneAhead'
  <2>1. /\ UNCHANGED <<board, shown, answers>> /\ \A t \in Sockets : job'[t] <= board
        /\ Busy(s) /\ mail' \in {mail, [mail EXCEPT ![u] = Append(mail[u], job[s])]}
    BY <1>8, <1>10 DEF SendTo, page, requests, Busy
  <2>2. job[s] \in 1 .. GameLength /\ mail[u] \in Seq(1 .. GameLength)
    BY <1>t, <2>1 DEF BusyHasMove, Boards
  <2>3. /\ Len(Append(mail[u], job[s])) = Len(mail[u]) + 1 /\ Len(mail[u]) \in Nat
        /\ Append(mail[u], job[s])[Len(mail[u]) + 1] = job[s]
        /\ \A i \in 1 .. Len(mail[u]) : Append(mail[u], job[s])[i] = mail[u][i]
    BY <2>2, AppendedPart
  <2>4. \A i \in 1 .. Len(Append(mail[u], job[s])) : Append(mail[u], job[s])[i] <= board
    BY <2>3 DEF NoneAhead
  <2> HIDE DEF NoneAhead
  <2>5. \A t \in Sockets : \A i \in 1 .. Len(mail'[t]) : mail'[t][i] <= board
    <3>1. CASE mail' = mail
      BY <3>1 DEF NoneAhead
    <3>2. CASE mail' = [mail EXCEPT ![u] = Append(mail[u], job[s])]
      <4>1. \A t \in Sockets : mail'[t] = IF t = u THEN Append(mail[u], job[s]) ELSE mail[t]
        BY <1>t, <3>2, ExceptAt, Zenon
      <4>2. \A t \in Sockets : \A i \in 1 .. Len(mail[t]) : mail[t][i] <= board
        BY DEF NoneAhead
      <4> QED BY <2>4, <4>1, <4>2, Zenon
    <3> QED BY <2>1, <3>1, <3>2
  <2> QED BY <2>1, <2>5 DEF NoneAhead
<1>11. ASSUME NEW p \in Players, Answer(p) PROVE NoneAhead'
  <2>1. /\ UNCHANGED <<board, job, shown, mail>>
        /\ answers' = [answers EXCEPT ![p] = answers[p] \cup {board}]
    BY <1>11 DEF Answer, server, network, page
  <2>2. \A q \in Players : answers'[q] \subseteq answers[q] \cup {board}
    BY <1>t, <2>1
  <2> QED BY <1>t, <2>1, <2>2 DEF NoneAhead
<1>12. ASSUME Restart PROVE NoneAhead'
  <2>1. UNCHANGED <<board, shown, answers, mail>> /\ job' = [t \in Sockets |-> 0]
    BY <1>12 DEF Restart, page
  <2> QED BY <1>t, <2>1 DEF NoneAhead
<1>13. ASSUME UNCHANGED vars PROVE NoneAhead'
  BY <1>q, <1>13 DEF vars, server, network, page, requests
<1> QED BY <1>1, <1>2, <1>3, <1>4, <1>5, <1>6, <1>7, <1>9, <1>10, <1>11, <1>12, <1>13
        DEF Next, Step, SocketStep, PageStep
-----------------------------------------------------------------------------
(* The board that Redis has is on its way to every page that is not        *)
(* behind, or asked for, or shown.                                         *)

(* The handler of s has still to send to the connection of p.              *)
Due(p, s) == serve[s] = "record" \/ (serve[s] = "send" /\ ws[p] \in todo[s])

Informed(p) ==
    \/ asked[p] > 0
    \/ board \in answers[p] \cup {shown[p]}
    \/ \E i \in 1 .. Len(mail[ws[p]]) : mail[ws[p]][i] = board
    \/ \E s \in Sockets : Due(p, s) /\ job[s] = board

Linked(p) == Playing(p) /\ link[ws[p]] \in {"opening", "open"}

PagesInformed == \A p \in Players \ behind : Linked(p) => Informed(p)

LEMMA InformedInit == Init => PagesInformed
  BY DEF Init, PagesInformed, Linked, Playing

(* Showing a board loses nothing, if it leaves the page not behind.        *)
LEMMA ShowInforms ==
    ASSUME TypeOK, NoneAhead, NEW p \in Players, NEW pieces \in Boards, Show(p, pieces),
           pieces <= board, p \notin behind'
    PROVE  /\ p \notin behind \/ shown'[p] = board
           /\ board = shown[p] => shown'[p] = board
           /\ shown'[p] = pieces
<1>1. shown \in [Players -> Boards] /\ shown[p] \in Nat /\ pieces \in Nat /\ board \in Nat
  BY DEF TypeOK, Boards
<1>2. shown' = [shown EXCEPT ![p] = pieces] /\ shown'[p] = pieces
  BY <1>1 DEF Show
<1>3. pieces = board \/ ~(pieces < shown[p])
  BY DEF Show
<1>4. p \notin behind \/ pieces = board
  BY <1>3 DEF Show
<1>5. board = shown[p] => pieces = board
  BY <1>1, <1>3
<1>6. p \notin behind \/ shown'[p] = board
  BY <1>2, <1>4
<1>7. board = shown[p] => shown'[p] = board
  BY <1>2, <1>5
<1> QED BY <1>2, <1>6, <1>7

LEMMA ShowOther ==
    ASSUME TypeOK, NEW p \in Players, NEW pieces, Show(p, pieces), NEW q \in Players, q # p
    PROVE  shown'[q] = shown[q] /\ (q \in behind <=> q \in behind')
  BY DEF TypeOK, Show

LEMMA OwnConnection ==
    ASSUME TypeOK, NEW p \in Players, Playing(p)
    PROVE  ws[p] \in Sockets /\ Owner[ws[p]] = p
  BY DEF TypeOK, Playing

LEMMA InformedNext ==
    TypeInv /\ Attached /\ Unlisted /\ NoneAhead /\ PagesInformed /\ [Next]_vars => PagesInformed'
<1> SUFFICES ASSUME TypeOK, BusyHasMove, Attached, Unlisted, NoneAhead, PagesInformed, [Next]_vars,
                    NEW p \in Players, p \notin behind', Linked(p)'
             PROVE  Informed(p)'
  BY DEF TypeInv, PagesInformed
<1>1. /\ asked \in [Players -> Nat] /\ ws \in [Players -> Sockets \cup {NoSocket}]
      /\ mail \in [Sockets -> Seq(1 .. GameLength)] /\ shown \in [Players -> Boards]
      /\ answers \in [Players -> SUBSET Boards]
      /\ board \in Boards /\ job \in [Sockets -> Boards]
      /\ \A b \in Boards : b \in Nat
  BY DEF TypeOK, Boards
<1>2. ASSUME ws'[p] = ws[p], p \notin behind,
             ws[p] \in Sockets /\ link'[ws[p]] \in {"opening", "open"} => link[ws[p]] \in {"opening", "open"}
      PROVE  Informed(p) /\ Linked(p) /\ ws[p] \in Sockets /\ Owner[ws[p]] = p
  BY <1>2 DEF PagesInformed, Linked, Playing, TypeOK
<1>3. ASSUME Informed(p), UNCHANGED <<board, serve, job, todo>>,
             ws'[p] = ws[p], asked'[p] = asked[p], mail'[ws[p]] = mail[ws[p]],
             answers'[p] = answers[p], shown'[p] = shown[p]
      PROVE  Informed(p)'
  BY <1>3 DEF Informed, Due
<1>4. ASSUME UNCHANGED <<board, serve, job, todo, mail, shown, answers, asked, ws, behind>>,
             ws[p] \in Sockets /\ link'[ws[p]] \in {"opening", "open"} => link[ws[p]] \in {"opening", "open"}
      PROVE  Informed(p)'
  BY <1>2, <1>3, <1>4
<1>5. ASSUME NEW q \in Players, NEW timed, ConnectWebSocket(q, timed),
             asked' = [asked EXCEPT ![q] = asked[q] + 1], behind' = behind \ {q},
             UNCHANGED <<board, serve, job, todo, mail, answers>>,
             q # p => shown'[p] = shown[p]
      PROVE  Informed(p)'
  <2>1. CASE q = p
    <3>1. asked'[p] = asked[p] + 1 /\ asked[p] \in Nat
      BY <1>1, <1>5, <2>1
    <3>2. asked'[p] > 0
      BY <3>1
    <3> QED BY <3>2 DEF Informed
  <2>2. CASE q # p
    <3>1. ws'[p] = ws[p] /\ (Playing(p) => link'[ws[p]] = link[ws[p]])
      BY <1>5, <2>2, ConnectOther
    <3>2. asked'[p] = asked[p] /\ p \notin behind
      BY <1>1, <1>5, <2>2
    <3>3. Informed(p)
      BY <1>2, <3>1, <3>2 DEF Playing, TypeOK
    <3> QED BY <1>3, <1>5, <2>2, <3>1, <3>2, <3>3
  <2> QED BY <2>1, <2>2
<1>6. ASSUME NEW q \in Players, StartGame(q) PROVE Informed(p)'
  <2>1. /\ ConnectWebSocket(q, timers) /\ asked' = [asked EXCEPT ![q] = asked[q] + 1]
        /\ shown' = [shown EXCEPT ![q] = 0] /\ behind' = behind \ {q}
        /\ UNCHANGED <<board, serve, job, todo, mail, answers>>
    BY <1>6 DEF StartGame, RestoreGameState, server
  <2>2. q # p => shown'[p] = shown[p]
    BY <1>1, <2>1
  <2> QED BY <1>5, <2>1, <2>2
<1>7. ASSUME NEW s \in Sockets, Reconnect(s) PROVE Informed(p)'
  <2>1. UNCHANGED <<board, serve, job, todo, mail, shown, answers>> /\ Owner[s] \in Players
    BY <1>7 DEF Reconnect, server, Players
  <2>2. CASE StillWanted(s)
    <3>1. /\ ConnectWebSocket(Owner[s], timers') /\ behind' = behind \ {Owner[s]}
          /\ asked' = [asked EXCEPT ![Owner[s]] = asked[Owner[s]] + 1]
      BY <1>7, <2>2 DEF Reconnect, FetchBoard, RestoreGameState
    <3> QED BY <1>5, <2>1, <3>1
  <2>3. CASE ~StillWanted(s)
    BY <1>4, <1>7, <2>1, <2>3 DEF Reconnect
  <2> QED BY <2>2, <2>3
<1>8. ASSUME NEW q \in Players, Leave(q) PROVE Informed(p)'
  <2>1. /\ UNCHANGED <<board, serve, job, todo, mail, shown, asked, answers, behind>>
        /\ ws' = [ws EXCEPT ![q] = NoSocket]
        /\ link' = [t \in Sockets |-> IF t \in Hangs(q) THEN "closing" ELSE link[t]]
    BY <1>8 DEF Leave, server, requests
  <2>2. ws'[p] = ws[p]
    BY <1>1, <2>1 DEF Linked, Playing
  <2>3. ws[p] \in Sockets /\ link'[ws[p]] \in {"opening", "open"} => link[ws[p]] \in {"opening", "open"}
    BY <2>1
  <2> QED BY <1>2, <1>3, <2>1, <2>2, <2>3
<1>9. ASSUME NEW q \in Players, Click(q) PROVE Informed(p)'
  BY <1>4, <1>9 DEF Click, server, page, requests
<1>10. ASSUME NEW s \in Sockets, Refuse(s) PROVE Informed(p)'
  BY <1>4, <1>10 DEF Refuse, server, page, requests
<1>11. ASSUME NEW s \in Sockets, Break(s) PROVE Informed(p)'
  <2>1. UNCHANGED <<board, serve, job, todo, mail, shown, answers, asked, ws, behind>>
        /\ link' = [link EXCEPT ![s] = "broken"]
    BY <1>11 DEF Break, server, page, requests
  <2>2. ws[p] \in Sockets /\ link'[ws[p]] \in {"opening", "open"} => link[ws[p]] \in {"opening", "open"}
    BY <2>1 DEF TypeOK
  <2> QED BY <1>4, <2>1, <2>2
<1>12. ASSUME UNCHANGED vars PROVE Informed(p)'
  BY <1>4, <1>12 DEF vars, server, network, page, requests
<1>13. ASSUME Restart PROVE Informed(p)'
  <2>1. ws' = ws /\ ws[p] \in Sockets
    BY <1>13 DEF Restart, page, Linked, Playing, TypeOK
  <2>2. link'[ws[p]] \notin {"opening", "open"}
    BY <1>13, <2>1 DEF Restart
  <2> QED BY <2>1, <2>2 DEF Linked
<1>14. ASSUME NEW s \in Sockets, Accept(s) PROVE Informed(p)'
  <2>1. /\ UNCHANGED <<board, job, todo, mail, shown, answers, asked, ws, behind>>
        /\ link[s] = "opening" /\ link' = [link EXCEPT ![s] = "open"]
        /\ serve' = [serve EXCEPT ![s] = "receive"]
    BY <1>14 DEF Accept, page, requests
  <2>2. ws[p] \in Sockets /\ link'[ws[p]] \in {"opening", "open"} => link[ws[p]] \in {"opening", "open"}
    BY <2>1 DEF TypeOK
  <2>3. Informed(p)
    BY <1>2, <2>1, <2>2
  <2>4. serve[s] = "closed"
    BY <2>1 DEF Attached
  <2>5. \A t \in Sockets : Due(p, t) => Due(p, t)'
    BY <2>1, <2>4 DEF Due, TypeOK
  <2> QED BY <2>1, <2>3, <2>5 DEF Informed
<1>15. ASSUME NEW s \in Sockets, HangUp(s) PROVE Informed(p)'
  <2>1. /\ UNCHANGED <<board, job, todo, link, mail, shown, answers, asked, ws, behind>>
        /\ serve[s] = "receive" /\ serve' = [serve EXCEPT ![s] = "closed"]
    BY <1>15 DEF HangUp, network, page, requests
  <2>2. Informed(p)
    BY <1>2, <2>1
  <2>3. \A t \in Sockets : Due(p, t) => Due(p, t)'
    BY <2>1 DEF Due, TypeOK
  <2> QED BY <2>1, <2>2, <2>3 DEF Informed
<1>16. ASSUME NEW s \in Sockets, Close(s) PROVE Informed(p)'
  <2>1. /\ UNCHANGED <<board, serve, job, todo, shown, answers, asked, ws, behind>>
        /\ link' = [link EXCEPT ![s] = "free"] /\ mail' = [mail EXCEPT ![s] = <<>>]
    BY <1>16 DEF Close, server, requests
  <2>2. ws[p] \in Sockets /\ ws[p] # s
    BY <2>1 DEF Linked, Playing, TypeOK
  <2>3. link'[ws[p]] = link[ws[p]] /\ mail'[ws[p]] = mail[ws[p]]
    BY <1>1, <2>1, <2>2 DEF TypeOK
  <2> QED BY <1>2, <1>3, <2>1, <2>3
<1>17. ASSUME NEW s \in Sockets, SaveMove(s) PROVE Informed(p)'
  <2>1. serve'[s] = "record" /\ job'[s] = board'
    BY <1>1, <1>17 DEF SaveMove, TypeOK
  <2> QED BY <2>1 DEF Informed, Due
<1>18. ASSUME NEW q \in Players, Answer(q) PROVE Informed(p)'
  <2>1. /\ UNCHANGED <<board, serve, job, todo, link, mail, ws, shown, behind>>
        /\ answers' = [answers EXCEPT ![q] = answers[q] \cup {board}]
        /\ asked' = [asked EXCEPT ![q] = asked[q] - 1]
    BY <1>18 DEF Answer, server, network, page
  <2>2. CASE q = p
    <3>1. board \in answers'[p]
      BY <1>1, <2>1, <2>2
    <3> QED BY <2>1, <3>1 DEF Informed
  <2>3. CASE q # p
    <3>1. asked'[p] = asked[p] /\ answers'[p] = answers[p]
      BY <1>1, <2>1, <2>3
    <3> QED BY <1>2, <1>3, <2>1, <3>1
  <2> QED BY <2>2, <2>3
<1>19. ASSUME NEW q \in Players, LoseAnswer(q) PROVE Informed(p)'
  <2>1. /\ UNCHANGED <<board, serve, job, todo, link, mail, ws, shown, answers>>
        /\ asked' = [asked EXCEPT ![q] = asked[q] - 1] /\ asked[q] > 0
        /\ behind' = IF asked'[q] = 0 THEN behind \cup {q} ELSE behind
    BY <1>19 DEF LoseAnswer, server, network, page
  <2>2. CASE q = p
    <3>1. asked'[p] = asked[p] - 1 /\ asked[p] \in Nat /\ asked'[p] # 0
      BY <1>1, <2>1, <2>2
    <3>2. asked'[p] > 0
      BY <2>1, <2>2, <3>1
    <3> QED BY <3>2 DEF Informed
  <2>3. CASE q # p
    <3>1. asked'[p] = asked[p] /\ p \notin behind
      BY <1>1, <2>1, <2>3
    <3> QED BY <1>2, <1>3, <2>1, <3>1
  <2> QED BY <2>2, <2>3
<1>20. ASSUME NEW q \in Players, TakeAnswer(q) PROVE Informed(p)'
  <2>1. UNCHANGED <<board, serve, job, todo, link, mail, ws, asked>>
    BY <1>20 DEF TakeAnswer, server, network
  <2>2. PICK pieces \in answers[q] : /\ Show(q, pieces)
                                     /\ answers' = [answers EXCEPT ![q] = answers[q] \ {pieces}]
    BY <1>20 DEF TakeAnswer
  <2>3. CASE q # p
    <3>1. answers'[p] = answers[p]
      BY <1>1, <2>2, <2>3
    <3>2. shown'[p] = shown[p] /\ p \notin behind
      BY <2>2, <2>3, ShowOther
    <3> QED BY <1>2, <1>3, <2>1, <3>1, <3>2
  <2>4. CASE q = p
    <3>1. pieces \in Boards /\ pieces <= board
      BY <1>1, <2>2 DEF NoneAhead
    <3>2. /\ p \notin behind \/ shown'[p] = board
          /\ board = shown[p] => shown'[p] = board
          /\ shown'[p] = pieces
      BY <2>2, <2>4, <3>1, ShowInforms
    <3>3. CASE shown'[p] = board
      BY <2>1, <3>3 DEF Informed
    <3>4. CASE shown'[p] # board
      <4>1. Informed(p)
        BY <1>2, <2>1, <3>2, <3>4
      <4>2. answers'[p] = answers[p] \ {pieces} /\ pieces # board /\ shown[p] # board
        BY <1>1, <2>2, <2>4, <3>2, <3>4
      <4> QED BY <2>1, <4>1, <4>2 DEF Informed, Due
    <3> QED BY <3>3, <3>4
  <2> QED BY <2>3, <2>4
<1>21. ASSUME NEW s \in Sockets, Message(s) PROVE Informed(p)'
  <2>1. /\ UNCHANGED <<board, serve, job, todo, link, ws, asked, answers>>
        /\ link[s] \in {"open", "broken"} /\ mail[s] # <<>>
        /\ mail' = [mail EXCEPT ![s] = Tail(mail[s])]
        /\ Show(Owner[s], Head(mail[s]))
    BY <1>21 DEF Message, server, requests
  <2>2. ws[p] \in Sockets /\ Owner[ws[p]] = p /\ Owner[s] \in Players
    <3>1. Playing(p)
      BY <2>1 DEF Linked, Playing
    <3> QED BY <3>1, OwnConnection, GameScreenAssumption DEF Players
  <2>3. ws[Owner[s]] = s
    BY <2>1 DEF Attached
  <2>4. CASE Owner[s] # p
    <3>1. mail'[ws[p]] = mail[ws[p]]
      BY <1>1, <2>1, <2>2, <2>4, ExceptAt, Zenon
    <3>2. shown'[p] = shown[p] /\ p \notin behind
      BY <2>1, <2>2, <2>4, ShowOther
    <3> QED BY <1>2, <1>3, <2>1, <2>2, <3>1, <3>2
  <2>5. CASE Owner[s] = p
    <3>1. /\ Head(mail[s]) = mail[s][1] /\ Len(mail[s]) \in Nat /\ Len(mail[s]) >= 1
          /\ Len(Tail(mail[s])) = Len(mail[s]) - 1
          /\ \A i \in 1 .. Len(Tail(mail[s])) : Tail(mail[s])[i] = mail[s][i + 1]
      BY <1>1, <2>1, TailIsPart
    <3>2. Head(mail[s]) <= board /\ Head(mail[s]) \in Boards
      <4>1. Head(mail[s]) <= board
        BY <3>1 DEF NoneAhead
      <4>2. Head(mail[s]) \in 1 .. GameLength
        <5>1. mail[s] \in Seq(1 .. GameLength) /\ 1 \in 1 .. Len(mail[s])
          BY <1>1, <3>1
        <5> QED BY <3>1, <5>1, Element
      <4> QED BY <4>1, <4>2 DEF Boards
    <3>3. /\ p \notin behind \/ shown'[p] = board
          /\ board = shown[p] => shown'[p] = board
          /\ shown'[p] = Head(mail[s])
      BY <2>1, <2>5, <3>2, ShowInforms
    <3>4. ws[p] = s /\ mail'[s] = Tail(mail[s])
      BY <1>1, <2>1, <2>3, <2>5
    <3>5. CASE shown'[p] = board
      BY <2>1, <3>5 DEF Informed
    <3>6. CASE shown'[p] # board
      <4>1. Informed(p)
        BY <1>2, <2>1, <3>3, <3>6
      <4>2. CASE \E i \in 1 .. Len(mail[s]) : mail[s][i] = board
        <5>1. PICK i \in 1 .. Len(mail[s]) : mail[s][i] = board
          BY <4>2
        <5>2. i # 1
          BY <3>1, <3>3, <3>6, <5>1
        <5>3. i - 1 \in 1 .. Len(Tail(mail[s])) /\ (i - 1) + 1 = i
          BY <3>1, <5>1, <5>2
        <5>4. Tail(mail[s])[i - 1] = board
          BY <3>1, <5>1, <5>3
        <5> QED BY <2>1, <3>4, <5>3, <5>4 DEF Informed
      <4>3. CASE ~\E i \in 1 .. Len(mail[s]) : mail[s][i] = board
        <5>1. shown[p] # board
          BY <3>3, <3>6
        <5>2. asked[p] > 0 \/ board \in answers[p] \/ \E t \in Sockets : Due(p, t) /\ job[t] = board
          BY <3>4, <4>1, <4>3, <5>1 DEF Informed
        <5> QED BY <2>1, <5>2 DEF Informed, Due
      <4> QED BY <4>2, <4>3
    <3> QED BY <3>5, <3>6
  <2> QED BY <2>4, <2>5
<1>22. ASSUME NEW s \in Sockets, Broadcast(s) PROVE Informed(p)'
  <2>1. /\ UNCHANGED <<board, link, mail, shown, answers, asked, ws>>
        /\ serve[s] = "record" /\ Remaining(s, Room) /\ s \in Room
        /\ p \notin behind /\ ~Misses(p, job[s])
    BY <1>22 DEF Broadcast, Audience, Room, network, page, requests
  <2>2. Informed(p) /\ Linked(p) /\ ws[p] \in Sockets
    BY <1>2, <2>1
  <2>3. /\ todo' = [todo EXCEPT ![s] = Room] /\ serve' = [serve EXCEPT ![s] = "send"]
        /\ job' = job
    BY <2>1 DEF Remaining
  <2>4. \A t \in Sockets : t # s => (Due(p, t) => Due(p, t)')
    BY <2>1, <2>3 DEF Due, TypeOK
  <2>5. CASE link[ws[p]] = "open"
    <3>1. ws[p] \in Room
      BY <2>2, <2>5 DEF Attached, Room
    <3>2. Due(p, s)'
      BY <2>1, <2>3, <3>1 DEF Due, TypeOK
    <3> QED BY <2>1, <2>2, <2>3, <2>4, <3>2 DEF Informed
  <2>6. CASE link[ws[p]] = "opening" /\ job[s] = board /\ asked[p] = 0
    <3>1. PICK known \in answers[p] \cup {shown[p]} : ~(known < board)
      BY <2>1, <2>2, <2>6 DEF Misses, Linked
    <3>2. known \in Nat /\ board \in Nat /\ known <= board
      BY <1>1, <3>1 DEF NoneAhead
    <3>3. board \in answers[p] \cup {shown[p]}
      BY <3>1, <3>2
    <3> QED BY <2>1, <3>3 DEF Informed
  <2>7. CASE asked[p] # 0
    <3>1. asked'[p] > 0
      BY <1>1, <2>1, <2>7
    <3> QED BY <3>1 DEF Informed
  <2>8. CASE job[s] # board
    BY <2>1, <2>2, <2>3, <2>4, <2>8 DEF Informed
  <2> QED BY <2>2, <2>5, <2>6, <2>7, <2>8 DEF Linked
<1>23. ASSUME NEW s \in Sockets, NEW t \in Sockets, SendTo(s, t) PROVE Informed(p)'
  <2>1. /\ UNCHANGED <<board, link, shown, answers, asked, ws, behind>>
        /\ serve[s] = "send" /\ t \in todo[s] /\ Remaining(s, todo[s] \ {t})
        /\ mail' = IF link[t] = "open" THEN [mail EXCEPT ![t] = Append(mail[t], job[s])] ELSE mail
    BY <1>23 DEF SendTo, page, requests
  <2>2. Informed(p) /\ Linked(p) /\ ws[p] \in Sockets
    BY <1>2, <2>1
  <2>3. \A u \in Sockets : u # s /\ Due(p, u) => Due(p, u)' /\ job'[u] = job[u]
    BY <2>1 DEF Remaining, Due, TypeOK
  <2>4. mail'[ws[p]] = IF link[t] = "open" /\ t = ws[p] THEN Append(mail[ws[p]], job[s])
                       ELSE mail[ws[p]]
    BY <1>1, <2>1, <2>2, ExceptAt, Zenon
  <2>5. job[s] \in 1 .. GameLength /\ mail[ws[p]] \in Seq(1 .. GameLength)
    <3>1. job[s] \in Boards /\ job[s] >= 1
      BY <1>1, <2>1 DEF BusyHasMove, Busy
    <3> QED BY <1>1, <2>2, <3>1 DEF Boards
  <2>6. /\ Len(Append(mail[ws[p]], job[s])) = Len(mail[ws[p]]) + 1 /\ Len(mail[ws[p]]) \in Nat
        /\ Append(mail[ws[p]], job[s])[Len(mail[ws[p]]) + 1] = job[s]
        /\ \A i \in 1 .. Len(mail[ws[p]]) : Append(mail[ws[p]], job[s])[i] = mail[ws[p]][i]
    BY <2>5, AppendedPart
  <2>7. ASSUME NEW i \in 1 .. Len(mail[ws[p]]), mail[ws[p]][i] = board
        PROVE  Informed(p)'
    <3>1. i \in 1 .. Len(mail'[ws[p]]) /\ mail'[ws[p]][i] = board
      BY <2>4, <2>6, <2>7
    <3> QED BY <2>1, <3>1 DEF Informed
  <2>8. ASSUME Due(p, s), job[s] = board PROVE Informed(p)'
    <3>1. ws[p] \in todo[s]
      BY <2>1, <2>8 DEF Due
    <3>2. CASE t = ws[p]
      <4>1. link[t] = "open"
        BY <2>1, <2>2, <3>2 DEF Unlisted, Linked
      <4>2. mail'[ws[p]] = Append(mail[ws[p]], job[s])
        BY <2>4, <3>2, <4>1
      <4>3. /\ Len(mail[ws[p]]) + 1 \in 1 .. Len(mail'[ws[p]])
            /\ mail'[ws[p]][Len(mail[ws[p]]) + 1] = board
        BY <2>6, <2>8, <4>2
      <4> QED BY <2>1, <4>3 DEF Informed
    <3>3. CASE t # ws[p]
      <4>1. Due(p, s)' /\ job'[s] = job[s]
        BY <2>1, <3>1, <3>3 DEF Remaining, Due, TypeOK
      <4> QED BY <2>1, <2>8, <4>1 DEF Informed
    <3> QED BY <3>2, <3>3
  <2>9. ASSUME NEW u \in Sockets, u # s, Due(p, u), job[u] = board PROVE Informed(p)'
    BY <2>1, <2>3, <2>9 DEF Informed
  <2>10. CASE asked[p] > 0 \/ board \in answers[p] \cup {shown[p]}
    BY <2>1, <2>10 DEF Informed
  <2> QED BY <2>2, <2>7, <2>8, <2>9, <2>10 DEF Informed
<1> QED BY <1>6, <1>7, <1>8, <1>9, <1>10, <1>11, <1>12, <1>13, <1>14, <1>15, <1>16, <1>17, <1>18,
           <1>19, <1>20, <1>21, <1>22, <1>23 DEF Next, Step, SocketStep, PageStep

(* A connected page that has nothing more to hear shows the board in       *)
(* Redis, unless it was shown an older board after a newer one, was not in *)
(* the room in time, or its request failed (app.js 668-686, 1101-1226;     *)
(* connection_manager.py 130-144; websocket.py 245-297).                   *)
THEOREM PagesAgree == Spec => []SettledPagesAgree
<1> DEFINE Inv == TypeInv /\ Attached /\ Unlisted /\ NoneAhead /\ PagesInformed
<1>1. Init => Inv
  BY TypeInit, AttachedInit, AheadInit, InformedInit
<1>2. Inv /\ [Next]_vars => Inv'
  BY TypeNext, AttachedNext, UnlistedNext, AheadNext, InformedNext
<1>3. Inv => SettledPagesAgree
  <2> SUFFICES ASSUME TypeOK, PagesInformed, NEW p \in Players \ behind, Settled(p) PROVE shown[p] = board
    BY DEF SettledPagesAgree, TypeInv
  <2>1. Linked(p) /\ mail[ws[p]] = <<>> /\ \A s \in Sockets : ~Due(p, s)
    BY DEF Linked, Live, Settled, Due, Busy
  <2>2. Informed(p) /\ Len(mail[ws[p]]) = 0
    BY <2>1 DEF PagesInformed
  <2> QED BY <2>1, <2>2 DEF Settled, Informed
<1> QED BY <1>1, <1>2, <1>3, PTL DEF Spec
=============================================================================
