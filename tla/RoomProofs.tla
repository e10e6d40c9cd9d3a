----------------------------- MODULE RoomProofs -----------------------------
(***************************************************************************)
(* Theorems about Room, for any connections and any bounds.                *)
(***************************************************************************)
EXTENDS Room, FiniteSetTheorems, SequenceTheorems, TLAPS

USE RoomAssumption

-----------------------------------------------------------------------------
(* Type correctness.                                                       *)

Row == [moves : [1 .. GameLength -> Nat], finishes : Nat]

(* There is always the room's own row.                                     *)
TypeInv == TypeOK /\ Len(rows) >= 1

LEMMA NewRowType == NewRow \in Row
  BY DEF NewRow, Row

LEMMA CountType == ASSUME NEW k \in Nat PROVE Count(k) \in Nat
  BY DEF Count

(* What the manager does with connections that left, or are pruned.        *)
LEMMA DisconnectType ==
    ASSUME TypeOK, NEW left \in SUBSET Sockets, Disconnect(left), rows' = rows
    PROVE  /\ room' \subseteq room /\ identified' \subseteq identified
           /\ votes' \subseteq votes
           /\ dbGame' \in 0 .. Len(rows)
  BY DEF Disconnect, TypeOK

LEMMA BroadcastType ==
    ASSUME TypeOK, Broadcast, rows' = rows
    PROVE  /\ room' \subseteq room /\ identified' \subseteq identified
           /\ votes' \subseteq votes
           /\ dbGame' \in 0 .. Len(rows)
           /\ pruned' \in Nat
<1>1. PICK dead \in SUBSET (room \ up) : Disconnect(dead) /\ pruned' = pruned + Cardinality(dead)
  BY DEF Broadcast
<1>2. dead \subseteq Sockets /\ IsFiniteSet(dead)
  BY FS_Subset DEF TypeOK
<1>3. Cardinality(dead) \in Nat
  BY <1>2, FS_CardinalityType
<1>4. pruned' \in Nat
  <2>1. pruned \in Nat
    BY DEF TypeOK
  <2> QED BY <1>1, <1>3, <2>1
<1>5. /\ room' \subseteq room /\ identified' \subseteq identified
      /\ votes' \subseteq votes
      /\ dbGame' \in 0 .. Len(rows)
  BY <1>1, <1>2, DisconnectType
<1> QED BY <1>4, <1>5

LEMMA TypeInit == Init => TypeInv
<1> SUFFICES ASSUME Init PROVE TypeInv
  OBVIOUS
<1>1. rows \in Seq(Row)
  BY NewRowType DEF Init
<1>2. Len(rows) = 1
  BY DEF Init
<1>3. /\ dbGame \in 0 .. Len(rows)
      /\ job \in [Sockets -> [pieces : 0 .. GameLength, row : 0 .. Len(rows)]]
  BY <1>2 DEF Init, NoJob
<1>4. /\ at \in [Sockets -> Places]
      /\ inbox \in [Sockets -> {"identify", "move", "rematch", Nothing}]
      /\ cast \in [Players -> Nat] /\ seen \in [Sockets -> 0 .. GameLength]
  BY DEF Init, Places
<1>5. /\ room \subseteq Sockets /\ identified \subseteq Sockets /\ up \subseteq Sockets
      /\ asked \subseteq Sockets /\ votes \subseteq Players
  BY DEF Init
<1>7. locked \in BOOLEAN
  BY DEF Init
<1>8. board \in 0 .. GameLength
  BY DEF Init
<1>6. /\ rematches \in Nat /\ pruned \in Nat
      /\ drops \in Nat /\ failures \in Nat /\ drops + failures <= MaxFaults
  BY DEF Init
<1> QED BY <1>1, <1>2, <1>3, <1>4, <1>5, <1>6, <1>7, <1>8 DEF TypeInv, TypeOK, Row

LEMMA TypeNext == TypeInv /\ [Next]_vars => TypeInv'
<1> SUFFICES ASSUME TypeOK, Len(rows) >= 1, [Next]_vars PROVE TypeOK' /\ Len(rows') >= 1
  BY DEF TypeInv
<1> USE DEF TypeOK, Places
<1>0. rows \in Seq(Row) /\ Len(rows) \in Nat
  BY DEF Row
<1>1. ASSUME NEW s \in Sockets, Connect(s) PROVE TypeOK'
  <2>1. Pieces \in 0 .. GameLength
    BY DEF Pieces
  <2>2. /\ inbox' \in [Sockets -> {"identify", "move", "rematch", Nothing}]
        /\ seen' \in [Sockets -> 0 .. GameLength]
        /\ at' \in [Sockets -> Places]
    BY <1>1, <2>1 DEF Connect, Goto
  <2>3. room' \subseteq Sockets /\ up' \subseteq Sockets /\ asked' \subseteq Sockets
    BY <1>1 DEF Connect
  <2>4. UNCHANGED <<identified, votes, dbGame, job, locked, board, rows, cast, rematches, pruned,
                    drops, failures>>
    BY <1>1 DEF Connect, redis, counters
  <2> QED BY <2>2, <2>3, <2>4
<1>2. ASSUME NEW s \in Sockets, SendMove(s) \/ SendRematch(s) PROVE TypeOK'
  BY <1>2 DEF SendMove, SendRematch, Send, manager, redis, counters
<1>3. ASSUME NEW s \in Sockets, Drop(s) PROVE TypeOK'
  <2>1. failures' \in Nat /\ drops' \in Nat /\ drops' + failures' <= MaxFaults
    <3>1. drops \in Nat /\ failures \in Nat /\ MaxFaults \in Nat
      OBVIOUS
    <3>2. drops + failures < MaxFaults /\ drops' = drops + 1 /\ failures' = failures
      BY <1>3 DEF Drop
    <3> HIDE DEF TypeOK
    <3> QED BY <3>1, <3>2
  <2> QED BY <1>3, <2>1 DEF Drop, manager, browser, redis
<1>4. ASSUME NEW s \in Sockets, Identify(s) PROVE TypeOK'
  BY <1>4 DEF Identify, Receive, Goto, browser, redis, counters
<1>5. ASSUME NEW s \in Sockets, Greet(s) PROVE TypeOK'
  <2>1. rows' = rows /\ Broadcast
    BY <1>5 DEF Greet
  <2> QED BY <1>5, <2>1, BroadcastType DEF Greet, Goto, browser, redis, counters
<1>6. ASSUME NEW s \in Sockets, HangUp(s) PROVE TypeOK'
  <2>1. PICK dead \in SUBSET (room \ (up \cup {s})) :
            Disconnect({s} \cup dead) /\ pruned' = pruned + Cardinality(dead)
    BY <1>6 DEF HangUp
  <2>2. dead \subseteq Sockets /\ IsFiniteSet(dead)
    BY FS_Subset
  <2>3. Cardinality(dead) \in Nat
    BY <2>2, FS_CardinalityType
  <2>4. rows' = rows /\ {s} \cup dead \in SUBSET Sockets
    BY <1>6, <2>2 DEF HangUp
  <2>5. /\ room' \subseteq room /\ identified' \subseteq identified
        /\ votes' \subseteq votes /\ dbGame' \in 0 .. Len(rows)
    BY <2>1, <2>4, DisconnectType
  <2>6. pruned' \in Nat
    BY <2>1, <2>3
  <2>7. asked' \subseteq Sockets /\ at' \in [Sockets -> Places]
    BY <1>6 DEF HangUp, Goto
  <2> QED BY <1>6, <2>5, <2>6, <2>7 DEF HangUp, redis, counters
<1>7. ASSUME NEW s \in Sockets, BeginMove(s) PROVE TypeOK'
  BY <1>7 DEF BeginMove, Receive, Goto, manager, browser, counters
<1>8. ASSUME NEW s \in Sockets, Load(s) PROVE TypeOK'
  <2>1. Pieces \in 0 .. GameLength
    BY DEF Pieces
  <2>2. Pieces < GameLength => [pieces |-> Pieces + 1, row |-> 0]
                               \in [pieces : 0 .. GameLength, row : 0 .. Len(rows)]
    <3>1. ASSUME Pieces < GameLength PROVE Pieces + 1 \in 0 .. GameLength
      BY <2>1, <3>1
    <3>2. 0 \in 0 .. Len(rows)
      BY <1>0
    <3> HIDE DEF TypeOK, Pieces
    <3> QED BY <3>1, <3>2
  <2>3. job' \in [Sockets -> [pieces : 0 .. GameLength, row : 0 .. Len(rows)]]
    BY <1>8, <2>2 DEF Load
  <2>4. board' \in 0 .. GameLength /\ at' \in [Sockets -> Places] /\ locked' \in BOOLEAN
    BY <1>8, <2>1 DEF Load, Goto
  <2>5. UNCHANGED <<room, identified, votes, dbGame, up, seen, asked, inbox, rows, cast, rematches,
                    pruned, drops, failures>>
    BY <1>8 DEF Load, manager, browser, counters
  <2> QED BY <2>3, <2>4, <2>5
<1>9. ASSUME NEW s \in Sockets, Save(s) PROVE TypeOK'
  BY <1>9 DEF Save, Goto, manager, browser, counters
<1>10. ASSUME NEW s \in Sockets, Lookup(s) PROVE TypeOK'
  <2>1. CurrentRow \in 0 .. Len(rows)
    BY <1>0 DEF CurrentRow
  <2>2. /\ at' \in [Sockets -> Places]
        /\ job' \in [Sockets -> [pieces : 0 .. GameLength, row : 0 .. Len(rows)]]
    BY <1>10, <2>1 DEF Lookup, Goto
  <2> QED BY <1>10, <2>2 DEF Lookup, manager, browser, redis, counters
<1>11. ASSUME NEW s \in Sockets, CommitMove(s) PROVE TypeOK' /\ Len(rows') = Len(rows)
  <2> DEFINE n == job[s].pieces
             r == job[s].row
  <2>1. rows' = [rows EXCEPT ![r] = Recorded(rows[r], n)]
    BY <1>11 DEF CommitMove
  <2>2. ASSUME NEW row \in Row PROVE Recorded(row, n) \in Row
    <3>1. row.moves \in [1 .. GameLength -> Nat] /\ row.finishes \in Nat
      BY <2>2 DEF Row
    <3>2. \A k \in 1 .. GameLength : Count(row.moves[k]) \in Nat
      <4>1. \A k \in 1 .. GameLength : row.moves[k] \in Nat
        BY <3>1
      <4> QED BY <4>1, CountType
    <3>3. Recorded(row, n).moves \in [1 .. GameLength -> Nat]
      <4>1. Recorded(row, n).moves = [row.moves EXCEPT ![n] = Count(row.moves[n])]
        BY DEF Recorded
      <4>2. CASE n \in 1 .. GameLength
        <5> HIDE DEF n
        <5> QED BY <3>1, <3>2, <4>1, <4>2
      <4>3. CASE n \notin 1 .. GameLength
        <5> HIDE DEF n
        <5> QED BY <3>1, <4>1, <4>3
      <4> QED BY <4>2, <4>3
    <3>4. Recorded(row, n).finishes = IF n = GameLength THEN Count(row.finishes) ELSE row.finishes
      BY DEF Recorded
    <3>5. Count(row.finishes) \in Nat
      BY <3>1, CountType
    <3>6. Recorded(row, n).finishes \in Nat
      BY <3>1, <3>4, <3>5, Zenon
    <3> QED BY <3>3, <3>6 DEF Row, Recorded
  <2>3. ASSUME r \in 1 .. Len(rows) PROVE rows' \in Seq(Row) /\ Len(rows') = Len(rows)
    <3>1. rows[r] \in Row
      BY <1>0, <2>3
    <3>2. rows' \in Seq(Row) /\ Len(rows') = Len(rows)
      BY <1>0, <2>1, <2>2, <2>3, <3>1, ExceptSeq
    <3> QED BY <3>2
  <2>4. ASSUME r \notin 1 .. Len(rows) PROVE rows' \in Seq(Row) /\ Len(rows') = Len(rows)
    <3>1. rows' = rows
      BY <1>0, <2>1, <2>4
    <3> QED BY <1>0, <3>1
  <2>5. rows' \in Seq(Row) /\ Len(rows') = Len(rows)
    BY <1>0, <2>3, <2>4
  <2>6. UNCHANGED <<room, identified, votes, dbGame, job, up, seen, asked, inbox, locked, board,
                    cast, rematches, pruned, drops, failures>>
    BY <1>11 DEF CommitMove, manager, browser, redis, counters
  <2>7. at' \in [Sockets -> Places]
    BY <1>11 DEF CommitMove, Goto
  <2> QED BY <2>5, <2>6, <2>7 DEF Row
<1>12. ASSUME NEW s \in Sockets, FailMove(s) \/ FailRow(s) PROVE TypeOK'
  <2>1. at' \in [Sockets -> Places]
    BY <1>12 DEF FailMove, FailRow, Goto
  <2>2. failures' \in Nat /\ drops' \in Nat /\ drops' + failures' <= MaxFaults
    <3>1. drops \in Nat /\ failures \in Nat /\ MaxFaults \in Nat
      OBVIOUS
    <3>2. drops + failures < MaxFaults /\ failures' = failures + 1 /\ drops' = drops
      BY <1>12 DEF FailMove, FailRow, Failed
    <3> HIDE DEF TypeOK
    <3> QED BY <3>1, <3>2
  <2>3. UNCHANGED <<room, identified, votes, dbGame, job, up, seen, asked, inbox, locked, board,
                    rows, cast, rematches, pruned>>
    BY <1>12 DEF FailMove, FailRow, manager, browser, redis
  <2> QED BY <2>1, <2>2, <2>3
<1>13. ASSUME NEW s \in Sockets, Announce(s) PROVE TypeOK'
  <2>1. rows' = rows /\ Broadcast
    BY <1>13 DEF Announce
  <2>2. NoJob \in [pieces : 0 .. GameLength, row : 0 .. Len(rows)]
    BY <1>0 DEF NoJob
  <2>3. seen' \in [Sockets -> 0 .. GameLength]
    BY <1>13 DEF Announce, Shown
  <2> QED BY <1>13, <2>1, <2>2, <2>3, BroadcastType DEF Announce, Goto, redis, counters
<1>14. ASSUME NEW s \in Sockets, Vote(s) PROVE TypeOK'
  <2>1. Owner[s] \in Players
    BY DEF Players
  <2>5. cast' \in [Players -> Nat]
    <3>1. cast \in [Players -> Nat]
      OBVIOUS
    <3> HIDE DEF TypeOK
    <3>2. cast' = [cast EXCEPT ![Owner[s]] = cast[Owner[s]] + 1]
      BY <1>14 DEF Vote
    <3> QED BY <2>1, <3>1, <3>2
  <2>6. /\ \/ votes' = {}
           \/ votes' = votes \cup {Owner[s]}
        /\ rematches' \in {rematches, rematches + 1}
    BY <1>14 DEF Vote
  <2>7. votes' \subseteq Players /\ rematches' \in Nat
    BY <2>1, <2>6
  <2>2. cast' \in [Players -> Nat] /\ votes' \subseteq Players /\ rematches' \in Nat
    BY <2>5, <2>7
  <2>3. /\ at' \in [Sockets -> Places]
        /\ inbox' \in [Sockets -> {"identify", "move", "rematch", Nothing}]
    BY <1>14 DEF Vote, Receive, Goto
  <2>4. UNCHANGED <<room, identified, dbGame, job, up, seen, asked, locked, board, rows, pruned,
                    drops, failures>>
    BY <1>14 DEF Vote, browser, redis, counters
  <2> QED BY <2>2, <2>3, <2>4
<1>15. ASSUME NEW s \in Sockets, Reset(s) \/ NewBoard(s) PROVE TypeOK'
  <2>1. at' \in [Sockets -> Places]
    BY <1>15 DEF Reset, NewBoard, Goto
  <2>3. board' \in {0, Nothing}
    <3> HIDE DEF TypeOK
    <3>1. CASE Reset(s)
      BY <3>1 DEF Reset
    <3>2. CASE NewBoard(s)
      BY <3>2 DEF NewBoard
    <3> QED BY <1>15, <3>1, <3>2
  <2>4. board' \in 0 .. GameLength \cup {Nothing}
    <3> HIDE DEF TypeOK
    <3> QED BY <2>3
  <2>2. UNCHANGED <<room, identified, votes, dbGame, job, up, seen, asked, inbox, locked, rows,
                    cast, rematches, pruned, drops, failures>>
    BY <1>15 DEF Reset, NewBoard, manager, browser, counters
  <2> QED BY <2>1, <2>2, <2>4
<1>16. ASSUME NEW s \in Sockets, CreateRow(s) PROVE TypeOK' /\ Len(rows') = Len(rows) + 1
  <2>1. rows' \in Seq(Row) /\ Len(rows') = Len(rows) + 1
    BY <1>0, <1>16, NewRowType DEF CreateRow
  <2>2. dbGame' \in 0 .. Len(rows') /\ at' \in [Sockets -> Places]
    BY <1>0, <1>16, <2>1 DEF CreateRow, Goto
  <2>3. UNCHANGED <<room, identified, votes, job, up, seen, asked, inbox, locked, board, cast,
                    rematches, pruned, drops, failures>>
    BY <1>16 DEF CreateRow, browser, redis, counters
  <2>4. [pieces : 0 .. GameLength, row : 0 .. Len(rows)]
            \subseteq [pieces : 0 .. GameLength, row : 0 .. Len(rows')]
    BY <1>0, <2>1
  <2>5. job' \in [Sockets -> [pieces : 0 .. GameLength, row : 0 .. Len(rows')]]
    BY <2>3, <2>4
  <2> QED BY <2>1, <2>2, <2>3, <2>5 DEF Row
<1>17. CASE UNCHANGED vars
  BY <1>17 DEF vars, manager, browser, redis, counters
<1>18. TypeOK'
  BY <1>1, <1>2, <1>3, <1>4, <1>5, <1>6, <1>7, <1>8, <1>9, <1>10, <1>11, <1>12,
     <1>13, <1>14, <1>15, <1>16, <1>17 DEF Next, Step
<1>19. ASSUME \E s \in Sockets : CommitMove(s) \/ CreateRow(s) PROVE Len(rows') >= Len(rows)
  BY <1>0, <1>11, <1>16, <1>19
<1>20. ASSUME ~ \E s \in Sockets : CommitMove(s) \/ CreateRow(s) PROVE Len(rows') >= Len(rows)
  <2>1. rows' = rows
    BY <1>20 DEF Next, Step, Connect, SendMove, SendRematch, Send, Drop, Identify, Greet, HangUp,
                 BeginMove, Load, Save, Lookup, FailMove, FailRow, Announce, Vote, Reset, NewBoard,
                 vars
  <2> QED BY <1>0, <2>1
<1>21. Len(rows') >= Len(rows)
  BY <1>19, <1>20
<1>22. Len(rows') >= 1
  BY <1>0, <1>18, <1>21
<1> QED BY <1>18, <1>22

(* TypeOK holds in every reachable state.                                  *)
THEOREM TypeCorrect == Spec => []TypeOK
<1>1. TypeInv => TypeOK
  BY DEF TypeInv
<1> QED BY TypeInit, TypeNext, <1>1, PTL DEF Spec

-----------------------------------------------------------------------------
(* Rematches.  A vote that is counted but not used stands in votes: taking *)
(* both out when the second one comes in is what makes each count once.    *)

Unused(p) == IF p \in votes THEN 1 ELSE 0

VotesCountOnce == \A p \in Players : rematches + Unused(p) <= cast[p]

LEMMA VotesInit == Init => VotesCountOnce
  BY DEF Init, VotesCountOnce, Unused

LEMMA VotesNext == TypeInv /\ VotesCountOnce /\ [Next]_vars => VotesCountOnce'
<1> SUFFICES ASSUME TypeInv, VotesCountOnce, [Next]_vars PROVE VotesCountOnce'
  OBVIOUS
<1>1. rematches \in Nat /\ cast \in [Players -> Nat] /\ votes \subseteq Players
  BY DEF TypeInv, TypeOK
<1>2. ASSUME votes' \subseteq votes, rematches' = rematches, cast' = cast
      PROVE  VotesCountOnce'
  BY <1>1, <1>2 DEF VotesCountOnce, Unused
<1>3. ASSUME NEW s \in Sockets, Vote(s) PROVE VotesCountOnce'
  <2>1. Owner[s] \in Players /\ cast' = [cast EXCEPT ![Owner[s]] = cast[Owner[s]] + 1]
    BY <1>3 DEF Vote, Players
  <2>2. CASE votes \cup {Owner[s]} = Players
    <3>1. votes' = {} /\ rematches' = rematches + 1
      BY <1>3, <2>2 DEF Vote
    <3>2. ASSUME NEW p \in Players PROVE rematches + 1 <= cast'[p]
      BY <1>1, <2>1, <2>2 DEF VotesCountOnce, Unused
    <3> QED BY <3>1, <3>2, <1>1 DEF VotesCountOnce, Unused
  <2>3. CASE votes \cup {Owner[s]} # Players
    <3>1. votes' = votes \cup {Owner[s]} /\ rematches' = rematches
      BY <1>3, <2>3 DEF Vote
    <3> QED BY <1>1, <2>1, <3>1 DEF VotesCountOnce, Unused
  <2> QED BY <2>2, <2>3
<1>4. ASSUME NEW left, Disconnect(left) PROVE votes' \subseteq votes
  BY <1>4 DEF Disconnect
<1>5. ASSUME NEW s \in Sockets, HangUp(s) \/ Greet(s) \/ Announce(s) PROVE VotesCountOnce'
  <2>1. PICK left : Disconnect(left)
    BY <1>5 DEF HangUp, Greet, Announce, Broadcast
  <2>2. rematches' = rematches /\ cast' = cast
    BY <1>5 DEF HangUp, Greet, Announce
  <2> QED BY <1>2, <1>4, <2>1, <2>2
<1>6. CASE \/ \E s \in Sockets : \/ Connect(s) \/ SendMove(s) \/ SendRematch(s) \/ Drop(s)
                                 \/ Identify(s) \/ BeginMove(s) \/ Load(s) \/ Save(s) \/ Lookup(s)
                                 \/ CommitMove(s) \/ FailMove(s) \/ Reset(s) \/ NewBoard(s)
                                 \/ CreateRow(s) \/ FailRow(s)
           \/ UNCHANGED vars
  <2>1. votes' = votes /\ rematches' = rematches /\ cast' = cast
    BY <1>6 DEF Connect, SendMove, SendRematch, Send, Drop, Identify, BeginMove, Load, Save, Lookup,
                CommitMove, FailMove, Reset, NewBoard, CreateRow, FailRow, vars, manager
  <2> QED BY <1>2, <2>1
<1> QED BY <1>3, <1>5, <1>6 DEF Next, Step

(* However votes, disconnects, reconnects and resets overlap, each rematch *)
(* takes a vote of each player that no other rematch took.                 *)
THEOREM VotesAreUsedOnce == Spec => []RematchTakesBothVotes
<1>1. TypeInv /\ VotesCountOnce => RematchTakesBothVotes
  <2> SUFFICES ASSUME TypeInv, VotesCountOnce, NEW p \in Players PROVE rematches <= cast[p]
    BY DEF RematchTakesBothVotes
  <2>1. rematches \in Nat /\ cast[p] \in Nat
    BY DEF TypeInv, TypeOK
  <2> QED BY <2>1 DEF VotesCountOnce, Unused
<1> QED BY TypeInit, TypeNext, VotesInit, VotesNext, <1>1, PTL DEF Spec

-----------------------------------------------------------------------------
(* The room is emptied.  As long as no broadcast has pruned a connection,  *)
(* the room is exactly the connections whose handlers run, and what the    *)
(* manager keeps belongs to one of them.                                   *)

RoomIsRunning ==
    pruned = 0 =>
        /\ room = {s \in Sockets : at[s] # "closed"}
        /\ identified \subseteq room
        /\ room = {} => votes = {} /\ dbGame = 0

LEMMA RunningInit == Init => RoomIsRunning
  BY DEF Init, RoomIsRunning

(* A broadcast that prunes nobody leaves the manager as it is.             *)
LEMMA NobodyPruned ==
    ASSUME TypeInv, NEW dead \in SUBSET Sockets, pruned' = pruned + Cardinality(dead), pruned' = 0
    PROVE  pruned = 0 /\ dead = {}
<1>1. IsFiniteSet(dead)
  BY FS_Subset
<1>2. Cardinality(dead) \in Nat /\ pruned \in Nat
  BY <1>1, FS_CardinalityType DEF TypeInv, TypeOK
<1>3. pruned = 0 /\ Cardinality(dead) = 0
  BY <1>2
<1> QED BY <1>1, <1>3, FS_EmptySet

LEMMA RunningNext == TypeInv /\ RoomIsRunning /\ [Next]_vars => RoomIsRunning'
<1> SUFFICES ASSUME TypeInv, RoomIsRunning, [Next]_vars, pruned' = 0
             PROVE  /\ room' = {s \in Sockets : at'[s] # "closed"}
                    /\ identified' \subseteq room'
                    /\ room' = {} => votes' = {} /\ dbGame' = 0
  BY DEF RoomIsRunning
<1>0. /\ room \subseteq Sockets /\ identified \subseteq Sockets /\ up \subseteq Sockets
      /\ at \in [Sockets -> Places]
  BY DEF TypeInv, TypeOK
<1>1. ASSUME NEW s \in Sockets, Connect(s) PROVE RoomIsRunning'
  BY <1>0, <1>1 DEF Connect, Goto, RoomIsRunning
<1>2. ASSUME NEW s \in Sockets, HangUp(s) PROVE RoomIsRunning'
  <2>1. PICK dead \in SUBSET (room \ (up \cup {s})) :
            Disconnect({s} \cup dead) /\ pruned' = pruned + Cardinality(dead)
    BY <1>2 DEF HangUp
  <2>2. pruned = 0 /\ dead = {}
    BY <1>0, <2>1, NobodyPruned
  <2>3. Disconnect({s}) /\ at' = [at EXCEPT ![s] = "closed"] /\ at[s] = "receive"
    BY <1>2, <2>1, <2>2 DEF HangUp, Goto
  <2>4. s \in room /\ room = {t \in Sockets : at[t] # "closed"} /\ identified \subseteq room
    BY <2>2, <2>3 DEF RoomIsRunning
  <2>5. room' = room \ {s}
    BY <2>3 DEF Disconnect
  <2>6. room' = {t \in Sockets : at'[t] # "closed"}
    BY <1>0, <2>3, <2>4, <2>5
  <2>7. CASE room \subseteq {s}
    BY <2>3, <2>4, <2>5, <2>6, <2>7 DEF Disconnect, RoomIsRunning
  <2>8. CASE ~(room \subseteq {s})
    BY <2>3, <2>4, <2>5, <2>6, <2>8 DEF Disconnect, RoomIsRunning
  <2> QED BY <2>7, <2>8
<1>3. ASSUME NEW s \in Sockets, Greet(s) \/ Announce(s) PROVE RoomIsRunning'
  <2>1. PICK dead \in SUBSET (room \ up) : Disconnect(dead) /\ pruned' = pruned + Cardinality(dead)
    BY <1>3 DEF Greet, Announce, Broadcast
  <2>2. pruned = 0 /\ dead = {}
    BY <1>0, <2>1, NobodyPruned
  <2>3. UNCHANGED <<room, identified, votes, dbGame>>
    BY <2>1, <2>2 DEF Disconnect
  <2>4. at' = [at EXCEPT ![s] = "receive"] /\ at[s] # "closed"
    BY <1>3 DEF Greet, Announce, Goto
  <2> QED BY <1>0, <2>2, <2>3, <2>4 DEF RoomIsRunning
<1>4. ASSUME NEW s \in Sockets, at[s] # "closed", NEW place, place # "closed",
             at' = [at EXCEPT ![s] = place] \/ at' = at, pruned' = pruned, room' = room,
             identified' = identified \/ identified' = identified \cup {s}
      PROVE  RoomIsRunning'
  <2>1. s \in room /\ room # {} /\ identified' \subseteq room
    BY <1>4 DEF RoomIsRunning
  <2>2. room = {t \in Sockets : at'[t] # "closed"}
    BY <1>0, <1>4 DEF RoomIsRunning
  <2> QED BY <1>4, <2>1, <2>2 DEF RoomIsRunning
<1>5. ASSUME NEW s \in Sockets,
             \/ Identify(s) \/ BeginMove(s) \/ Load(s) \/ Save(s) \/ Lookup(s) \/ CommitMove(s)
             \/ FailMove(s) \/ Vote(s) \/ Reset(s) \/ NewBoard(s) \/ CreateRow(s) \/ FailRow(s)
      PROVE  RoomIsRunning'
  <2>1. /\ at[s] # "closed" /\ pruned' = pruned /\ room' = room
        /\ identified' = identified \/ identified' = identified \cup {s}
    BY <1>5 DEF Identify, BeginMove, Load, Save, Lookup, CommitMove, FailMove, Vote, Reset, NewBoard,
                CreateRow, FailRow, Receive, manager
  <2>2. \E place \in Places \ {"closed"} : at' = [at EXCEPT ![s] = place] \/ at' = at
    <3>1. CASE Identify(s) \/ Save(s) \/ Lookup(s) \/ CommitMove(s) \/ FailMove(s) \/ Reset(s)
               \/ NewBoard(s) \/ CreateRow(s) \/ FailRow(s)
      BY <3>1 DEF Identify, Save, Lookup, CommitMove, FailMove, Reset, NewBoard, CreateRow, FailRow,
                  Goto, Places
    <3>2. CASE BeginMove(s) \/ Load(s) \/ Vote(s)
      BY <3>2 DEF BeginMove, Load, Vote, Goto, Places
    <3> QED BY <1>5, <3>1, <3>2
  <2> QED BY <2>1, <2>2, <1>4
<1>6. ASSUME \/ \E s \in Sockets : SendMove(s) \/ SendRematch(s) \/ Drop(s)
             \/ UNCHANGED vars
      PROVE  RoomIsRunning'
  <2>1. UNCHANGED <<room, identified, votes, dbGame, at, pruned>>
    BY <1>6 DEF SendMove, SendRematch, Send, Drop, vars, manager
  <2> QED BY <2>1 DEF RoomIsRunning
<1>7. ASSUME Next PROVE RoomIsRunning'
  <2>1. PICK s \in Sockets : Step(s) \/ Connect(s) \/ SendMove(s) \/ SendRematch(s) \/ Drop(s)
    BY <1>7 DEF Next
  <2>2. CASE Step(s)
    BY <1>2, <1>3, <1>5, <2>2 DEF Step
  <2>3. CASE ~Step(s)
    BY <1>1, <1>6, <2>1, <2>3
  <2> QED BY <2>2, <2>3
<1>8. RoomIsRunning'
  BY <1>6, <1>7
<1> QED BY <1>8 DEF RoomIsRunning

(* Once every handler of a room has ended, nothing is kept for it, unless  *)
(* a broadcast pruned a connection whose handler was still to run.         *)
THEOREM EmptyRoomIsClean == Spec => []LastOneOutClears
<1>1. RoomIsRunning => LastOneOutClears
  BY DEF RoomIsRunning, LastOneOutClears
<1> QED BY TypeInit, TypeNext, RunningInit, RunningNext, <1>1, PTL DEF Spec

-----------------------------------------------------------------------------
(* The records.  While each player keeps to one page and nothing fails, a  *)
(* rematch finds no move under way: whoever has voted has seen the end of  *)
(* the game, and sends no move until the rematch is announced.             *)

Undisturbed == OnePageEach /\ drops = 0 /\ failures = 0

Open == room = up /\ up = {s \in Sockets : at[s] # "closed"}

(* The page has voted and waits.                                           *)
Idle(s) ==
    /\ at[s] = "receive" /\ inbox[s] = Nothing
    /\ seen[s] = GameLength /\ s \in asked

(* The handler of the last vote, until its new row is there, and after.    *)
Resets(s)   == at[s] \in {"reset", "restart", "create"}
Restarts(s) == Resets(s) \/ (at[s] = "announce" /\ job[s].pieces = 0)

VotersWait ==
    /\ \A s \in Sockets : Owner[s] \in votes => Idle(s)
    /\ \A s \in Sockets : inbox[s] = "rematch" => seen[s] = GameLength /\ s \in asked
    /\ \A s \in Sockets : Restarts(s) =>
           /\ votes = {} /\ inbox[s] = Nothing /\ seen[s] = GameLength /\ s \in asked
           /\ \A t \in Sockets \ {s} : Idle(t)

(* A handler that has made a move carries a board with a piece.            *)
MovesHavePieces ==
    \A s \in Sockets :
        /\ at[s] \in {"save", "lookup", "commit"} => job[s].pieces \in 1 .. GameLength
        /\ at[s] \notin {"save", "lookup", "commit", "announce"} => job[s].pieces = 0

RematchInv == Undisturbed => Open /\ VotersWait /\ MovesHavePieces

LEMMA RematchInit == Init => RematchInv
<1> SUFFICES ASSUME Init PROVE RematchInv
  OBVIOUS
<1>1. Nothing # "rematch"
  OBVIOUS
<1>2. Open /\ VotersWait
  BY <1>1 DEF Init, Open, VotersWait, Restarts, Resets
<1>3. MovesHavePieces
  BY DEF Init, MovesHavePieces, NoJob
<1> QED BY <1>2, <1>3 DEF RematchInv

(* Without a broken connection nobody is taken out of the room.            *)
LEMMA NobodyLeaves ==
    ASSUME Open, NEW s \in Sockets
    PROVE  /\ ~HangUp(s)
           /\ Greet(s) \/ Announce(s) => room' = room /\ votes' = votes /\ dbGame' = dbGame
<1>1. ~HangUp(s)
  BY DEF HangUp, Open
<1>2. ASSUME Broadcast PROVE room' = room /\ votes' = votes /\ dbGame' = dbGame
  <2>1. PICK dead \in SUBSET (room \ up) : Disconnect(dead)
    BY <1>2 DEF Broadcast
  <2>2. dead = {}
    BY <2>1 DEF Open
  <2> QED BY <2>1, <2>2 DEF Disconnect
<1> QED BY <1>1, <1>2 DEF Greet, Announce

(* A step of a page that does not wait, or of its handler, goes on beside  *)
(* those that do, and there is no rematch under way.                       *)
LEMMA Beside ==
    ASSUME VotersWait, NEW s \in Sockets, ~Idle(s), ~Restarts(s), ~Restarts(s)', votes' = votes,
           \A t \in Sockets \ {s} :
               /\ at'[t] = at[t] /\ inbox'[t] = inbox[t] /\ job'[t] = job[t]
               /\ seen[t] = GameLength => seen'[t] = GameLength
               /\ t \in asked => t \in asked',
           inbox'[s] = "rematch" => seen'[s] = GameLength /\ s \in asked'
    PROVE  /\ VotersWait'
           /\ Owner[s] \notin votes
           /\ \A t \in Sockets : ~Restarts(t) /\ ~Restarts(t)'
<1>1. Owner[s] \notin votes
  BY DEF VotersWait
<1>2. \A t \in Sockets : ~Restarts(t)
  BY DEF VotersWait
<1>3. \A t \in Sockets : ~Restarts(t)'
  BY <1>2 DEF Restarts, Resets
<1>4. \A t \in Sockets : Owner[t] \in votes => Idle(t)'
  BY <1>1 DEF VotersWait, Idle
<1>5. \A t \in Sockets : inbox'[t] = "rematch" => seen'[t] = GameLength /\ t \in asked'
  BY DEF VotersWait
<1> QED BY <1>1, <1>2, <1>3, <1>4, <1>5 DEF VotersWait

(* What is undisturbed after a step was so before it.                      *)
LEMMA NothingFails ==
    ASSUME TypeInv, [Next]_vars, Undisturbed'
    PROVE  Undisturbed /\ \A s \in Sockets : ~Drop(s) /\ ~FailMove(s) /\ ~FailRow(s)
<1>1. drops \in Nat /\ failures \in Nat
  BY DEF TypeInv, TypeOK
<1>2. \A s \in Sockets : ~Drop(s) /\ ~FailMove(s) /\ ~FailRow(s)
  BY <1>1 DEF Drop, FailMove, FailRow, Failed, Undisturbed
<1>3. drops' = drops /\ failures' = failures
  BY <1>2 DEF Next, Step, Connect, SendMove, SendRematch, Send, Identify, Greet, HangUp,
              BeginMove, Load, Save, Lookup, CommitMove, Announce, Vote, Reset, NewBoard,
              CreateRow, vars, counters
<1> QED BY <1>2, <1>3 DEF Undisturbed, OnePageEach

LEMMA RematchNext == TypeInv /\ RematchInv /\ [Next]_vars => RematchInv'
<1> SUFFICES ASSUME TypeInv, RematchInv, [Next]_vars, Undisturbed'
             PROVE  (Open /\ VotersWait /\ MovesHavePieces)'
  BY DEF RematchInv
<1>0. /\ at \in [Sockets -> Places] /\ inbox \in [Sockets -> {"identify", "move", "rematch", Nothing}]
      /\ seen \in [Sockets -> 0 .. GameLength] /\ room \subseteq Sockets /\ up \subseteq Sockets
      /\ job \in [Sockets -> [pieces : 0 .. GameLength, row : 0 .. Len(rows)]]
      /\ drops \in Nat /\ failures \in Nat /\ votes \subseteq Players /\ asked \subseteq Sockets
      /\ GameLength \in Nat \ {0}
      /\ Nothing # "identify" /\ Nothing # "move" /\ Nothing # "rematch"
  BY DEF TypeInv, TypeOK
<1>1. Undisturbed /\ \A s \in Sockets : ~Drop(s) /\ ~FailMove(s) /\ ~FailRow(s)
  BY NothingFails
<1>2. OnePageEach /\ Open /\ VotersWait /\ MovesHavePieces
  BY <1>1 DEF RematchInv, Undisturbed
<1> DEFINE Same(s) ==
        \A t \in Sockets \ {s} : /\ at'[t] = at[t] /\ inbox'[t] = inbox[t] /\ job'[t] = job[t]
                                 /\ seen[t] = GameLength => seen'[t] = GameLength
                                 /\ t \in asked => t \in asked'
<1>3. ASSUME NEW s \in Sockets, Connect(s) PROVE (Open /\ VotersWait /\ MovesHavePieces)'
  <2>1. /\ at[s] = "closed" /\ at' = [at EXCEPT ![s] = "receive"]
        /\ room' = room \cup {s} /\ up' = up \cup {s}
        /\ inbox' = [inbox EXCEPT ![s] = "identify"] /\ asked' = asked \ {s}
        /\ seen' = [seen EXCEPT ![s] = Pieces] /\ UNCHANGED <<votes, job>>
    BY <1>3 DEF Connect, Goto
  <2>2. ~Idle(s) /\ ~Restarts(s) /\ ~Restarts(s)' /\ Same(s) /\ inbox'[s] # "rematch"
    BY <1>0, <2>1 DEF Idle, Restarts, Resets
  <2>3. VotersWait'
    BY <1>2, <2>1, <2>2, Beside
  <2>4. Open' /\ MovesHavePieces'
    BY <1>0, <1>2, <2>1 DEF Open, MovesHavePieces
  <2> QED BY <2>3, <2>4
<1>4. ASSUME NEW s \in Sockets, SendMove(s) \/ SendRematch(s)
      PROVE  (Open /\ VotersWait /\ MovesHavePieces)'
  <2>1. /\ UNCHANGED <<at, room, up, votes, job, seen>>
        /\ \/ seen[s] < GameLength /\ inbox' = [inbox EXCEPT ![s] = "move"] /\ asked' = asked
           \/ /\ seen[s] = GameLength /\ s \notin asked /\ inbox' = [inbox EXCEPT ![s] = "rematch"]
              /\ asked' = asked \cup {s}
    BY <1>4 DEF SendMove, SendRematch, Send, manager
  <2>2. ~Idle(s)
    BY <1>0, <2>1 DEF Idle
  <2>3. ~Restarts(s) /\ ~Restarts(s)'
    BY <1>0, <1>2, <2>1 DEF VotersWait, Restarts, Resets
  <2>4. Same(s) /\ (inbox'[s] = "rematch" => seen'[s] = GameLength /\ s \in asked')
    BY <1>0, <2>1
  <2>5. VotersWait'
    BY <1>2, <2>1, <2>2, <2>3, <2>4, Beside
  <2>6. Open' /\ MovesHavePieces'
    BY <1>2, <2>1 DEF Open, MovesHavePieces
  <2> QED BY <2>5, <2>6
<1>5. ASSUME NEW s \in Sockets, NEW place \in Places \ {"closed"}, at' = [at EXCEPT ![s] = place],
             at[s] # "closed", ~Idle(s), ~Restarts(s), ~Restarts(s)', votes' = votes,
             room' = room, up' = up, asked' = asked,
             inbox' = inbox \/ inbox' = [inbox EXCEPT ![s] = Nothing],
             \A t \in Sockets : seen[t] = GameLength => seen'[t] = GameLength,
             \A t \in Sockets \ {s} : job'[t] = job[t],
             place \in {"save", "lookup", "commit"} => job'[s].pieces \in 1 .. GameLength,
             place \notin {"save", "lookup", "commit", "announce"} => job'[s].pieces = 0
      PROVE  (Open /\ VotersWait /\ MovesHavePieces)'
  <2>1. Same(s)
    BY <1>0, <1>5
  <2>2. inbox'[s] = "rematch" => seen'[s] = GameLength /\ s \in asked'
    BY <1>0, <1>2, <1>5 DEF VotersWait
  <2>3. VotersWait'
    BY <1>2, <1>5, <2>1, <2>2, Beside
  <2>4. Open'
    BY <1>0, <1>2, <1>5 DEF Open
  <2>5. MovesHavePieces'
    BY <1>0, <1>2, <1>5 DEF MovesHavePieces
  <2> QED BY <2>3, <2>4, <2>5
<1>6. ASSUME NEW s \in Sockets, Identify(s) \/ Greet(s) PROVE (Open /\ VotersWait /\ MovesHavePieces)'
  <2>1. /\ (at[s] = "receive" /\ inbox[s] = "identify") \/ at[s] = "greet"
        /\ at' = [at EXCEPT ![s] = "greet"] \/ at' = [at EXCEPT ![s] = "receive"]
        /\ inbox' = inbox \/ inbox' = [inbox EXCEPT ![s] = Nothing]
        /\ UNCHANGED <<job, up, seen, asked>>
    BY <1>6 DEF Identify, Greet, Receive, Goto, browser
  <2>2. room' = room /\ votes' = votes
    BY <1>2, <1>6, NobodyLeaves DEF Identify
  <2>3. /\ ~Idle(s) /\ ~Restarts(s) /\ ~Restarts(s)'
        /\ job'[s].pieces = 0 /\ at[s] # "closed"
    BY <1>0, <1>2, <2>1 DEF Idle, Restarts, Resets, MovesHavePieces
  <2> QED BY <1>5, <2>1, <2>2, <2>3 DEF Places
<1>7. ASSUME NEW s \in Sockets, BeginMove(s) \/ Load(s) \/ Save(s) \/ Lookup(s)
      PROVE  (Open /\ VotersWait /\ MovesHavePieces)'
  <2> DEFINE Lands(place) == at' = [at EXCEPT ![s] = place]
  <2>1. UNCHANGED <<votes, room, up, seen, asked>>
    BY <1>7 DEF BeginMove, Load, Save, Lookup, manager, browser
  <2>2. ~Idle(s) /\ ~Restarts(s) /\ at[s] # "closed"
    BY <1>0, <1>7 DEF BeginMove, Receive, Load, Save, Lookup, Idle, Restarts, Resets
  <2>3. inbox' = inbox \/ inbox' = [inbox EXCEPT ![s] = Nothing]
    BY <1>7 DEF BeginMove, Receive, Load, Save, Lookup
  <2>4. \A t \in Sockets \ {s} : job'[t] = job[t]
    BY <1>0, <1>7 DEF BeginMove, Load, Save, Lookup
  <2>5. CASE BeginMove(s)
    <3>1. job' = job /\ at[s] = "receive" /\ (Lands("receive") \/ Lands("load"))
      BY <1>0, <2>5 DEF BeginMove, Receive, Goto
    <3>2. ~Restarts(s)' /\ job'[s].pieces = 0
      BY <1>0, <1>2, <3>1 DEF MovesHavePieces, Restarts, Resets
    <3> QED BY <1>5, <2>1, <2>2, <2>3, <2>4, <3>1, <3>2 DEF Places
  <2>6. CASE Load(s)
    <3>1. at[s] = "load" /\ Pieces \in 0 .. GameLength
      BY <2>6 DEF Load, Pieces, TypeInv, TypeOK
    <3>2. \/ Lands("save") /\ Pieces < GameLength /\ job'[s].pieces = Pieces + 1
          \/ Lands("receive") /\ job' = job
      BY <1>0, <2>6 DEF Load, Goto
    <3>3. ~Restarts(s)'
      BY <1>0, <3>2 DEF Restarts, Resets
    <3>4. \/ Lands("save") /\ job'[s].pieces \in 1 .. GameLength
          \/ Lands("receive") /\ job'[s].pieces = 0
      BY <1>0, <1>2, <3>1, <3>2 DEF MovesHavePieces
    <3> QED BY <1>5, <2>1, <2>2, <2>3, <2>4, <3>3, <3>4 DEF Places
  <2>7. CASE Save(s) \/ Lookup(s)
    <3>1. /\ at[s] \in {"save", "lookup"}
          /\ Lands("lookup") \/ Lands("commit")
          /\ job'[s].pieces = job[s].pieces
      BY <1>0, <2>7 DEF Save, Lookup, Goto
    <3>2. ~Restarts(s)' /\ job'[s].pieces \in 1 .. GameLength
      BY <1>0, <1>2, <2>7, <3>1 DEF Save, Lookup, Restarts, Resets, MovesHavePieces
    <3> QED BY <1>5, <2>1, <2>2, <2>3, <2>4, <3>1, <3>2 DEF Places
  <2> QED BY <1>7, <2>5, <2>6, <2>7
<1>8. ASSUME NEW s \in Sockets, CommitMove(s) PROVE (Open /\ VotersWait /\ MovesHavePieces)'
  <2>1. /\ at[s] = "commit" /\ at' = [at EXCEPT ![s] = "announce"]
        /\ UNCHANGED <<votes, room, up, seen, asked, inbox, job>>
    BY <1>8 DEF CommitMove, Goto, manager, browser
  <2>2. job[s].pieces \in 1 .. GameLength
    BY <1>2, <2>1 DEF MovesHavePieces
  <2>3. ~Idle(s) /\ ~Restarts(s) /\ ~Restarts(s)'
    BY <1>0, <2>1, <2>2 DEF Idle, Restarts, Resets
  <2> QED BY <1>5, <2>1, <2>3 DEF Places
<1>9. ASSUME NEW s \in Sockets, Announce(s) PROVE (Open /\ VotersWait /\ MovesHavePieces)'
  <2>1. /\ at[s] = "announce" /\ at' = [at EXCEPT ![s] = "receive"]
        /\ job' = [job EXCEPT ![s] = NoJob] /\ UNCHANGED <<up, inbox>>
        /\ seen' = [t \in Sockets |-> IF t \in room \cap up THEN Shown(t, job[s].pieces) ELSE seen[t]]
        /\ asked' = IF job[s].pieces = 0 THEN asked \ (room \cap up) ELSE asked
    BY <1>9 DEF Announce, Goto
  <2>2. room' = room /\ votes' = votes
    BY <1>2, <1>9, NobodyLeaves
  <2>3. job'[s].pieces = 0
    BY <1>0, <2>1 DEF NoJob
  <2>4. CASE job[s].pieces # 0
    <3>1. ~Idle(s) /\ ~Restarts(s) /\ ~Restarts(s)'
      BY <1>0, <2>1, <2>4 DEF Idle, Restarts, Resets
    <3>2. /\ \A t \in Sockets : seen[t] = GameLength => seen'[t] = GameLength
          /\ asked' = asked /\ \A t \in Sockets \ {s} : job'[t] = job[t]
      BY <1>0, <2>1, <2>4 DEF Shown
    <3> QED BY <1>5, <2>1, <2>2, <2>3, <3>1, <3>2 DEF Places
  <2>5. CASE job[s].pieces = 0
    <3>1. /\ votes = {} /\ inbox[s] = Nothing
          /\ \A t \in Sockets \ {s} : at[t] = "receive" /\ inbox[t] = Nothing
      BY <1>2, <2>1, <2>5 DEF VotersWait, Restarts, Idle
    <3>2. \A t \in Sockets : at'[t] = "receive" /\ inbox'[t] = Nothing /\ job'[t].pieces = 0
      BY <1>0, <1>2, <2>1, <2>3, <3>1 DEF MovesHavePieces
    <3>3. VotersWait' /\ MovesHavePieces'
      BY <1>0, <2>2, <3>1, <3>2 DEF VotersWait, MovesHavePieces, Restarts, Resets
    <3>4. Open'
      BY <1>0, <1>2, <2>1, <2>2, <3>2 DEF Open
    <3> QED BY <3>3, <3>4
  <2> QED BY <2>4, <2>5
<1>10. ASSUME NEW s \in Sockets, Vote(s) PROVE (Open /\ VotersWait /\ MovesHavePieces)'
  <2>1. /\ at[s] = "receive" /\ inbox[s] = "rematch" /\ inbox' = [inbox EXCEPT ![s] = Nothing]
        /\ room' = room /\ up' = up /\ seen' = seen /\ asked' = asked /\ job' = job
    BY <1>10 DEF Vote, Receive, browser
  <2>2. \/ votes \cup {Owner[s]} = Players /\ votes' = {} /\ at' = [at EXCEPT ![s] = "reset"]
        \/ votes' = votes \cup {Owner[s]} /\ at' = at
    BY <1>10 DEF Vote, Goto
  <2>3. /\ at'[s] \in {"receive", "reset"}
        /\ \A t \in Sockets \ {s} : at'[t] = at[t] /\ inbox'[t] = inbox[t]
    BY <1>0, <2>1, <2>2
  <2>4. /\ seen[s] = GameLength /\ s \in asked /\ ~Idle(s)
        /\ \A t \in Sockets : ~Restarts(t)
    BY <1>0, <1>2, <2>1 DEF VotersWait, Idle, Restarts, Resets
  <2>5. \A t \in Sockets \ {s} : Owner[t] # Owner[s] /\ Owner[t] \in Players
    BY <1>2 DEF OnePageEach, Players
  <2>6. \A t \in Sockets \ {s} : Idle(t) => Idle(t)'
    BY <2>1, <2>3 DEF Idle
  <2>7. inbox'[s] = Nothing /\ seen'[s] = GameLength /\ s \in asked'
    BY <1>0, <2>1, <2>4
  <2>8. Open'
    BY <1>2, <2>1, <2>3 DEF Open
  <2>9. MovesHavePieces'
    <3>1. job[s].pieces = 0
      BY <1>2, <2>1 DEF MovesHavePieces
    <3> QED BY <1>2, <2>1, <2>3, <3>1 DEF MovesHavePieces
  <2>10. \A t \in Sockets : inbox'[t] = "rematch" => seen'[t] = GameLength /\ t \in asked'
    <3>1. \A t \in Sockets : inbox[t] = "rematch" => seen[t] = GameLength /\ t \in asked
      BY <1>2 DEF VotersWait
    <3> QED BY <2>1, <2>3, <2>7, <3>1
  <2>11. CASE votes \cup {Owner[s]} = Players /\ votes' = {} /\ at' = [at EXCEPT ![s] = "reset"]
    <3>1. \A t \in Sockets \ {s} : Owner[t] \in votes
      BY <2>5, <2>11
    <3>2. \A t \in Sockets \ {s} : Idle(t)'
      BY <1>2, <2>6, <3>1 DEF VotersWait
    <3>3. \A t \in Sockets \ {s} : ~Restarts(t)'
      BY <3>2 DEF Idle, Restarts, Resets
    <3>4. \A t \in Sockets : Owner[t] \in votes' => Idle(t)'
      BY <2>11
    <3>5. \A t \in Sockets : Restarts(t)' =>
             /\ votes' = {} /\ inbox'[t] = Nothing /\ seen'[t] = GameLength /\ t \in asked'
             /\ \A v \in Sockets \ {t} : Idle(v)'
      BY <2>7, <2>11, <3>2, <3>3
    <3> QED BY <2>8, <2>9, <2>10, <3>4, <3>5 DEF VotersWait
  <2>12. CASE votes' = votes \cup {Owner[s]} /\ at' = at
    <3>1. Idle(s)'
      BY <2>1, <2>7, <2>12 DEF Idle
    <3>2. \A t \in Sockets : Owner[t] \in votes' => Idle(t)'
      BY <1>2, <2>5, <2>6, <2>12, <3>1 DEF VotersWait
    <3>3. \A t \in Sockets : ~Restarts(t)'
      BY <2>1, <2>4, <2>12 DEF Restarts, Resets
    <3> QED BY <2>8, <2>9, <2>10, <3>2, <3>3 DEF VotersWait
  <2> QED BY <2>2, <2>11, <2>12
<1>11. ASSUME NEW s \in Sockets, Reset(s) \/ NewBoard(s) \/ CreateRow(s)
       PROVE  (Open /\ VotersWait /\ MovesHavePieces)'
  <2>1. /\ Resets(s) /\ room' = room /\ up' = up /\ votes' = votes /\ seen' = seen
        /\ asked' = asked /\ job' = job /\ inbox' = inbox
        /\ \E place \in {"restart", "create", "announce"} : at' = [at EXCEPT ![s] = place]
    BY <1>11 DEF Reset, NewBoard, CreateRow, Resets, Goto, manager, browser
  <2>2. job[s].pieces = 0 /\ at[s] # "closed"
    BY <1>2, <2>1 DEF MovesHavePieces, Resets
  <2>3. at'[s] \in {"restart", "create", "announce"} /\ \A t \in Sockets \ {s} : at'[t] = at[t]
    BY <1>0, <2>1
  <2>4. /\ votes = {} /\ inbox[s] = Nothing /\ seen[s] = GameLength /\ s \in asked
        /\ \A t \in Sockets \ {s} : Idle(t)
    BY <1>2, <2>1 DEF VotersWait, Restarts
  <2>5. \A t \in Sockets \ {s} : Idle(t)' /\ ~Restarts(t)'
    BY <2>1, <2>3, <2>4 DEF Idle, Restarts, Resets
  <2>6. VotersWait'
    <3>1. \A t \in Sockets : inbox'[t] = "rematch" => seen'[t] = GameLength /\ t \in asked'
      BY <1>2, <2>1 DEF VotersWait
    <3>2. votes' = {} /\ inbox'[s] = Nothing /\ seen'[s] = GameLength /\ s \in asked'
      BY <2>1, <2>4
    <3>3. \A t \in Sockets : Owner[t] \in votes' => Idle(t)'
      BY <3>2
    <3>4. ASSUME NEW t \in Sockets, Restarts(t)' PROVE t = s
      BY <2>5, <3>4
    <3>5. \A t \in Sockets : Restarts(t)' =>
             /\ votes' = {} /\ inbox'[t] = Nothing /\ seen'[t] = GameLength /\ t \in asked'
             /\ \A v \in Sockets \ {t} : Idle(v)'
      BY <2>5, <3>2, <3>4
    <3> QED BY <3>1, <3>3, <3>5 DEF VotersWait
  <2>7. Open'
    BY <1>2, <2>1, <2>2, <2>3 DEF Open
  <2>8. MovesHavePieces'
    <3>1. \A t \in Sockets \ {s} : at'[t] = at[t] /\ job'[t] = job[t]
      BY <2>1, <2>3
    <3>2. job'[s].pieces = 0 /\ at'[s] \notin {"save", "lookup", "commit"}
      BY <2>1, <2>2, <2>3
    <3> QED BY <1>2, <3>1, <3>2 DEF MovesHavePieces
  <2> QED BY <2>6, <2>7, <2>8
<1>12. CASE UNCHANGED vars
  <2>1. UNCHANGED <<room, up, votes, at, job, inbox, seen, asked>>
    BY <1>12 DEF vars, manager, browser
  <2>2. Open' /\ MovesHavePieces'
    BY <1>2, <2>1 DEF Open, MovesHavePieces
  <2>3. VotersWait'
    BY <1>2, <2>1 DEF VotersWait, Idle, Restarts, Resets
  <2> QED BY <2>2, <2>3
<1>13. ASSUME NEW s \in Sockets, Step(s) PROVE (Open /\ VotersWait /\ MovesHavePieces)'
  <2>1. ~HangUp(s) /\ ~FailMove(s) /\ ~FailRow(s)
    BY <1>1, <1>2, NobodyLeaves
  <2> QED BY <1>6, <1>7, <1>8, <1>9, <1>10, <1>11, <1>13, <2>1 DEF Step
<1> QED BY <1>1, <1>3, <1>4, <1>12, <1>13 DEF Next

(* What the games' rows and the board then have to do with each other.     *)
Last     == rows[Len(rows)]
Holds(s) == at[s] \in {"load", "save"}
Late(s)  == at[s] \in {"lookup", "commit"}

(* The lock lets one move at a time at the board, and the move it saves is *)
(* the next one of that board.                                             *)
OneAtATime ==
    /\ \A s \in Sockets : Holds(s) => locked
    /\ \A s, t \in Sockets : Holds(s) /\ Holds(t) => s = t
    /\ \A s \in Sockets : at[s] = "save" => job[s].pieces = Pieces + 1

(* Every move that waits for its record goes into the last row, where its  *)
(* number is still free, and no two of them have the same number.          *)
LateOnce ==
    /\ CurrentRow = Len(rows)
    /\ \A s \in Sockets : at[s] = "commit" => job[s].row = Len(rows)
    /\ \A s \in Sockets : Late(s) => Last.moves[job[s].pieces] = 0
    /\ \A s, t \in Sockets :
           Late(s) /\ Late(t) /\ job[s].pieces = job[t].pieces => s = t

RowsOnce ==
    \A r \in 1 .. Len(rows) :
        /\ rows[r].finishes = rows[r].moves[GameLength]
        /\ \A n \in 1 .. GameLength : rows[r].moves[n] \in {0, 1}

(* Unless a rematch is being set up, the records are not ahead of the      *)
(* board.                                                                  *)
NotAhead ==
    (\A s \in Sockets : ~Resets(s)) =>
        /\ \A n \in 1 .. GameLength : n > Pieces => Last.moves[n] = 0
        /\ \A s \in Sockets : Late(s) => job[s].pieces <= Pieces

Records    == OneAtATime /\ LateOnce /\ RowsOnce /\ NotAhead
RecordsInv == Undisturbed => Records

LEMMA RecordsInit == Init => RecordsInv
<1> SUFFICES ASSUME Init PROVE Records
  BY DEF RecordsInv
<1>1. rows = <<NewRow>> /\ Len(rows) = 1 /\ \A s \in Sockets : at[s] = "closed"
  BY DEF Init
<1>2. /\ rows[1].finishes = 0 /\ \A n \in 1 .. GameLength : rows[1].moves[n] = 0
      /\ GameLength \in 1 .. GameLength
  BY <1>1 DEF NewRow
<1>3. OneAtATime
  BY <1>1 DEF OneAtATime, Holds
<1>4. LateOnce
  BY <1>1 DEF LateOnce, Late, CurrentRow, Init
<1>5. RowsOnce
  <2> SUFFICES ASSUME NEW r \in 1 .. Len(rows)
               PROVE  /\ rows[r].finishes = rows[r].moves[GameLength]
                      /\ \A n \in 1 .. GameLength : rows[r].moves[n] \in {0, 1}
    BY DEF RowsOnce
  <2>1. r = 1
    BY <1>1
  <2> QED BY <1>2, <2>1
<1>6. NotAhead
  BY <1>1, <1>2 DEF NotAhead, Last, Late
<1> QED BY <1>3, <1>4, <1>5, <1>6 DEF Records

(* A step that leaves the rows and the moves that wait for them alone.     *)
LEMMA RowsStand ==
    ASSUME LateOnce, RowsOnce, NotAhead, OneAtATime', rows' = rows, dbGame' = dbGame,
           Pieces' = Pieces,
           \A t \in Sockets : Late(t)' => Late(t) /\ job'[t] = job[t],
           \A t \in Sockets : Resets(t) => Resets(t)',
           \A t \in Sockets : at'[t] = "commit" => at[t] = "commit"
    PROVE  Records'
<1>1. CurrentRow' = CurrentRow /\ Last' = Last /\ Len(rows') = Len(rows)
  BY DEF CurrentRow, Last
<1>2. LateOnce'
  <2>1. CurrentRow' = Len(rows')
    BY <1>1 DEF LateOnce
  <2>2. \A t \in Sockets : at'[t] = "commit" => job'[t].row = Len(rows')
    BY <1>1 DEF LateOnce, Late
  <2>3. \A t \in Sockets : Late(t)' => Last'.moves[job'[t].pieces] = 0
    BY <1>1 DEF LateOnce
  <2>4. \A t, v \in Sockets :
           Late(t)' /\ Late(v)' /\ job'[t].pieces = job'[v].pieces => t = v
    BY DEF LateOnce
  <2> QED BY <2>1, <2>2, <2>3, <2>4 DEF LateOnce
<1>3. RowsOnce'
  BY DEF RowsOnce
<1>4. NotAhead'
  BY <1>1 DEF NotAhead
<1> QED BY <1>2, <1>3, <1>4 DEF Records

(* A step that leaves the board and the handlers of moves alone as well.   *)
LEMMA MovesStand ==
    ASSUME Records, rows' = rows, board' = board, dbGame' = dbGame, locked' = locked,
           \A t \in Sockets : Holds(t)' \/ Late(t)' => at'[t] = at[t] /\ job'[t] = job[t],
           \A t \in Sockets : Resets(t) => Resets(t)'
    PROVE  Records'
<1>1. Pieces' = Pieces
  BY DEF Pieces
<1>2. \A t \in Sockets : (Holds(t)' => Holds(t)) /\ (Late(t)' => Late(t) /\ job'[t] = job[t])
  BY DEF Holds, Late
<1>3. \A t \in Sockets : at'[t] \in {"save", "commit"} => at'[t] = at[t] /\ job'[t] = job[t]
  BY DEF Holds, Late
<1>4. OneAtATime'
  BY <1>1, <1>2, <1>3 DEF Records, OneAtATime
<1>5. LateOnce /\ RowsOnce /\ NotAhead /\ \A t \in Sockets : at'[t] = "commit" => at[t] = "commit"
  BY <1>3 DEF Records
<1> QED BY <1>1, <1>2, <1>4, <1>5, RowsStand

(* While somebody's move is at the board or waits for its record, no       *)
(* rematch is being set up, and the move has a number of the game.         *)
LEMMA MoversAreAlone ==
    ASSUME VotersWait, MovesHavePieces, NEW s \in Sockets, Holds(s) \/ Late(s)
    PROVE  /\ \A t \in Sockets : ~Resets(t)
           /\ at[s] # "load" => job[s].pieces \in 1 .. GameLength
<1>1. ~Idle(s) /\ ~Restarts(s)
  BY DEF Holds, Late, Idle, Restarts, Resets
<1>2. \A t \in Sockets : ~Resets(t)
  BY <1>1 DEF VotersWait, Restarts
<1>3. at[s] # "load" => job[s].pieces \in 1 .. GameLength
  BY DEF MovesHavePieces, Holds, Late
<1> QED BY <1>2, <1>3

LEMMA RecordsNext == TypeInv /\ RematchInv /\ RecordsInv /\ [Next]_vars => RecordsInv'
<1> SUFFICES ASSUME TypeInv, RematchInv, RecordsInv, [Next]_vars, Undisturbed'
             PROVE  Records'
  BY DEF RecordsInv
<1>0. /\ at \in [Sockets -> Places] /\ locked \in BOOLEAN
      /\ job \in [Sockets -> [pieces : 0 .. GameLength, row : 0 .. Len(rows)]]
      /\ GameLength \in Nat \ {0} /\ Pieces \in 0 .. GameLength
      /\ rows \in Seq(Row) /\ Len(rows) \in Nat /\ Len(rows) >= 1
  BY DEF TypeInv, TypeOK, Row, Pieces
<1>1. Undisturbed /\ \A s \in Sockets : ~Drop(s) /\ ~FailMove(s) /\ ~FailRow(s)
  BY NothingFails
<1>2. OnePageEach /\ Open /\ VotersWait /\ MovesHavePieces /\ Records
  BY <1>1 DEF RematchInv, RecordsInv, Undisturbed
<1>3. OneAtATime /\ LateOnce /\ RowsOnce /\ NotAhead
  BY <1>2 DEF Records
<1>4. ASSUME NEW s \in Sockets,
             \/ Connect(s) \/ SendMove(s) \/ SendRematch(s)
             \/ Identify(s) \/ Greet(s) \/ Announce(s) \/ Vote(s)
      PROVE  Records'
  <2>1. rows' = rows /\ board' = board /\ locked' = locked
    BY <1>4 DEF Connect, SendMove, SendRematch, Send, Identify, Greet, Announce, Vote, redis
  <2>2. dbGame' = dbGame
    <3>1. CASE Greet(s) \/ Announce(s)
      BY <1>2, <3>1, NobodyLeaves
    <3>2. CASE ~(Greet(s) \/ Announce(s))
      BY <1>4, <3>2 DEF Connect, SendMove, SendRematch, Send, Identify, Vote, manager
    <3> QED BY <3>1, <3>2
  <2>3. \/ at' = at
        \/ /\ at[s] \in {"closed", "receive", "greet", "announce"}
           /\ \E place \in {"receive", "greet", "reset"} : at' = [at EXCEPT ![s] = place]
    <3>1. CASE Connect(s) \/ SendMove(s) \/ SendRematch(s)
      BY <3>1 DEF Connect, SendMove, SendRematch, Send, Goto
    <3>2. CASE Identify(s) \/ Greet(s) \/ Announce(s)
      BY <3>2 DEF Identify, Greet, Announce, Goto, Receive
    <3>3. CASE Vote(s)
      BY <3>3 DEF Vote, Goto, Receive
    <3> QED BY <1>4, <3>1, <3>2, <3>3
  <2>4. \A t \in Sockets : \/ at'[t] = at[t]
                           \/ /\ t = s /\ at[t] \in {"closed", "receive", "greet", "announce"}
                              /\ at'[t] \in {"receive", "greet", "reset"}
    BY <1>0, <2>3
  <2>5. Announce(s) \/ job' = job
    BY <1>4 DEF Connect, SendMove, SendRematch, Send, Identify, Greet, Vote
  <2>6. ASSUME NEW t \in Sockets, Holds(t)' \/ Late(t)' PROVE at'[t] = at[t] /\ job'[t] = job[t]
    <3>1. at'[t] = at[t]
      BY <2>4, <2>6 DEF Holds, Late
    <3>2. CASE Announce(s)
      <4>1. at[s] = "announce" /\ at'[s] = "receive" /\ job' = [job EXCEPT ![s] = NoJob]
        BY <1>0, <3>2 DEF Announce, Goto
      <4>2. t # s
        BY <3>1, <4>1
      <4> QED BY <1>0, <3>1, <4>1, <4>2
    <3> QED BY <2>5, <3>1, <3>2
  <2>7. ASSUME NEW t \in Sockets, Resets(t) PROVE Resets(t)'
    BY <2>4, <2>7 DEF Resets
  <2> QED BY <1>2, <2>1, <2>2, <2>6, <2>7, MovesStand
<1>5. ASSUME NEW s \in Sockets, BeginMove(s) PROVE Records'
  <2>1. at[s] = "receive" /\ rows' = rows /\ board' = board /\ dbGame' = dbGame /\ job' = job
    BY <1>5 DEF BeginMove, Receive, manager
  <2>2. CASE locked
    <3>1. at' = at /\ locked' = locked
      BY <1>5, <2>2 DEF BeginMove
    <3>2. \A t \in Sockets : Resets(t) => Resets(t)'
      BY <3>1 DEF Resets
    <3> QED BY <1>2, <2>1, <3>1, <3>2, MovesStand
  <2>3. CASE ~locked
    <3>1. locked' = TRUE /\ at'[s] = "load" /\ \A t \in Sockets \ {s} : at'[t] = at[t]
      BY <1>0, <1>5, <2>3 DEF BeginMove, Goto
    <3>2. \A t \in Sockets : ~Holds(t)
      BY <1>3, <2>3 DEF OneAtATime
    <3>3. \A t \in Sockets : (Late(t)' <=> Late(t)) /\ (Resets(t)' <=> Resets(t))
      BY <2>1, <3>1 DEF Late, Resets
    <3>4. \A t \in Sockets : Holds(t)' => t = s
      BY <3>1, <3>2 DEF Holds
    <3>5. \A t \in Sockets : at'[t] # "save" /\ (at'[t] = "commit" => at[t] = "commit")
      BY <3>1, <3>2 DEF Holds
    <3>6. OneAtATime'
      BY <3>1, <3>4, <3>5 DEF OneAtATime
    <3>7. Pieces' = Pieces
      BY <2>1 DEF Pieces
    <3>8. \A t \in Sockets : Late(t)' => Late(t) /\ job'[t] = job[t]
      BY <2>1, <3>3
    <3> QED BY <1>3, <2>1, <3>3, <3>5, <3>6, <3>7, <3>8, RowsStand
  <2> QED BY <2>2, <2>3
<1>6. ASSUME NEW s \in Sockets, Load(s) PROVE Records'
  <2>1. at[s] = "load" /\ rows' = rows /\ dbGame' = dbGame /\ Pieces' = Pieces
    BY <1>0, <1>6 DEF Load, manager, Pieces
  <2>2. Holds(s) /\ locked /\ \A t \in Sockets \ {s} : ~Holds(t)
    BY <1>3, <2>1 DEF Holds, OneAtATime
  <2>3. \/ at'[s] = "save" /\ locked' = locked /\ job'[s].pieces = Pieces + 1
        \/ at'[s] = "receive"
    <3>1. CASE Pieces < GameLength /\ Owner[s] = Turn(Pieces)
      BY <1>0, <1>6, <3>1 DEF Load, Goto
    <3>2. CASE ~(Pieces < GameLength /\ Owner[s] = Turn(Pieces))
      BY <1>0, <1>6, <3>2 DEF Load, Goto
    <3> QED BY <3>1, <3>2
  <2>4. \A t \in Sockets \ {s} : at'[t] = at[t] /\ job'[t] = job[t]
    BY <1>0, <1>6 DEF Load, Goto
  <2>5. \A t \in Sockets : /\ (Late(t)' <=> Late(t)) /\ (Resets(t)' <=> Resets(t))
                           /\ Late(t) => job'[t] = job[t]
    BY <2>1, <2>3, <2>4 DEF Late, Resets
  <2>6. \A t \in Sockets : at'[t] = "commit" => at[t] = "commit"
    BY <2>3, <2>4
  <2>7. OneAtATime'
    <3>1. \A t \in Sockets : Holds(t)' => t = s /\ at'[s] = "save"
      BY <2>2, <2>3, <2>4 DEF Holds
    <3>2. at'[s] = "save" => locked' /\ job'[s].pieces = Pieces' + 1
      BY <2>1, <2>2, <2>3
    <3> QED BY <3>1, <3>2 DEF OneAtATime, Holds
  <2> QED BY <1>3, <2>1, <2>5, <2>6, <2>7, RowsStand
<1>7. ASSUME NEW s \in Sockets, Save(s) PROVE Records'
  <2>1. /\ at[s] = "save" /\ at'[s] = "lookup" /\ \A t \in Sockets \ {s} : at'[t] = at[t]
        /\ rows' = rows /\ dbGame' = dbGame /\ job' = job /\ board' = job[s].pieces
    BY <1>0, <1>7 DEF Save, Goto, manager
  <2>2. /\ job[s].pieces = Pieces + 1 /\ job[s].pieces \in 1 .. GameLength
        /\ \A t \in Sockets : ~Resets(t)
        /\ \A t \in Sockets \ {s} : ~Holds(t)
    <3>1. Holds(s)
      BY <2>1 DEF Holds
    <3>2. job[s].pieces \in 1 .. GameLength /\ \A t \in Sockets : ~Resets(t)
      BY <1>2, <2>1, <3>1, MoversAreAlone
    <3>3. job[s].pieces = Pieces + 1 /\ \A t \in Sockets \ {s} : ~Holds(t)
      BY <1>3, <2>1, <3>1 DEF OneAtATime
    <3> QED BY <3>2, <3>3
  <2>3. Pieces' = Pieces + 1
    BY <2>1, <2>2 DEF Pieces
  <2>4. /\ \A n \in 1 .. GameLength : n > Pieces => Last.moves[n] = 0
        /\ \A t \in Sockets : Late(t) => job[t].pieces <= Pieces
    BY <1>3, <2>2 DEF NotAhead
  <2>5. Last' = Last /\ Len(rows') = Len(rows) /\ CurrentRow' = CurrentRow
    BY <2>1 DEF Last, CurrentRow
  <2>6. /\ \A t \in Sockets : ~Holds(t)' /\ at'[t] # "save"
        /\ \A t \in Sockets : Late(t)' => t = s \/ Late(t)
        /\ \A t \in Sockets : at'[t] = "commit" => at[t] = "commit"
    BY <2>1, <2>2 DEF Holds, Late
  <2>7. Last.moves[job[s].pieces] = 0
    BY <1>0, <2>2, <2>4
  <2>8. \A t \in Sockets : Late(t) => job[t].pieces # job[s].pieces
    BY <1>0, <2>2, <2>4
  <2>9. OneAtATime'
    BY <2>6 DEF OneAtATime
  <2>10. LateOnce'
    <3>1. CurrentRow' = Len(rows') /\ \A t \in Sockets : at'[t] = "commit" => job'[t].row = Len(rows')
      BY <1>3, <2>1, <2>5, <2>6 DEF LateOnce
    <3>2. \A t \in Sockets : Late(t)' => Last'.moves[job'[t].pieces] = 0
      BY <1>3, <2>1, <2>5, <2>6, <2>7 DEF LateOnce
    <3>3. \A t, v \in Sockets :
             Late(t)' /\ Late(v)' /\ job'[t].pieces = job'[v].pieces => t = v
      BY <1>3, <2>1, <2>6, <2>8 DEF LateOnce
    <3> QED BY <3>1, <3>2, <3>3 DEF LateOnce
  <2>11. NotAhead'
    <3>1. \A n \in 1 .. GameLength : n > Pieces' => Last'.moves[n] = 0
      BY <1>0, <2>3, <2>4, <2>5
    <3>2. \A t \in Sockets : Late(t)' => job'[t].pieces <= Pieces'
      BY <1>0, <2>1, <2>2, <2>3, <2>4, <2>6
    <3> QED BY <3>1, <3>2 DEF NotAhead
  <2>12. RowsOnce'
    BY <1>3, <2>1 DEF RowsOnce
  <2> QED BY <2>9, <2>10, <2>11, <2>12 DEF Records
<1>8. ASSUME NEW s \in Sockets, Lookup(s) PROVE Records'
  <2>1. /\ at[s] = "lookup" /\ at'[s] = "commit" /\ \A t \in Sockets \ {s} : at'[t] = at[t]
        /\ rows' = rows /\ dbGame' = dbGame /\ locked' = locked /\ board' = board
        /\ job'[s].pieces = job[s].pieces /\ job'[s].row = CurrentRow
        /\ \A t \in Sockets \ {s} : job'[t] = job[t]
    BY <1>0, <1>8 DEF Lookup, Goto, manager, redis
  <2>2. Last' = Last /\ Len(rows') = Len(rows) /\ CurrentRow' = CurrentRow /\ Pieces' = Pieces
    BY <2>1 DEF Last, CurrentRow, Pieces
  <2>3. \A t \in Sockets : /\ (Holds(t)' <=> Holds(t)) /\ (Late(t)' <=> Late(t))
                           /\ (Resets(t)' <=> Resets(t)) /\ job'[t].pieces = job[t].pieces
                           /\ (at'[t] = "save" => at[t] = "save")
    BY <2>1 DEF Holds, Late, Resets
  <2>4. OneAtATime'
    BY <1>3, <2>1, <2>2, <2>3 DEF OneAtATime
  <2>5. LateOnce'
    <3>1. CurrentRow' = Len(rows') /\ \A t \in Sockets : at'[t] = "commit" => job'[t].row = Len(rows')
      BY <1>3, <2>1, <2>2 DEF LateOnce
    <3>2. \A t \in Sockets : Late(t)' => Last'.moves[job'[t].pieces] = 0
      BY <1>3, <2>2, <2>3 DEF LateOnce
    <3>3. \A t, v \in Sockets :
             Late(t)' /\ Late(v)' /\ job'[t].pieces = job'[v].pieces => t = v
      BY <1>3, <2>3 DEF LateOnce
    <3> QED BY <3>1, <3>2, <3>3 DEF LateOnce
  <2>6. NotAhead'
    BY <1>3, <2>2, <2>3 DEF NotAhead
  <2>7. RowsOnce'
    BY <1>3, <2>1 DEF RowsOnce
  <2> QED BY <2>4, <2>5, <2>6, <2>7 DEF Records
<1>9. ASSUME NEW s \in Sockets, CommitMove(s) PROVE Records'
  <2> DEFINE n == job[s].pieces
  <2>1. /\ at[s] = "commit" /\ at'[s] = "announce" /\ \A t \in Sockets \ {s} : at'[t] = at[t]
        /\ dbGame' = dbGame /\ locked' = locked /\ board' = board /\ job' = job
        /\ rows' = [rows EXCEPT ![job[s].row] = Recorded(rows[job[s].row], n)]
    BY <1>0, <1>9 DEF CommitMove, Goto, manager, redis
  <2>2. Late(s)
    BY <2>1 DEF Late
  <2>3. /\ job[s].row = Len(rows) /\ Last.moves[n] = 0
        /\ \A t \in Sockets \ {s} : Late(t) => job[t].pieces # n
    BY <1>3, <2>1, <2>2 DEF LateOnce
  <2>4. n \in 1 .. GameLength /\ \A t \in Sockets : ~Resets(t)
    BY <1>2, <2>1, <2>2, MoversAreAlone
  <2>5. /\ \A k \in 1 .. GameLength : k > Pieces => Last.moves[k] = 0
        /\ \A t \in Sockets : Late(t) => job[t].pieces <= Pieces
    BY <1>3, <2>4 DEF NotAhead
  <2>6. Last \in Row /\ Len(rows) \in 1 .. Len(rows)
    BY <1>0 DEF Last
  <2>7. /\ Len(rows') = Len(rows)
        /\ \A r \in 1 .. Len(rows) : rows'[r] = IF r = Len(rows) THEN Recorded(Last, n) ELSE rows[r]
    BY <1>0, <2>1, <2>3, <2>6 DEF Last
  <2>8. Last' = Recorded(Last, n)
    BY <2>6, <2>7 DEF Last
  <2>9. /\ \A k \in 1 .. GameLength : Recorded(Last, n).moves[k] = IF k = n THEN 1 ELSE Last.moves[k]
        /\ Recorded(Last, n).finishes = IF n = GameLength THEN Count(Last.finishes) ELSE Last.finishes
    BY <2>3, <2>4, <2>6 DEF Recorded, Count, Row
  <2>10. /\ Last.finishes = Last.moves[GameLength]
         /\ \A k \in 1 .. GameLength : Last.moves[k] \in {0, 1}
    BY <1>3, <2>6 DEF RowsOnce, Last
  <2>11. Recorded(Last, n).finishes = Recorded(Last, n).moves[GameLength]
    <3>1. GameLength \in 1 .. GameLength
      BY <1>0
    <3>2. Recorded(Last, n).moves[GameLength] = IF GameLength = n THEN 1 ELSE Last.moves[GameLength]
      BY <2>9, <3>1
    <3>3. n = GameLength => Count(Last.finishes) = 1
      BY <2>3, <2>10 DEF Count
    <3> HIDE DEF n
    <3> QED BY <2>9, <2>10, <3>2, <3>3
  <2>12. RowsOnce'
    <3> SUFFICES ASSUME NEW r \in 1 .. Len(rows)
                 PROVE  /\ rows'[r].finishes = rows'[r].moves[GameLength]
                        /\ \A k \in 1 .. GameLength : rows'[r].moves[k] \in {0, 1}
      BY <2>7 DEF RowsOnce
    <3> HIDE DEF n
    <3>1. CASE r = Len(rows)
      BY <2>7, <2>9, <2>10, <2>11, <3>1
    <3>2. CASE r # Len(rows)
      BY <1>3, <2>7, <3>2 DEF RowsOnce
    <3> QED BY <3>1, <3>2
  <2>13. CurrentRow' = CurrentRow /\ Pieces' = Pieces
    BY <2>1 DEF CurrentRow, Pieces
  <2>14. \A t \in Sockets : /\ (Holds(t)' <=> Holds(t)) /\ (Late(t)' => Late(t) /\ t # s)
                            /\ at'[t] \in {"save", "commit"} => at'[t] = at[t]
    BY <2>1 DEF Holds, Late
  <2>15. OneAtATime'
    BY <1>3, <2>1, <2>13, <2>14 DEF OneAtATime
  <2>16. \A t \in Sockets : Late(t)' => Last'.moves[job'[t].pieces] = 0
    <3> SUFFICES ASSUME NEW t \in Sockets, Late(t)' PROVE Last'.moves[job'[t].pieces] = 0
      OBVIOUS
    <3>1. Late(t) /\ t # s
      BY <2>14
    <3>2. job[t].pieces \in 1 .. GameLength /\ job[t].pieces # n /\ Last.moves[job[t].pieces] = 0
      BY <1>2, <1>3, <2>3, <3>1 DEF LateOnce, MovesHavePieces, Late
    <3> HIDE DEF n
    <3> QED BY <2>1, <2>8, <2>9, <3>2
  <2>17. LateOnce'
    <3>1. CurrentRow' = Len(rows') /\ \A t \in Sockets : at'[t] = "commit" => job'[t].row = Len(rows')
      BY <1>3, <2>1, <2>7, <2>13, <2>14 DEF LateOnce
    <3>2. \A t, v \in Sockets :
             Late(t)' /\ Late(v)' /\ job'[t].pieces = job'[v].pieces => t = v
      BY <1>3, <2>1, <2>14 DEF LateOnce
    <3> QED BY <2>16, <3>1, <3>2 DEF LateOnce
  <2>18. NotAhead'
    <3>1. n <= Pieces
      BY <2>2, <2>5
    <3>2. \A k \in 1 .. GameLength : k > Pieces => Recorded(Last, n).moves[k] = 0
      <4> SUFFICES ASSUME NEW k \in 1 .. GameLength, k > Pieces
                   PROVE  Recorded(Last, n).moves[k] = 0
        OBVIOUS
      <4>1. k # n
        <5> HIDE DEF n
        <5> QED BY <1>0, <2>4, <3>1
      <4> HIDE DEF n
      <4> QED BY <2>5, <2>9, <4>1
    <3>3. \A t \in Sockets : Late(t)' => job'[t].pieces <= Pieces
      BY <2>1, <2>5, <2>14
    <3> QED BY <2>8, <2>13, <3>2, <3>3 DEF NotAhead
  <2> QED BY <2>12, <2>15, <2>17, <2>18 DEF Records
<1>10. ASSUME NEW s \in Sockets, Reset(s) \/ NewBoard(s) \/ CreateRow(s) PROVE Records'
  <2>1. /\ Resets(s) /\ at'[s] \in {"restart", "create", "announce"}
        /\ \A t \in Sockets \ {s} : at'[t] = at[t]
    BY <1>0, <1>10 DEF Reset, NewBoard, CreateRow, Resets, Goto
  <2>2. \A t \in Sockets \ {s} : at[t] = "receive"
    BY <1>2, <2>1 DEF VotersWait, Restarts, Idle
  <2>3. \A t \in Sockets : /\ ~Holds(t)' /\ ~Late(t)' /\ at'[t] \notin {"save", "commit"}
    BY <2>1, <2>2 DEF Holds, Late
  <2>4. OneAtATime'
    BY <2>3 DEF OneAtATime
  <2>5. CASE Reset(s) \/ NewBoard(s)
    <3>1. rows' = rows /\ dbGame' = dbGame /\ at'[s] \in {"restart", "create"}
      BY <1>0, <2>5 DEF Reset, NewBoard, Goto, manager
    <3>2. CurrentRow' = Len(rows')
      BY <1>3, <3>1 DEF LateOnce, CurrentRow
    <3>3. LateOnce'
      BY <2>3, <3>2 DEF LateOnce
    <3>4. RowsOnce'
      BY <1>3, <3>1 DEF RowsOnce
    <3>5. NotAhead'
      BY <3>1 DEF NotAhead, Resets
    <3> QED BY <2>4, <3>3, <3>4, <3>5 DEF Records
  <2>6. CASE CreateRow(s)
    <3>1. rows' = Append(rows, NewRow) /\ dbGame' = Len(rows')
      BY <2>6 DEF CreateRow
    <3>2. /\ Len(rows') = Len(rows) + 1 /\ rows'[Len(rows) + 1] = NewRow
          /\ \A r \in 1 .. Len(rows) : rows'[r] = rows[r]
      BY <1>0, <3>1, NewRowType
    <3>3. CurrentRow' = Len(rows') /\ Last' = NewRow
      BY <1>0, <3>1, <3>2 DEF CurrentRow, Last
    <3>4. LateOnce'
      BY <2>3, <3>3 DEF LateOnce
    <3>5. /\ NewRow.finishes = 0 /\ GameLength \in 1 .. GameLength
          /\ \A k \in 1 .. GameLength : NewRow.moves[k] = 0
      BY <1>0 DEF NewRow
    <3>6. RowsOnce'
      <4> SUFFICES ASSUME NEW r \in 1 .. Len(rows')
                   PROVE  /\ rows'[r].finishes = rows'[r].moves[GameLength]
                          /\ \A k \in 1 .. GameLength : rows'[r].moves[k] \in {0, 1}
        BY DEF RowsOnce
      <4>1. CASE r = Len(rows) + 1
        BY <3>2, <3>5, <4>1
      <4>2. CASE r \in 1 .. Len(rows)
        BY <1>3, <3>2, <4>2 DEF RowsOnce
      <4> QED BY <1>0, <3>2, <4>1, <4>2
    <3>7. NotAhead'
      BY <2>3, <3>3, <3>5 DEF NotAhead
    <3> QED BY <2>4, <3>4, <3>6, <3>7 DEF Records
  <2> QED BY <1>10, <2>5, <2>6
<1>11. CASE UNCHANGED vars
  <2>1. rows' = rows /\ board' = board /\ dbGame' = dbGame /\ locked' = locked
        /\ at' = at /\ job' = job
    BY <1>11 DEF vars, manager, redis
  <2>2. \A t \in Sockets : Resets(t) => Resets(t)'
    BY <2>1 DEF Resets
  <2> QED BY <1>2, <2>1, <2>2, MovesStand
<1>12. ASSUME NEW s \in Sockets, Step(s) PROVE Records'
  <2>1. ~HangUp(s) /\ ~FailMove(s) /\ ~FailRow(s)
    BY <1>1, <1>2, NobodyLeaves
  <2> QED BY <1>4, <1>5, <1>6, <1>7, <1>8, <1>9, <1>10, <1>12, <2>1 DEF Step
<1> QED BY <1>1, <1>4, <1>11, <1>12 DEF Next

(* While nobody plays on two pages, no connection breaks and no           *)
(* transaction fails, a row has at most one move of each number and is     *)
(* finished, and rated, at most once.                                      *)
THEOREM GamesApart == Spec => []GamesAreRecordedApart
<1>1. TypeInv /\ RecordsInv => GamesAreRecordedApart
  <2> SUFFICES ASSUME TypeInv, RecordsInv, OnePageEach, drops = 0, failures = 0,
                      NEW r \in DOMAIN rows
               PROVE  /\ rows[r].finishes <= 1
                      /\ \A n \in 1 .. GameLength : rows[r].moves[n] <= 1
    BY DEF GamesAreRecordedApart
  <2>1. RowsOnce /\ r \in 1 .. Len(rows)
    BY DEF RecordsInv, Undisturbed, Records, TypeInv, TypeOK
  <2>2. /\ rows[r].finishes = rows[r].moves[GameLength]
        /\ \A n \in 1 .. GameLength : rows[r].moves[n] \in {0, 1}
    BY <2>1 DEF RowsOnce
  <2> QED BY <2>2
<1> QED BY TypeInit, TypeNext, RematchInit, RematchNext, RecordsInit, RecordsNext, <1>1, PTL DEF Spec

-----------------------------------------------------------------------------
(* Progress.  The prover reasons about weak fairness but cannot compute    *)
(* ENABLED: the theorem below assumes of it what the guards of the actions *)
(* say, that a handler can go on unless it waits for a message.            *)

StepsAreEnabled ==
    \A s \in Sockets :
        at[s] # "closed" /\ (at[s] = "receive" => inbox[s] # Nothing \/ s \notin up)
        => ENABLED <<Step(s)>>_vars

(* Where a handler may be next.                                            *)
Following(place) ==
    CASE place = "receive"  -> {"receive", "greet", "load", "reset"}
      [] place = "greet"    -> {"receive"}
      [] place = "load"     -> {"save", "receive"}
      [] place = "save"     -> {"lookup"}
      [] place = "lookup"   -> {"commit"}
      [] place = "commit"   -> {"announce"}
      [] place = "reset"    -> {"restart"}
      [] place = "restart"  -> {"create"}
      [] place = "create"   -> {"announce"}
      [] place = "announce" -> {"receive"}
      [] OTHER              -> {}

Working == Places \ {"closed", "receive"}

(* Who is identified has a handler.                                        *)
IdentifiedRun == \A s \in identified : at[s] # "closed"

(* What any step does to the handler of s and to the message that waits    *)
(* for it, while the connection is broken: nobody sends to it.             *)
LEMMA OwnStep ==
    ASSUME TypeInv, NEW s \in Sockets, s \notin up, Step(s)
    PROVE  /\ at[s] # "closed" /\ up' = up
           /\ \A t \in Sockets \ {s} : at'[t] = at[t]
           /\ \/ /\ at[s] \in Working /\ at'[s] \in Following(at[s])
                 /\ inbox' = inbox /\ identified' \subseteq identified
              \/ /\ at[s] = "receive" /\ at'[s] \in Following("receive")
                 /\ inbox[s] # Nothing /\ inbox'[s] = Nothing
                 /\ identified' \subseteq identified \cup {s}
              \/ /\ at[s] = "receive" /\ inbox[s] = Nothing
                 /\ s \notin identified' /\ identified' \subseteq identified
<1>1. /\ at \in [Sockets -> Places]
      /\ inbox \in [Sockets -> {"identify", "move", "rematch", Nothing}]
      /\ identified \subseteq Sockets
  BY DEF TypeInv, TypeOK
<1>2. Nothing \notin {"identify", "move", "rematch"}
  BY RoomAssumption
<1>3. CASE Greet(s) \/ Announce(s)
  <2>1. PICK dead \in SUBSET (room \ up) : Disconnect(dead)
    BY <1>3 DEF Greet, Announce, Broadcast
  <2>2. identified' \subseteq identified
    BY <2>1 DEF Disconnect
  <2> QED BY <1>1, <1>3, <2>2 DEF Greet, Announce, Goto, Working, Following, Places
<1>4. CASE HangUp(s)
  <2>1. PICK dead \in SUBSET (room \ (up \cup {s})) : Disconnect({s} \cup dead)
    BY <1>4 DEF HangUp
  <2>2. s \notin identified' /\ identified' \subseteq identified
    BY <2>1 DEF Disconnect
  <2> QED BY <1>1, <1>4, <2>2 DEF HangUp, Goto
<1>5. CASE Identify(s) \/ BeginMove(s) \/ Vote(s)
  <2>1. /\ at[s] = "receive" /\ up' = up /\ identified' \subseteq identified \cup {s}
        /\ inbox[s] # Nothing /\ inbox'[s] = Nothing
    BY <1>1, <1>2, <1>5 DEF Identify, BeginMove, Vote, Receive, manager
  <2>2. \E place \in {"receive", "greet", "load", "reset"} : at' = [at EXCEPT ![s] = place]
    <3>1. CASE at' = at
      BY <1>1, <2>1, <3>1
    <3>2. CASE at' # at
      BY <1>5, <3>2 DEF Identify, BeginMove, Vote, Goto
    <3> QED BY <3>1, <3>2
  <2> QED BY <1>1, <2>1, <2>2 DEF Following
<1>6. CASE Load(s)
  BY <1>1, <1>6 DEF Load, Goto, Working, Following, Places, manager
<1>7. CASE Save(s) \/ Lookup(s) \/ CommitMove(s) \/ FailMove(s)
  BY <1>1, <1>7 DEF Save, Lookup, CommitMove, FailMove, Goto, Working, Following, Places, manager
<1>8. CASE Reset(s) \/ NewBoard(s) \/ CreateRow(s) \/ FailRow(s)
  BY <1>1, <1>8 DEF Reset, NewBoard, CreateRow, FailRow, Goto, Working, Following, Places, manager
<1> QED BY <1>3, <1>4, <1>5, <1>6, <1>7, <1>8 DEF Step

LEMMA OthersStep ==
    ASSUME TypeInv, NEW s \in Sockets, s \notin up, at[s] # "closed", [Next]_vars, ~Step(s)
    PROVE  s \notin up' /\ at'[s] = at[s] /\ inbox'[s] = inbox[s]
<1>1. /\ at \in [Sockets -> Places]
      /\ inbox \in [Sockets -> {"identify", "move", "rematch", Nothing}]
  BY DEF TypeInv, TypeOK
<1>2. ASSUME NEW t \in Sockets, t # s, Step(t) PROVE up' = up /\ at'[s] = at[s] /\ inbox'[s] = inbox[s]
  <2>1. CASE Greet(t) \/ HangUp(t) \/ Announce(t)
    BY <1>1, <1>2, <2>1 DEF Greet, HangUp, Announce, Goto
  <2>2. CASE Identify(t) \/ BeginMove(t) \/ Vote(t)
    BY <1>1, <1>2, <2>2 DEF Identify, BeginMove, Vote, Receive, Goto
  <2>3. CASE Load(t) \/ Save(t) \/ Lookup(t) \/ CommitMove(t) \/ FailMove(t)
    BY <1>1, <1>2, <2>3 DEF Load, Save, Lookup, CommitMove, FailMove, Goto
  <2>4. CASE Reset(t) \/ NewBoard(t) \/ CreateRow(t) \/ FailRow(t)
    BY <1>1, <1>2, <2>4 DEF Reset, NewBoard, CreateRow, FailRow, Goto
  <2> QED BY <1>2, <2>1, <2>2, <2>3, <2>4 DEF Step
<1>3. ASSUME NEW t \in Sockets, Connect(t)
      PROVE  s \notin up' /\ at'[s] = at[s] /\ inbox'[s] = inbox[s]
  <2>1. t # s
    BY <1>3 DEF Connect
  <2> QED BY <1>1, <1>3, <2>1 DEF Connect, Goto
<1>4. ASSUME NEW t \in Sockets, SendMove(t) \/ SendRematch(t)
      PROVE  s \notin up' /\ at'[s] = at[s] /\ inbox'[s] = inbox[s]
  <2>1. t # s
    BY <1>4 DEF SendMove, SendRematch, Send
  <2> QED BY <1>1, <1>4, <2>1 DEF SendMove, SendRematch, Send
<1>5. ASSUME NEW t \in Sockets, Drop(t)
      PROVE  s \notin up' /\ at'[s] = at[s] /\ inbox'[s] = inbox[s]
  BY <1>5 DEF Drop
<1>6. ASSUME UNCHANGED vars PROVE s \notin up' /\ at'[s] = at[s] /\ inbox'[s] = inbox[s]
  BY <1>6 DEF vars
<1>7. ASSUME NEW t \in Sockets, Step(t) PROVE s \notin up' /\ at'[s] = at[s] /\ inbox'[s] = inbox[s]
  BY <1>2, <1>7
<1> QED BY <1>3, <1>4, <1>5, <1>6, <1>7 DEF Next

LEMMA IdentifiedInit == Init => IdentifiedRun
  BY DEF Init, IdentifiedRun

LEMMA IdentifiedNext == TypeInv /\ IdentifiedRun /\ [Next]_vars => IdentifiedRun'
<1> SUFFICES ASSUME TypeInv, IdentifiedRun, [Next]_vars, NEW t \in Sockets, t \in identified'
             PROVE  at'[t] # "closed"
  BY TypeNext DEF IdentifiedRun, TypeInv, TypeOK
<1>1. at \in [Sockets -> Places]
  BY DEF TypeInv, TypeOK
<1>2. ASSUME NEW s \in Sockets, Step(s) PROVE at'[t] # "closed"
  <2>1. CASE Greet(s) \/ Announce(s)
    <3>1. PICK dead \in SUBSET (room \ up) : Disconnect(dead)
      BY <2>1 DEF Greet, Announce, Broadcast
    <3>2. t \in identified
      BY <3>1 DEF Disconnect
    <3> QED BY <1>1, <2>1, <3>2 DEF Greet, Announce, Goto, IdentifiedRun
  <2>2. CASE HangUp(s)
    <3>1. PICK dead \in SUBSET (room \ (up \cup {s})) : Disconnect({s} \cup dead)
      BY <2>2 DEF HangUp
    <3>2. t \in identified /\ t # s
      BY <3>1 DEF Disconnect
    <3> QED BY <1>1, <2>2, <3>2 DEF HangUp, Goto, IdentifiedRun
  <2>3. CASE Identify(s)
    BY <1>1, <2>3 DEF Identify, Goto, IdentifiedRun
  <2>4. CASE BeginMove(s) \/ Vote(s)
    BY <1>1, <2>4 DEF BeginMove, Vote, Goto, IdentifiedRun, manager
  <2>5. CASE Load(s) \/ Save(s) \/ Lookup(s) \/ CommitMove(s) \/ FailMove(s)
    BY <1>1, <2>5 DEF Load, Save, Lookup, CommitMove, FailMove, Goto, IdentifiedRun, manager
  <2>6. CASE Reset(s) \/ NewBoard(s) \/ CreateRow(s) \/ FailRow(s)
    BY <1>1, <2>6 DEF Reset, NewBoard, CreateRow, FailRow, Goto, IdentifiedRun, manager
  <2> QED BY <1>2, <2>1, <2>2, <2>3, <2>4, <2>5, <2>6 DEF Step
<1>3. ASSUME NEW s \in Sockets, Connect(s) PROVE at'[t] # "closed"
  BY <1>1, <1>3 DEF Connect, Goto, IdentifiedRun
<1>4. ASSUME \/ \E s \in Sockets : SendMove(s) \/ SendRematch(s) \/ Drop(s)
             \/ UNCHANGED vars
      PROVE  at'[t] # "closed"
  <2>1. at' = at /\ identified' = identified
    BY <1>4 DEF SendMove, SendRematch, Send, Drop, vars, manager
  <2> QED BY <2>1 DEF IdentifiedRun
<1> QED BY <1>2, <1>3, <1>4 DEF Next

(* A broken connection whose handler is at place, with as many messages    *)
(* waiting for it, 0 or 1.                                                 *)
Stands(s, place, waiting) ==
    s \notin up /\ at[s] = place /\ (inbox[s] # Nothing <=> waiting = 1)

Proceeds(s, place, waiting) ==
    s \notin up /\ at[s] \in Following(place) /\ (inbox[s] # Nothing <=> waiting = 1)

LEMMA WorkGoesOn ==
    ASSUME NEW s \in Sockets, NEW waiting \in {0, 1}, NEW place \in Working
    PROVE  FairSpec /\ []StepsAreEnabled
               => (Stands(s, place, waiting) ~> Proceeds(s, place, waiting))
<1>1. place # "closed" /\ place # "receive"
  BY DEF Working
<1>2. TypeInv /\ Stands(s, place, waiting) /\ [Next]_vars
      => \/ Stands(s, place, waiting)'
         \/ Proceeds(s, place, waiting)'
  BY <1>1, OwnStep, OthersStep DEF Stands, Proceeds
<1>3. TypeInv /\ Stands(s, place, waiting) /\ [Next]_vars /\ <<Step(s)>>_vars
      => Proceeds(s, place, waiting)'
  BY <1>1, OwnStep DEF Stands, Proceeds
<1>4. StepsAreEnabled => (Stands(s, place, waiting) => ENABLED <<Step(s)>>_vars)
  BY <1>1 DEF StepsAreEnabled, Stands
<1>5. FairSpec => Spec /\ Continues(s)
  BY DEF FairSpec
<1> QED BY <1>2, <1>3, <1>4, <1>5, TypeInit, TypeNext, PTL DEF Spec, Continues

LEMMA MessageIsReceived ==
    ASSUME NEW s \in Sockets
    PROVE  FairSpec /\ []StepsAreEnabled
               => (Stands(s, "receive", 1)
                   ~> \E q \in Following("receive") : Stands(s, q, 0))
<1>1. TypeInv /\ Stands(s, "receive", 1) /\ [Next]_vars
      => \/ Stands(s, "receive", 1)'
         \/ (\E q \in Following("receive") : Stands(s, q, 0))'
  BY OwnStep, OthersStep DEF Stands, Working
<1>2. TypeInv /\ Stands(s, "receive", 1) /\ [Next]_vars /\ <<Step(s)>>_vars
      => (\E q \in Following("receive") : Stands(s, q, 0))'
  BY OwnStep DEF Stands, Working
<1>3. StepsAreEnabled => (Stands(s, "receive", 1) => ENABLED <<Step(s)>>_vars)
  BY DEF StepsAreEnabled, Stands
<1>4. FairSpec => Spec /\ Continues(s)
  BY DEF FairSpec
<1> QED BY <1>1, <1>2, <1>3, <1>4, TypeInit, TypeNext, PTL DEF Spec, Continues

LEMMA BrokenHangsUp ==
    ASSUME NEW s \in Sockets
    PROVE  FairSpec /\ []StepsAreEnabled => (Stands(s, "receive", 0) ~> s \notin identified)
<1>1. TypeInv /\ Stands(s, "receive", 0) /\ [Next]_vars
      => Stands(s, "receive", 0)' \/ (s \notin identified)'
  BY OwnStep, OthersStep DEF Stands, Working
<1>2. TypeInv /\ Stands(s, "receive", 0) /\ [Next]_vars /\ <<Step(s)>>_vars
      => (s \notin identified)'
  BY OwnStep DEF Stands, Working
<1>3. StepsAreEnabled => (Stands(s, "receive", 0) => ENABLED <<Step(s)>>_vars)
  BY DEF StepsAreEnabled, Stands
<1>4. FairSpec => Spec /\ Continues(s)
  BY DEF FairSpec
<1> QED BY <1>1, <1>2, <1>3, <1>4, TypeInit, TypeNext, PTL DEF Spec, Continues

(* A message that is being handled when the connection breaks, and one     *)
(* that still waits, are handled; then the handler finds out, takes the    *)
(* connection out of the map and ends.                                     *)
LEMMA WorkEnds ==
    ASSUME NEW s \in Sockets, NEW waiting \in {0, 1}
    PROVE  FairSpec /\ []StepsAreEnabled
               => ((\E place \in Working : Stands(s, place, waiting)) ~> Stands(s, "receive", waiting))
<1> DEFINE At(place) == Stands(s, place, waiting)
           Goes(place) == FairSpec /\ []StepsAreEnabled
               => (Stands(s, place, waiting) ~> Proceeds(s, place, waiting))
<1>1. \A place \in Working : Goes(place)
  BY WorkGoesOn
<1> HIDE DEF Goes
<1>2. /\ Goes("greet") /\ Goes("load") /\ Goes("save") /\ Goes("lookup") /\ Goes("commit")
      /\ Goes("reset") /\ Goes("restart") /\ Goes("create") /\ Goes("announce")
  BY <1>1 DEF Working, Places
<1> USE DEF Goes
<1>3. /\ Proceeds(s, "greet", waiting) => At("receive")
      /\ Proceeds(s, "load", waiting) => At("save") \/ At("receive")
      /\ Proceeds(s, "save", waiting) => At("lookup")
      /\ Proceeds(s, "lookup", waiting) => At("commit")
      /\ Proceeds(s, "commit", waiting) => At("announce")
      /\ Proceeds(s, "reset", waiting) => At("restart")
      /\ Proceeds(s, "restart", waiting) => At("create")
      /\ Proceeds(s, "create", waiting) => At("announce")
      /\ Proceeds(s, "announce", waiting) => At("receive")
  BY DEF Following, Proceeds, Stands
<1>4. (\E place \in Working : At(place))
      => \/ At("greet") \/ At("load") \/ At("save") \/ At("lookup") \/ At("commit")
         \/ At("reset") \/ At("restart") \/ At("create") \/ At("announce")
  BY DEF Working, Places
<1> QED BY <1>2, <1>3, <1>4, PTL

(* A connection that broke does not stay listed as a connected player: its *)
(* handler goes back to receive, finds out and calls disconnect            *)
(* (websocket.py 48-82, connection_manager.py 88-128).                     *)
THEOREM BrokenAreUnlisted == FairSpec /\ []StepsAreEnabled => BrokenIsUnlisted
<1>1. ASSUME NEW s \in Sockets
      PROVE  FairSpec /\ []StepsAreEnabled
                 => (s \notin up /\ s \in identified ~> s \in up \/ s \notin identified)
  <2> DEFINE Works(waiting) == \E place \in Working : Stands(s, place, waiting)
             Ends(waiting)  == FairSpec /\ []StepsAreEnabled
                 => ((\E place \in Working : Stands(s, place, waiting))
                     ~> Stands(s, "receive", waiting))
  <2>1. TypeInv /\ IdentifiedRun /\ s \notin up /\ s \in identified
        => \/ Works(1) \/ Works(0)
           \/ Stands(s, "receive", 1) \/ Stands(s, "receive", 0)
    BY DEF TypeInv, TypeOK, IdentifiedRun, Stands, Working
  <2>2. \A waiting \in {0, 1} : Ends(waiting)
    BY WorkEnds
  <2> HIDE DEF Ends
  <2>3. Ends(1) /\ Ends(0)
    BY <2>2
  <2> USE DEF Ends
  <2>4. (\E q \in Following("receive") : Stands(s, q, 0))
        => Works(0) \/ Stands(s, "receive", 0)
    BY DEF Following, Working, Places
  <2>5. FairSpec => Spec
    BY DEF FairSpec
  <2> QED BY <2>1, <2>3, <2>4, <2>5, MessageIsReceived, BrokenHangsUp, TypeInit, TypeNext,
             IdentifiedInit, IdentifiedNext, PTL DEF Spec
<1> QED BY <1>1 DEF BrokenIsUnlisted

=============================================================================
