--------------------------- MODULE RatingsProofs ---------------------------
(***************************************************************************)
(* Proofs about Ratings, for any players, games, results and ratings:      *)
(* its types, among them that no rating falls below zero; that the         *)
(* statistics count exactly the games whose transaction committed and show *)
(* the right streak; that the ratings are those of the games of the ledger *)
(* in turn, unless transactions interfere; and that none waits for ever.   *)
(*                                                                         *)
(* The statistics read the rows and never the ledger.  RowsMatchLedger is  *)
(* what ties the two together: the row of a game of the ledger is what its *)
(* transaction wrote, and no other row has a winner or is a draw.          *)
(*                                                                         *)
(* Replay and Streak are recursive.  What they compute is proved with      *)
(* LeastNat, by the least number of rounds at which a claim could fail.    *)
(***************************************************************************)
EXTENDS Ratings, FiniteSetTheorems, SequenceTheorems, WellFoundedInduction, TLAPS

USE RatingsAssumption

InLedger(g) == \E n \in 1 .. Len(ledger) : ledger[n] = g

RowsMatchLedger ==
    \A g \in Games :
        /\ InLedger(g) => at[g] = "done" /\ rows[g] = Written(g)
        /\ ~InLedger(g) => rows[g].winner = Nobody /\ rows[g].status \in {"PLAYING", "FINISHED"}
        /\ winner[g] \in {Seats[g][1], Seats[g][2], Nobody}

-----------------------------------------------------------------------------
(* Types                                                                   *)

LEMMA Seated ==
    ASSUME NEW g \in Games
    PROVE  /\ Seats[g][1] \in Players /\ Seats[g][2] \in Players
           /\ Read1(g) \in Players /\ Read2(g) \in Players
           /\ {Read1(g), Read2(g)} = {Seats[g][1], Seats[g][2]}
<1>1. Seats[g][1] \in Players /\ Seats[g][2] \in Players
  BY Zenon
<1> QED BY <1>1 DEF Read1, Read2

LEMMA GainType == ASSUME NEW x \in Int PROVE Gain(x) \in Nat
<1>1. IsFiniteSet(1 .. 16)
  <2>1. 1 \in Int /\ 16 \in Int
    OBVIOUS
  <2> QED BY <2>1, FS_Interval, Zenon
<1>2. ASSUME NEW T \in SUBSET (1 .. 16) PROVE Cardinality(T) \in Nat
  BY <1>1, FS_Subset, FS_CardinalityType
<1>3. /\ Cardinality({k \in 1 .. 16 : x <= Limit[k]}) \in Nat
      /\ Cardinality({k \in 1 .. 16 : x < -Limit[k]}) \in Nat
  BY <1>2
<1> QED BY <1>3 DEF Gain

LEMMA AssignedType ==
    ASSUME NEW first \in Int, NEW second \in Int, NEW isDraw
    PROVE  Assigned(first, second, isDraw) \in Nat \X Nat
<1>1. Gain(first - second) \in Nat
  BY GainType
<1>2. Moved(first - second, isDraw) \in Int
  BY <1>1 DEF Moved, DrawGain
<1> QED BY <1>2 DEF Assigned, Rated, AtLeastZero

LEMMA TypeInit == Init => TypeOK
<1> SUFFICES ASSUME Init PROVE TypeOK
  OBVIOUS
<1>1. rows \in [Games -> [status : {"PLAYING", "FINISHED", "DRAW"},
                          winner : Players \cup {Nobody}, finished : Nat]]
  BY DEF Init, NewRow
<1>2. /\ at \in [Games -> Open \cup {"playing", "done"}]
      /\ read \in [Games -> (Nat \cup {Unread}) \X (Nat \cup {Unread})]
  BY DEF Init, Unread
<1>3. ledger \in Seq(Games)
  BY DEF Init
<1>4. raced \in BOOLEAN
  BY Zenon DEF Init
<1> QED BY <1>1, <1>2, <1>3, <1>4 DEF Init, TypeOK

Rows == [status : {"PLAYING", "FINISHED", "DRAW"}, winner : Players \cup {Nobody},
         finished : Nat]

LEMMA WrittenType == ASSUME TypeOK, NEW g \in Games PROVE Written(g) \in Rows
  BY DEF TypeOK, Written, Rows

LEMMA NewType ==
    ASSUME TypeOK, NEW g \in Games, read[g][1] # Unread, read[g][2] # Unread
    PROVE  New(g)[1] \in Nat /\ New(g)[2] \in Nat
<1>1. read[g][1] \in Nat /\ read[g][2] \in Nat
  BY DEF TypeOK
<1>2. New(g) \in Nat \X Nat
  BY <1>1, AssignedType DEF New
<1> QED BY <1>2

(* A transaction has read both ratings before it writes; the rows it has   *)
(* still to write are those of its players.                                *)
HasReadBoth ==
    \A g \in Games :
        /\ at[g] \in {"second", "flush"} => read[g][1] # Unread
        /\ at[g] = "flush" => read[g][2] # Unread
        /\ at[g] = "flush" => todo[g] \subseteq {Read1(g), Read2(g)}
        /\ held[g] # {} => at[g] = "flush" /\ held[g] \subseteq {Read1(g), Read2(g)}

Inv == TypeOK /\ HasReadBoth /\ RowsMatchLedger

LEMMA FinishInv == ASSUME Inv, NEW g \in Games, NEW w \in Results[g], FinishGame(g, w) PROVE Inv'
<1>1. at \in [Games -> Open \cup {"playing", "done"}] /\ winner \in [Games -> Players \cup {Nobody}]
      /\ stamp \in [Games -> Nat] /\ clock \in Nat
  BY DEF Inv, TypeOK
<1>2. w \in {Seats[g][1], Seats[g][2], Nobody} /\ w \in Players \cup {Nobody}
  BY Seated
<1>3. /\ at[g] = "playing" /\ at' = [at EXCEPT ![g] = "first"]
      /\ winner' = [winner EXCEPT ![g] = w] /\ stamp' = [stamp EXCEPT ![g] = clock + 1]
      /\ clock' = clock + 1
      /\ UNCHANGED <<elo, rows, read, todo, held, ledger, raced, counts>>
  BY DEF FinishGame, Goto
<1>4. TypeOK'
  BY <1>1, <1>2, <1>3 DEF Inv, TypeOK, Open, counts
<1>5. HasReadBoth'
  BY <1>1, <1>3 DEF Inv, HasReadBoth, Read1, Read2
<1>6. RowsMatchLedger'
  BY <1>1, <1>2, <1>3 DEF Inv, RowsMatchLedger, InLedger, Written, IsDraw
<1> QED BY <1>4, <1>5, <1>6 DEF Inv

LEMMA ReadFirstInv == ASSUME Inv, NEW g \in Games, ReadFirst(g) PROVE Inv'
<1>1. /\ at \in [Games -> Open \cup {"playing", "done"}] /\ elo \in [Players -> Nat]
      /\ read \in [Games -> (Nat \cup {Unread}) \X (Nat \cup {Unread})]
  BY DEF Inv, TypeOK
<1>2. /\ at[g] = "first" /\ at' = [at EXCEPT ![g] = "second"]
      /\ read' = [read EXCEPT ![g][1] = elo[Read1(g)]]
      /\ UNCHANGED <<elo, rows, winner, stamp, todo, held, clock, ledger, counts>>
  BY DEF ReadFirst, Read, Goto
<1>3. elo[Read1(g)] \in Nat
  BY <1>1, Seated
<1>4. read' \in [Games -> (Nat \cup {Unread}) \X (Nat \cup {Unread})] /\ read'[g][1] \in Nat
      /\ \A h \in Games \ {g} : read'[h] = read[h]
  BY <1>1, <1>2, <1>3
<1>5. raced' \in BOOLEAN
  BY Zenon DEF ReadFirst, Read
<1>6. TypeOK'
  BY <1>1, <1>2, <1>4, <1>5 DEF Inv, TypeOK, Open, counts
<1>7. HasReadBoth'
  BY <1>1, <1>2, <1>4 DEF Inv, HasReadBoth, Read1, Read2, Unread
<1>8. RowsMatchLedger'
  BY <1>1, <1>2 DEF Inv, RowsMatchLedger, InLedger, Written, IsDraw
<1> QED BY <1>6, <1>7, <1>8 DEF Inv

LEMMA ReadSecondInv == ASSUME Inv, NEW g \in Games, ReadSecond(g) PROVE Inv'
<1>1. /\ at \in [Games -> Open \cup {"playing", "done"}] /\ elo \in [Players -> Nat]
      /\ read \in [Games -> (Nat \cup {Unread}) \X (Nat \cup {Unread})]
      /\ todo \in [Games -> SUBSET Players]
  BY DEF Inv, TypeOK
<1>2. /\ at[g] = "second" /\ at' = [at EXCEPT ![g] = "flush"]
      /\ read' = [read EXCEPT ![g][2] = elo[Read2(g)]]
      /\ UNCHANGED <<elo, rows, winner, stamp, held, clock, ledger, counts>>
  BY DEF ReadSecond, Read, Goto
<1>3. elo[Read2(g)] \in Nat
  BY <1>1, Seated
<1>4. read' \in [Games -> (Nat \cup {Unread}) \X (Nat \cup {Unread})] /\ read'[g][2] \in Nat
      /\ read'[g][1] = read[g][1] /\ \A h \in Games \ {g} : read'[h] = read[h]
  BY <1>1, <1>2, <1>3
<1>5. raced' \in BOOLEAN
  BY Zenon DEF ReadSecond, Read
<1>6. PICK left \in SUBSET {Read1(g), Read2(g)} : todo' = [todo EXCEPT ![g] = left]
  BY DEF ReadSecond
<1>7. /\ todo' \in [Games -> SUBSET Players] /\ todo'[g] \subseteq {Read1(g), Read2(g)}
      /\ \A h \in Games \ {g} : todo'[h] = todo[h]
  <2>1. left \in SUBSET Players
    BY Seated
  <2> QED BY <1>1, <1>6, <2>1
<1>8. TypeOK'
  BY <1>1, <1>2, <1>4, <1>5, <1>7 DEF Inv, TypeOK, Open, counts
<1>9. HasReadBoth'
  <2> SUFFICES ASSUME NEW h \in Games
               PROVE  /\ at'[h] \in {"second", "flush"} => read'[h][1] # Unread
                      /\ at'[h] = "flush" => read'[h][2] # Unread
                      /\ at'[h] = "flush" => todo'[h] \subseteq {Read1(h), Read2(h)}
                      /\ held[h] # {} => at'[h] = "flush" /\ held[h] \subseteq {Read1(h), Read2(h)}
    BY <1>2 DEF HasReadBoth, Read1, Read2
  <2>1. /\ at[h] \in {"second", "flush"} => read[h][1] # Unread
        /\ at[h] = "flush" => read[h][2] # Unread
        /\ at[h] = "flush" => todo[h] \subseteq {Read1(h), Read2(h)}
        /\ held[h] # {} => at[h] = "flush" /\ held[h] \subseteq {Read1(h), Read2(h)}
    BY DEF Inv, HasReadBoth
  <2>2. CASE h = g
    BY <1>1, <1>2, <1>4, <1>7, <2>1, <2>2 DEF Unread
  <2>3. CASE h # g
    BY <1>1, <1>2, <1>4, <1>7, <2>1, <2>3
  <2> QED BY <2>2, <2>3
<1>10. RowsMatchLedger'
  BY <1>1, <1>2 DEF Inv, RowsMatchLedger, InLedger, Written, IsDraw
<1> QED BY <1>8, <1>9, <1>10 DEF Inv

(* Induction over the natural numbers, as the library can be applied: a    *)
(* set of numbers that has an element has a least one.                     *)
LEMMA LeastNat ==
    ASSUME NEW T, T \subseteq Nat, T # {}
    PROVE  \E n \in T : \A m \in T : n <= m
<1>1. \E n \in T : \A m \in T : ~(<<m, n>> \in OpToRel(<, Nat))
  BY NatLessThanWellFounded, WFMin, Zenon
<1>2. \A n \in Nat, m \in Nat : <<m, n>> \in OpToRel(<, Nat) <=> m < n
  BY Z3 DEF OpToRel
<1>3. \E n \in T : \A m \in T : ~(m < n)
  BY <1>1, <1>2, Zenon
<1> QED BY <1>3

(* SQLAlchemy's order is one the rows have, for they are numbered.         *)
LEMMA NextRowIsLeast ==
    ASSUME TypeOK, HasReadBoth, NEW g \in Games, at[g] = "flush", todo[g] # {}
    PROVE  NextRow(g) \in todo[g] /\ NextRow(g) \in Nat /\ \A q \in todo[g] : NextRow(g) <= q
<1>1. todo[g] \subseteq {Read1(g), Read2(g)} /\ Read1(g) \in Nat /\ Read2(g) \in Nat
  BY Seated DEF HasReadBoth
<1>2. todo[g] \subseteq Nat
  BY <1>1
<1>3. \E p \in todo[g] : \A q \in todo[g] : p <= q
  BY <1>2, LeastNat
<1>4. NextRow(g) \in todo[g] /\ \A q \in todo[g] : NextRow(g) <= q
  BY <1>3, Zenon DEF NextRow
<1> QED BY <1>2, <1>4

LEMMA FlushInv == ASSUME Inv, NEW g \in Games, Flush(g) PROVE Inv'
<1>1. /\ at[g] = "flush" /\ todo[g] # {}
      /\ held' = [held EXCEPT ![g] = held[g] \cup {NextRow(g)}]
      /\ todo' = [todo EXCEPT ![g] = todo[g] \ {NextRow(g)}]
      /\ UNCHANGED <<elo, rows, at, winner, stamp, read, clock, ledger, raced, counts>>
  BY DEF Flush
<1>2. NextRow(g) \in todo[g]
  BY <1>1, NextRowIsLeast DEF Inv
<1>3. todo \in [Games -> SUBSET Players] /\ held \in [Games -> SUBSET Players]
  BY DEF Inv, TypeOK
<1>4. todo' \in [Games -> SUBSET Players] /\ held' \in [Games -> SUBSET Players]
  BY <1>1, <1>2, <1>3
<1>5. TypeOK'
  BY <1>1, <1>4 DEF Inv, TypeOK, counts
<1>6. HasReadBoth'
  BY <1>1, <1>2, <1>3 DEF Inv, HasReadBoth, Read1, Read2
<1>7. RowsMatchLedger'
  BY <1>1 DEF Inv, RowsMatchLedger, InLedger, Written, IsDraw
<1> QED BY <1>5, <1>6, <1>7 DEF Inv

LEMMA Recorded ==
    ASSUME NEW S, NEW m \in Seq(S), NEW x \in S
    PROVE  /\ Append(m, x) \in Seq(S)
           /\ \A y : (\E n \in 1 .. Len(Append(m, x)) : Append(m, x)[n] = y)
                       <=> y = x \/ \E n \in 1 .. Len(m) : m[n] = y
<1>1. /\ Append(m, x) \in Seq(S) /\ Len(Append(m, x)) = Len(m) + 1 /\ Len(m) \in Nat
      /\ Append(m, x)[Len(m) + 1] = x /\ \A n \in 1 .. Len(m) : Append(m, x)[n] = m[n]
  OBVIOUS
<1>2. \A n \in 1 .. Len(m) + 1 : n \in 1 .. Len(m) \/ n = Len(m) + 1
  BY <1>1
<1>3. 1 .. Len(m) \subseteq 1 .. Len(m) + 1 /\ Len(m) + 1 \in 1 .. Len(m) + 1
  BY <1>1
<1> QED BY <1>1, <1>2, <1>3

LEMMA CommitInv == ASSUME Inv, NEW g \in Games, Commit(g) PROVE Inv'
<1>1. /\ at \in [Games -> Open \cup {"playing", "done"}] /\ elo \in [Players -> Nat]
      /\ rows \in [Games -> Rows] /\ ledger \in Seq(Games) /\ held \in [Games -> SUBSET Players]
  BY DEF Inv, TypeOK, Rows
<1>2. /\ at[g] = "flush" /\ todo[g] = {} /\ at' = [at EXCEPT ![g] = "done"]
      /\ rows' = [rows EXCEPT ![g] = Written(g)]
      /\ elo' = [p \in Players |-> IF p \notin held[g] THEN elo[p]
                                   ELSE IF p = Read1(g) THEN New(g)[1] ELSE New(g)[2]]
      /\ held' = [held EXCEPT ![g] = {}] /\ ledger' = Append(ledger, g)
      /\ UNCHANGED <<winner, stamp, read, todo, clock, raced, counts>>
  BY DEF Commit, Goto
<1>3. New(g)[1] \in Nat /\ New(g)[2] \in Nat
  BY <1>2, NewType DEF Inv, HasReadBoth
<1>4. elo' \in [Players -> Nat]
  BY <1>1, <1>2, <1>3
<1>5. rows' \in [Games -> Rows] /\ rows'[g] = Written(g)
      /\ \A h \in Games \ {g} : rows'[h] = rows[h]
  BY <1>1, <1>2, WrittenType DEF Inv
<1>6. ledger' \in Seq(Games) /\ \A h : InLedger(h)' <=> h = g \/ InLedger(h)
  BY <1>1, <1>2, Recorded DEF InLedger
<1>7. TypeOK'
  BY <1>1, <1>2, <1>4, <1>5, <1>6 DEF Inv, TypeOK, counts, Rows
<1>8. HasReadBoth'
  BY <1>1, <1>2 DEF Inv, HasReadBoth, Read1, Read2
<1>9. RowsMatchLedger'
  <2> SUFFICES ASSUME NEW h \in Games
               PROVE  /\ InLedger(h)' => at'[h] = "done" /\ rows'[h] = Written(h)
                      /\ ~InLedger(h)' => rows'[h].winner = Nobody
                                          /\ rows'[h].status \in {"PLAYING", "FINISHED"}
                      /\ winner[h] \in {Seats[h][1], Seats[h][2], Nobody}
    BY <1>2 DEF RowsMatchLedger, Written, IsDraw
  <2>1. /\ InLedger(h) => at[h] = "done" /\ rows[h] = Written(h)
        /\ ~InLedger(h) => rows[h].winner = Nobody /\ rows[h].status \in {"PLAYING", "FINISHED"}
        /\ winner[h] \in {Seats[h][1], Seats[h][2], Nobody}
    BY DEF Inv, RowsMatchLedger
  <2> QED BY <1>1, <1>2, <1>5, <1>6, <2>1
<1> QED BY <1>7, <1>8, <1>9 DEF Inv

LEMMA FailInv == ASSUME Inv, NEW g \in Games, Fail(g) PROVE Inv'
<1>1. /\ at \in [Games -> Open \cup {"playing", "done"}] /\ held \in [Games -> SUBSET Players]
      /\ failures \in 0 .. MaxFailures
  BY DEF Inv, TypeOK
<1>2. /\ at[g] \in Open /\ at' = [h \in Games |-> IF h \in {g} THEN "done" ELSE at[h]]
      /\ held' = [h \in Games |-> IF h \in {g} THEN {} ELSE held[h]]
      /\ failures < MaxFailures /\ failures' = failures + 1
      /\ UNCHANGED <<elo, rows, winner, stamp, read, todo, clock, ledger, raced, crashes>>
  BY DEF Fail, RollBack
<1>3. failures' \in 0 .. MaxFailures
  BY <1>1, <1>2
<1>4. TypeOK'
  BY <1>1, <1>2, <1>3 DEF Inv, TypeOK
<1>5. HasReadBoth'
  BY <1>1, <1>2 DEF Inv, HasReadBoth, Read1, Read2
<1>6. RowsMatchLedger'
  BY <1>1, <1>2 DEF Inv, RowsMatchLedger, InLedger, Written, IsDraw
<1> QED BY <1>4, <1>5, <1>6 DEF Inv

(* The cleanup finds the status PLAYING, so no row of the ledger.          *)
LEMMA RestartInv == ASSUME Inv, Restart PROVE Inv'
<1> DEFINE some == {g \in Games : at[g] \in Open}
<1>1. /\ at \in [Games -> Open \cup {"playing", "done"}] /\ held \in [Games -> SUBSET Players]
      /\ rows \in [Games -> Rows] /\ crashes \in 0 .. MaxCrashes /\ clock \in Nat
  BY DEF Inv, TypeOK, Rows
<1>2. /\ at' = [h \in Games |-> IF h \in some THEN "done" ELSE at[h]]
      /\ held' = [h \in Games |-> IF h \in some THEN {} ELSE held[h]]
      /\ rows' = [h \in Games |-> IF rows[h].status \notin {"PLAYING"} THEN rows[h]
                                  ELSE [status |-> "FINISHED", winner |-> rows[h].winner,
                                        finished |-> clock + 1]]
      /\ crashes < MaxCrashes /\ crashes' = crashes + 1 /\ clock' = clock + 1
      /\ UNCHANGED <<elo, winner, stamp, read, todo, ledger, raced, failures>>
  BY DEF Restart, RollBack, Stale
<1>3. crashes' \in 0 .. MaxCrashes /\ clock' \in Nat
  BY <1>1, <1>2
<1>4. rows' \in [Games -> Rows]
  BY <1>1, <1>2 DEF Rows
<1>5. TypeOK'
  BY <1>1, <1>2, <1>3, <1>4 DEF Inv, TypeOK, Rows
<1>6. HasReadBoth'
  BY <1>1, <1>2 DEF Inv, HasReadBoth, Read1, Read2, Open
<1>7. RowsMatchLedger'
  <2> SUFFICES ASSUME NEW h \in Games
               PROVE  /\ InLedger(h) => at'[h] = "done" /\ rows'[h] = Written(h)
                      /\ ~InLedger(h) => rows'[h].winner = Nobody
                                         /\ rows'[h].status \in {"PLAYING", "FINISHED"}
                      /\ winner[h] \in {Seats[h][1], Seats[h][2], Nobody}
    BY <1>2 DEF RowsMatchLedger, InLedger, Written, IsDraw
  <2>1. /\ InLedger(h) => at[h] = "done" /\ rows[h] = Written(h)
        /\ ~InLedger(h) => rows[h].winner = Nobody /\ rows[h].status \in {"PLAYING", "FINISHED"}
        /\ winner[h] \in {Seats[h][1], Seats[h][2], Nobody}
    BY DEF Inv, RowsMatchLedger
  <2>2. Written(h).status # "PLAYING"
    BY DEF Written
  <2> QED BY <1>1, <1>2, <2>1, <2>2
<1> QED BY <1>5, <1>6, <1>7 DEF Inv

LEMMA InvInit == Init => Inv
<1> SUFFICES ASSUME Init PROVE Inv
  OBVIOUS
<1>1. HasReadBoth
  BY DEF Init, HasReadBoth
<1>2. RowsMatchLedger
  BY DEF Init, RowsMatchLedger, InLedger, NewRow
<1> QED BY <1>1, <1>2, TypeInit DEF Inv

LEMMA InvNext == Inv /\ [Next]_vars => Inv'
<1> SUFFICES ASSUME Inv, [Next]_vars PROVE Inv'
  OBVIOUS
<1>1. CASE UNCHANGED vars
  <2>1. UNCHANGED <<elo, rows, at, winner, stamp, read, todo, held, clock, ledger, raced,
                    failures, crashes>>
    BY <1>1 DEF vars, job, counts
  <2>2. TypeOK' /\ HasReadBoth'
    BY <2>1 DEF Inv, TypeOK, HasReadBoth, Read1, Read2
  <2>3. RowsMatchLedger'
    BY <2>1 DEF Inv, RowsMatchLedger, InLedger, Written, IsDraw
  <2> QED BY <2>2, <2>3 DEF Inv
<1>2. CASE Step
  BY <1>2, ReadFirstInv, ReadSecondInv, FlushInv, CommitInv DEF Step
<1> QED BY <1>1, <1>2, FinishInv, FailInv, RestartInv DEF Next

THEOREM Invariance == Spec => []Inv
  BY InvInit, InvNext, PTL DEF Spec

-----------------------------------------------------------------------------
(* One transaction after the other                                         *)

(* The player whose rating a transaction reads first, and second.          *)
ReadOf(g, i) == IF i = 1 THEN Read1(g) ELSE Read2(g)

(* What transactions that share no player's rating may rely on: what they  *)
(* have read is still so, and they have read it alone.                     *)
Untouched == \A g \in Games, i \in {1, 2} : at[g] = "playing" => read[g][i] = Unread

Fresh ==
    ~raced => \A g \in Games, i \in {1, 2} :
                 at[g] \in Open /\ read[g][i] # Unread => read[g][i] = elo[ReadOf(g, i)]

Apart ==
    ~raced => \A g, h \in Games, i, j \in {1, 2} :
                 /\ g # h /\ at[g] \in Open /\ at[h] \in Open
                 /\ read[g][i] # Unread /\ read[h][j] # Unread
                 => ReadOf(g, i) # ReadOf(h, j)

(* A player the transaction neither has written nor will keeps its rating. *)
Unwritten ==
    \A g \in Games, i \in {1, 2} :
       at[g] = "flush" /\ ReadOf(g, i) \notin held[g] \cup todo[g] => New(g)[i] = read[g][i]

Isolated == Untouched /\ Fresh /\ Apart /\ Unwritten

LEMMA ReadTwo ==
    ASSUME NEW g \in Games
    PROVE  /\ ReadOf(g, 1) = Read1(g) /\ ReadOf(g, 2) = Read2(g) /\ Read1(g) # Read2(g)
           /\ \A p : HasRead(g, p) <=> at[g] \in Open
                       /\ \E i \in {1, 2} : p = ReadOf(g, i) /\ read[g][i] # Unread
<1>1. Seats[g][1] # Seats[g][2]
  BY Zenon
<1> QED BY <1>1 DEF ReadOf, Read1, Read2, HasRead

(* A step in which nothing is read or written leaves them as they were;    *)
(* transactions may end, games that are in play may begin theirs.          *)
LEMMA IsolationStands ==
    ASSUME Inv, Isolated, elo' = elo, read' = read, raced' = raced, todo' = todo,
           \A g \in Games : \/ at'[g] = at[g] /\ held'[g] = held[g] /\ winner'[g] = winner[g]
                            \/ at'[g] = "done"
                            \/ at[g] = "playing" /\ at'[g] = "first"
    PROVE  Isolated'
<1>1. ASSUME NEW g \in Games, winner'[g] = winner[g]
      PROVE  /\ \A i \in {1, 2} : ReadOf(g, i)' = ReadOf(g, i)
             /\ New(g)' = New(g)
  BY <1>1 DEF ReadOf, Read1, Read2, New, IsDraw
<1>2. \A g \in Games, i \in {1, 2} : at'[g] \in Open /\ read[g][i] # Unread =>
         at[g] \in Open /\ ReadOf(g, i)' = ReadOf(g, i)
  BY <1>1 DEF Isolated, Untouched, Open
<1>3. Untouched'
  BY DEF Isolated, Untouched
<1>4. Fresh'
  BY <1>2 DEF Isolated, Fresh
<1>5. Apart'
  BY <1>2 DEF Isolated, Apart
<1>6. Unwritten'
  BY <1>1 DEF Isolated, Unwritten
<1> QED BY <1>3, <1>4, <1>5, <1>6 DEF Isolated

LEMMA ReadIsolates ==
    ASSUME Inv, Isolated, NEW g \in Games, NEW i \in {1, 2}, Read(g, i, ReadOf(g, i)),
           at[g] \in Open, NEW place \in {"second", "flush"}, at' = [at EXCEPT ![g] = place]
    PROVE  Untouched' /\ Fresh' /\ Apart'
<1>1. /\ read' = [read EXCEPT ![g][i] = elo[ReadOf(g, i)]]
      /\ raced' = (raced \/ \E h \in Games \ {g} : HasRead(h, ReadOf(g, i)))
      /\ elo' = elo /\ winner' = winner
  BY DEF Read
<1>2. /\ read \in [Games -> (Nat \cup {Unread}) \X (Nat \cup {Unread})]
      /\ at \in [Games -> Open \cup {"playing", "done"}]
  BY DEF Inv, TypeOK
<1>3. /\ read'[g][i] = elo[ReadOf(g, i)] /\ \A h \in Games \ {g} : read'[h] = read[h]
      /\ \A j \in {1, 2} \ {i} : read'[g][j] = read[g][j]
  BY <1>1, <1>2
<1>4. at'[g] = place /\ place \in Open /\ \A h \in Games \ {g} : at'[h] = at[h]
  BY <1>2 DEF Open
<1>5. \A h \in Games, j \in {1, 2} : ReadOf(h, j)' = ReadOf(h, j)
  BY <1>1 DEF ReadOf, Read1, Read2
<1>6. ~raced' => ~raced /\ \A h \in Games \ {g} : ~HasRead(h, ReadOf(g, i))
  BY <1>1, Zenon
<1>7. \A h \in Games, j \in {1, 2} : at[h] \in Open /\ read[h][j] # Unread => HasRead(h, ReadOf(h, j))
  BY ReadTwo
<1>8. Untouched'
  BY <1>3, <1>4 DEF Isolated, Untouched, Open
<1>9. Fresh'
  BY <1>1, <1>3, <1>4, <1>5, <1>6 DEF Isolated, Fresh
<1>10. Apart'
  <2> SUFFICES ASSUME ~raced', NEW h \in Games, NEW k \in Games, NEW j \in {1, 2},
                      NEW l \in {1, 2}, h # k, at'[h] \in Open, at'[k] \in Open,
                      read'[h][j] # Unread, read'[k][l] # Unread
               PROVE  ReadOf(h, j) # ReadOf(k, l)
    BY <1>5 DEF Apart
  <2>1. ~raced /\ \A m \in Games \ {g} : ~HasRead(m, ReadOf(g, i))
    BY <1>6
  <2>2. at[h] \in Open /\ at[k] \in Open
    BY <1>4
  <2>3. CASE read[h][j] # Unread /\ read[k][l] # Unread
    BY <2>1, <2>2, <2>3 DEF Isolated, Apart
  <2>4. CASE read[h][j] = Unread
    <3>1. h = g /\ j = i /\ k # g
      BY <1>3, <2>4
    <3> QED BY <1>3, <1>7, <2>1, <2>2, <3>1
  <2>5. CASE read[k][l] = Unread
    <3>1. k = g /\ l = i /\ h # g
      BY <1>3, <2>5
    <3> QED BY <1>3, <1>7, <2>1, <2>2, <3>1
  <2> QED BY <2>3, <2>4, <2>5
<1> QED BY <1>8, <1>9, <1>10

LEMMA ReadFirstIsolates == ASSUME Inv, Isolated, NEW g \in Games, ReadFirst(g) PROVE Isolated'
<1>1. at[g] = "first" /\ Read(g, 1, ReadOf(g, 1)) /\ at' = [at EXCEPT ![g] = "second"] /\ todo' = todo
  BY ReadTwo DEF ReadFirst, Goto
<1>2. Untouched' /\ Fresh' /\ Apart'
  BY <1>1, ReadIsolates DEF Open
<1>3. Unwritten'
  <2>1. at \in [Games -> Open \cup {"playing", "done"}]
        /\ read \in [Games -> (Nat \cup {Unread}) \X (Nat \cup {Unread})]
    BY DEF Inv, TypeOK
  <2>2. winner' = winner /\ held' = held /\ \A h \in Games \ {g} : read'[h] = read[h] /\ at'[h] = at[h]
    BY <1>1, <2>1 DEF Read
  <2>3. at'[g] # "flush"
    BY <1>1, <2>1
  <2>4. \A h \in Games \ {g} : New(h)' = New(h) /\ \A i \in {1, 2} : ReadOf(h, i)' = ReadOf(h, i)
    BY <2>2 DEF New, IsDraw, ReadOf, Read1, Read2
  <2> QED BY <1>1, <2>2, <2>3, <2>4 DEF Isolated, Unwritten
<1> QED BY <1>2, <1>3 DEF Isolated

LEMMA ReadSecondIsolates == ASSUME Inv, Isolated, NEW g \in Games, ReadSecond(g) PROVE Isolated'
<1>1. at[g] = "second" /\ Read(g, 2, ReadOf(g, 2)) /\ at' = [at EXCEPT ![g] = "flush"]
  BY ReadTwo DEF ReadSecond, Goto
<1>2. Untouched' /\ Fresh' /\ Apart'
  BY <1>1, ReadIsolates DEF Open
<1> DEFINE new == Assigned(read[g][1], elo[Read2(g)], IsDraw(g))
           left == {p \in {Read1(g), Read2(g)} :
                      IF p = Read1(g) THEN new[1] # read[g][1] ELSE new[2] # elo[p]}
<1>3. todo' = [todo EXCEPT ![g] = left]
  BY DEF ReadSecond
<1>4. /\ at \in [Games -> Open \cup {"playing", "done"}] /\ todo \in [Games -> SUBSET Players]
      /\ read \in [Games -> (Nat \cup {Unread}) \X (Nat \cup {Unread})]
  BY DEF Inv, TypeOK
<1>5. /\ winner' = winner /\ held' = held /\ todo'[g] = left
      /\ \A h \in Games \ {g} : read'[h] = read[h] /\ at'[h] = at[h] /\ todo'[h] = todo[h]
      /\ read'[g][1] = read[g][1] /\ read'[g][2] = elo[Read2(g)]
  BY <1>1, <1>3, <1>4, ReadTwo DEF Read
<1>6. \A h \in Games, i \in {1, 2} : ReadOf(h, i)' = ReadOf(h, i)
  BY <1>5 DEF ReadOf, Read1, Read2
<1>7. \A h \in Games \ {g} : New(h)' = New(h)
  BY <1>5 DEF New, IsDraw
<1>8. New(g)' = new
  BY <1>5 DEF New, IsDraw
<1>9. /\ Read1(g) \notin left => new[1] = read[g][1]
      /\ Read2(g) \notin left => new[2] = elo[Read2(g)]
  BY ReadTwo
<1> HIDE DEF new, left
<1>10. Unwritten'
  <2> SUFFICES ASSUME NEW h \in Games, NEW i \in {1, 2}, at'[h] = "flush",
                      ReadOf(h, i) \notin held[h] \cup todo'[h]
               PROVE  New(h)'[i] = read'[h][i]
    BY <1>5, <1>6 DEF Unwritten
  <2>1. CASE h = g
    BY <1>5, <1>8, <1>9, <2>1, ReadTwo
  <2>2. CASE h # g
    BY <1>5, <1>7, <2>2 DEF Isolated, Unwritten
  <2> QED BY <2>1, <2>2
<1> QED BY <1>2, <1>10 DEF Isolated

LEMMA FlushIsolates == ASSUME Inv, Isolated, NEW g \in Games, Flush(g) PROVE Isolated'
<1>1. /\ held' = [held EXCEPT ![g] = held[g] \cup {NextRow(g)}]
      /\ todo' = [todo EXCEPT ![g] = todo[g] \ {NextRow(g)}]
      /\ elo' = elo /\ at' = at /\ winner' = winner /\ read' = read /\ raced' = raced
  BY DEF Flush
<1>2. todo \in [Games -> SUBSET Players] /\ held \in [Games -> SUBSET Players]
  BY DEF Inv, TypeOK
<1>3. \A h \in Games : held[h] \cup todo[h] \subseteq held'[h] \cup todo'[h]
  BY <1>1, <1>2
<1>4. \A h \in Games : New(h)' = New(h) /\ \A i \in {1, 2} : ReadOf(h, i)' = ReadOf(h, i)
  BY <1>1 DEF New, IsDraw, ReadOf, Read1, Read2
<1>5. Untouched' /\ Fresh' /\ Apart'
  BY <1>1, <1>4 DEF Isolated, Untouched, Fresh, Apart
<1>6. Unwritten'
  BY <1>1, <1>3, <1>4 DEF Isolated, Unwritten
<1> QED BY <1>5, <1>6 DEF Isolated

(* A transaction that shares no rating writes what it alone has read.      *)
LEMMA CommitIsolates == ASSUME Inv, Isolated, NEW g \in Games, Commit(g) PROVE Isolated'
<1>1. /\ at[g] = "flush" /\ todo[g] = {} /\ at' = [at EXCEPT ![g] = "done"]
      /\ elo' = [p \in Players |-> IF p \notin held[g] THEN elo[p]
                                   ELSE IF p = Read1(g) THEN New(g)[1] ELSE New(g)[2]]
      /\ held' = [held EXCEPT ![g] = {}]
      /\ winner' = winner /\ read' = read /\ todo' = todo /\ raced' = raced
  BY DEF Commit, Goto
<1>2. /\ at \in [Games -> Open \cup {"playing", "done"}] /\ held \in [Games -> SUBSET Players]
  BY DEF Inv, TypeOK
<1>3. at'[g] = "done" /\ \A h \in Games \ {g} : at'[h] = at[h] /\ held'[h] = held[h]
  BY <1>1, <1>2
<1>4. \A h \in Games : New(h)' = New(h) /\ \A i \in {1, 2} : ReadOf(h, i)' = ReadOf(h, i)
  BY <1>1 DEF New, IsDraw, ReadOf, Read1, Read2
<1>5. read[g][1] # Unread /\ read[g][2] # Unread /\ held[g] \subseteq {ReadOf(g, 1), ReadOf(g, 2)}
  BY <1>1, ReadTwo DEF Inv, HasReadBoth
<1>6. Untouched' /\ Apart' /\ Unwritten'
  BY <1>1, <1>3, <1>4 DEF Isolated, Untouched, Apart, Unwritten, Open
<1>7. Fresh'
  <2> SUFFICES ASSUME ~raced, NEW h \in Games, NEW i \in {1, 2}, h # g, at[h] \in Open,
                      read[h][i] # Unread
               PROVE  read[h][i] = elo'[ReadOf(h, i)]
    BY <1>1, <1>3, <1>4 DEF Fresh, Open
  <2>1. ReadOf(h, i) # ReadOf(g, 1) /\ ReadOf(h, i) # ReadOf(g, 2)
    BY <1>1, <1>5 DEF Isolated, Apart, Open
  <2>2. ReadOf(h, i) \in Players /\ read[h][i] = elo[ReadOf(h, i)]
    BY Seated DEF Isolated, Fresh, ReadOf
  <2> QED BY <1>1, <1>5, <2>1, <2>2
<1> QED BY <1>6, <1>7 DEF Isolated

LEMMA IsolatedNext == Inv /\ Isolated /\ [Next]_vars => Isolated'
<1> SUFFICES ASSUME Inv, Isolated, [Next]_vars PROVE Isolated'
  OBVIOUS
<1>1. /\ at \in [Games -> Open \cup {"playing", "done"}] /\ winner \in [Games -> Players \cup {Nobody}]
      /\ held \in [Games -> SUBSET Players]
  BY DEF Inv, TypeOK
<1>2. CASE UNCHANGED vars
  <2>1. elo' = elo /\ read' = read /\ raced' = raced /\ todo' = todo /\ at' = at /\ held' = held
        /\ winner' = winner
    BY <1>2 DEF vars, job
  <2> QED BY <2>1, IsolationStands
<1>3. ASSUME NEW g \in Games, NEW w \in Results[g], FinishGame(g, w) PROVE Isolated'
  <2>1. /\ at[g] = "playing" /\ at' = [at EXCEPT ![g] = "first"]
        /\ winner' = [winner EXCEPT ![g] = w]
        /\ elo' = elo /\ read' = read /\ raced' = raced /\ todo' = todo /\ held' = held
    BY <1>3 DEF FinishGame, Goto
  <2>2. \A h \in Games : \/ at'[h] = at[h] /\ held'[h] = held[h] /\ winner'[h] = winner[h]
                         \/ at[h] = "playing" /\ at'[h] = "first"
    BY <1>1, <2>1
  <2> QED BY <2>1, <2>2, IsolationStands
<1>4. ASSUME NEW some \in SUBSET Games, RollBack(some) PROVE Isolated'
  <2>1. /\ at' = [g \in Games |-> IF g \in some THEN "done" ELSE at[g]]
        /\ held' = [g \in Games |-> IF g \in some THEN {} ELSE held[g]]
        /\ elo' = elo /\ winner' = winner /\ read' = read /\ todo' = todo /\ raced' = raced
    BY <1>4 DEF RollBack
  <2>2. \A h \in Games : \/ at'[h] = at[h] /\ held'[h] = held[h] /\ winner'[h] = winner[h]
                         \/ at'[h] = "done"
    BY <1>1, <2>1
  <2> QED BY <2>1, <2>2, IsolationStands
<1>5. ASSUME NEW g \in Games, Fail(g) PROVE Isolated'
  <2>1. RollBack({g}) /\ {g} \in SUBSET Games
    BY <1>5 DEF Fail
  <2> QED BY <1>4, <2>1
<1>6. CASE Restart
  <2>1. RollBack({g \in Games : at[g] \in Open}) /\ {g \in Games : at[g] \in Open} \in SUBSET Games
    BY <1>6 DEF Restart
  <2> QED BY <1>4, <2>1
<1>7. CASE Step
  BY <1>7, ReadFirstIsolates, ReadSecondIsolates, FlushIsolates, CommitIsolates DEF Step
<1> QED BY <1>2, <1>3, <1>5, <1>6, <1>7 DEF Next

LEMMA IsolatedInit == Init => Isolated
<1> SUFFICES ASSUME Init PROVE Isolated
  OBVIOUS
<1>1. /\ at = [g \in Games |-> "playing"] /\ read = [g \in Games |-> <<Unread, Unread>>]
  BY DEF Init
<1>2. \A g \in Games : at[g] = "playing" /\ read[g][1] = Unread /\ read[g][2] = Unread
  BY <1>1
<1> QED BY <1>2 DEF Isolated, Untouched, Fresh, Apart, Unwritten, Open

-----------------------------------------------------------------------------
(* The ledger, replayed                                                    *)

(* f[n] are the ratings after the first n games.                           *)
IsReplay(f, games) ==
    f = [n \in 0 .. Len(games) |-> IF n = 0 THEN Initial ELSE Rerated(f[n - 1], games[n])]

LEMMA ReplayChooses ==
    ASSUME NEW games PROVE Replay(games) = (CHOOSE f : IsReplay(f, games))[Len(games)]
  BY DEF Replay, IsReplay

(* There is at most one such function, so Replay is what any of them says. *)
LEMMA ReplayIs ==
    ASSUME NEW games, Len(games) \in Nat, NEW f, IsReplay(f, games)
    PROVE  Replay(games) = f[Len(games)]
<1> DEFINE c == CHOOSE e : IsReplay(e, games)
<1>1. IsReplay(c, games)
  BY Zenon
<1>2. Replay(games) = c[Len(games)]
  BY ReplayChooses, Zenon
<1> HIDE DEF c
<1> DEFINE T == {n \in 0 .. Len(games) : c[n] # f[n]}
<1>3. ASSUME T # {} PROVE FALSE
  <2>1. PICK n \in T : \A m \in T : n <= m
    <3>1. T \subseteq Nat
      OBVIOUS
    <3> HIDE DEF T
    <3> QED BY <1>3, <3>1, LeastNat, Zenon
  <2>2. n # 0
    BY <1>1 DEF IsReplay
  <2>3. n - 1 \in 0 .. Len(games) /\ n - 1 \notin T
    BY <2>1, <2>2
  <2>4. c[n - 1] = f[n - 1]
    BY <2>3
  <2>5. c[n] = Rerated(c[n - 1], games[n]) /\ f[n] = Rerated(f[n - 1], games[n])
    BY <1>1, <2>2 DEF IsReplay
  <2> QED BY <2>4, <2>5
<1> QED BY <1>2, <1>3

(* The ratings are at the end of a replay of the ledger.                   *)
Serial == ~raced => \E f : IsReplay(f, ledger) /\ f[Len(ledger)] = elo

(* The result of a game of the ledger stays what it was.                   *)
LEMMA SerialStands ==
    ASSUME TypeOK, Serial, elo' = elo, ledger' = ledger, ~raced' => ~raced,
           \A g \in Games : InLedger(g) => winner'[g] = winner[g]
    PROVE  Serial'
<1> SUFFICES ASSUME ~raced' PROVE (\E f : IsReplay(f, ledger) /\ f[Len(ledger)] = elo)'
  BY DEF Serial
<1>1. PICK f : IsReplay(f, ledger) /\ f[Len(ledger)] = elo
  BY DEF Serial
<1>2. ledger \in Seq(Games)
  BY DEF TypeOK
<1>3. \A n \in 1 .. Len(ledger) : winner'[ledger[n]] = winner[ledger[n]]
  BY <1>2 DEF InLedger
<1>4. \A r, g : winner'[g] = winner[g] => Rerated(r, g)' = Rerated(r, g)
  BY DEF Rerated, Read1, Read2, IsDraw
<1>5. \A h : h = [n \in 0 .. Len(ledger) |-> IF n = 0 THEN Initial ELSE Rerated(h[n - 1], ledger[n])]
               => IsReplay(h, ledger)'
  BY <1>2, <1>3, <1>4 DEF IsReplay
<1>6. \E h : IsReplay(h, ledger)' /\ h[Len(ledger')] = elo'
  BY <1>1, <1>5 DEF IsReplay
<1> QED BY <1>6

(* What a transaction commits that shares no rating is one game more.      *)
LEMMA CommitRerates ==
    ASSUME Inv, Isolated, ~raced, NEW g \in Games, Commit(g)
    PROVE  elo' = Rerated(elo, g)
<1>1. /\ at[g] = "flush" /\ todo[g] = {}
      /\ elo' = [p \in Players |-> IF p \notin held[g] THEN elo[p]
                                   ELSE IF p = Read1(g) THEN New(g)[1] ELSE New(g)[2]]
  BY DEF Commit
<1>2. held[g] \subseteq {Read1(g), Read2(g)} /\ read[g][1] # Unread /\ read[g][2] # Unread
  BY <1>1 DEF Inv, HasReadBoth
<1>3. read[g][1] = elo[Read1(g)] /\ read[g][2] = elo[Read2(g)]
  BY <1>1, <1>2, ReadTwo DEF Isolated, Fresh, Open
<1>4. /\ Read1(g) \notin held[g] => New(g)[1] = elo[Read1(g)]
      /\ Read2(g) \notin held[g] => New(g)[2] = elo[Read2(g)]
  BY <1>1, <1>3, ReadTwo DEF Isolated, Unwritten
<1>5. New(g) = Rated(elo[Read1(g)], elo[Read2(g)], IsDraw(g))
  BY <1>3 DEF New, Assigned
<1>6. elo \in [Players -> Nat] /\ Read1(g) \in Players /\ Read2(g) \in Players /\ Read1(g) # Read2(g)
  BY Seated, ReadTwo DEF Inv, TypeOK
<1>7. elo' = [elo EXCEPT ![Read1(g)] = New(g)[1], ![Read2(g)] = New(g)[2]]
  BY <1>1, <1>2, <1>4, <1>6
<1> QED BY <1>5, <1>7 DEF Rerated

LEMMA CommitSerial == ASSUME Inv, Isolated, Serial, NEW g \in Games, Commit(g) PROVE Serial'
<1>1. /\ ledger' = Append(ledger, g) /\ winner' = winner /\ raced' = raced
  BY DEF Commit
<1> SUFFICES ASSUME ~raced PROVE (\E f : IsReplay(f, ledger) /\ f[Len(ledger)] = elo)'
  BY <1>1 DEF Serial
<1>2. PICK f : IsReplay(f, ledger) /\ f[Len(ledger)] = elo
  BY DEF Serial
<1>3. /\ ledger \in Seq(Games) /\ Len(ledger) \in Nat /\ Len(ledger') = Len(ledger) + 1
      /\ ledger'[Len(ledger) + 1] = g /\ \A n \in 1 .. Len(ledger) : ledger'[n] = ledger[n]
  BY <1>1 DEF Inv, TypeOK
<1>4. elo' = Rerated(elo, g)
  BY CommitRerates
<1>5. \A r, h : Rerated(r, h)' = Rerated(r, h)
  BY <1>1 DEF Rerated, Read1, Read2, IsDraw
<1> DEFINE e == [n \in 0 .. Len(ledger) + 1 |-> IF n = Len(ledger) + 1 THEN elo' ELSE f[n]]
<1>6. e = [n \in 0 .. Len(ledger) + 1 |->
             IF n = 0 THEN Initial ELSE Rerated(e[n - 1], ledger'[n])]
  <2> SUFFICES ASSUME NEW n \in 0 .. Len(ledger) + 1
               PROVE  e[n] = IF n = 0 THEN Initial ELSE Rerated(e[n - 1], ledger'[n])
    OBVIOUS
  <2>1. CASE n = 0
    BY <1>2, <1>3, <2>1 DEF IsReplay
  <2>2. CASE n \in 1 .. Len(ledger)
    <3>1. e[n] = f[n] /\ e[n - 1] = f[n - 1]
      BY <1>3, <2>2
    <3>2. f[n] = Rerated(f[n - 1], ledger[n])
      BY <1>2, <1>3, <2>2 DEF IsReplay
    <3> QED BY <1>3, <2>2, <3>1, <3>2
  <2>3. CASE n = Len(ledger) + 1
    <3>1. e[n] = elo' /\ e[n - 1] = f[Len(ledger)]
      BY <1>3, <2>3
    <3> QED BY <1>2, <1>3, <1>4, <2>3, <3>1
  <2> QED BY <1>3, <2>1, <2>2, <2>3
<1>7. e[Len(ledger')] = elo'
  BY <1>3
<1> HIDE DEF e
<1>8. \A h : h = [n \in 0 .. Len(ledger') |-> IF n = 0 THEN Initial ELSE Rerated(h[n - 1], ledger'[n])]
               => IsReplay(h, ledger)'
  BY <1>5 DEF IsReplay
<1>9. \E h : IsReplay(h, ledger)' /\ h[Len(ledger')] = elo'
  BY <1>3, <1>6, <1>7, <1>8
<1> QED BY <1>9

LEMMA SerialInit == Init => Serial
<1> SUFFICES ASSUME Init PROVE \E f : IsReplay(f, ledger) /\ f[Len(ledger)] = elo
  BY DEF Serial
<1> DEFINE f == [n \in 0 .. 0 |-> Initial]
<1>1. ledger = <<>> /\ Len(ledger) = 0 /\ elo = Initial
  BY DEF Init
<1>2. IsReplay(f, ledger) /\ f[Len(ledger)] = elo
  BY <1>1 DEF IsReplay
<1> QED BY <1>2

LEMMA SerialNext == Inv /\ Isolated /\ Serial /\ [Next]_vars => Serial'
<1> SUFFICES ASSUME Inv, Isolated, Serial, [Next]_vars PROVE Serial'
  OBVIOUS
<1>1. winner \in [Games -> Players \cup {Nobody}] /\ TypeOK
  BY DEF Inv, TypeOK
<1>2. CASE UNCHANGED vars
  <2>1. elo' = elo /\ ledger' = ledger /\ raced' = raced /\ winner' = winner
    BY <1>2 DEF vars, job
  <2> QED BY <1>1, <2>1, SerialStands
<1>3. ASSUME NEW g \in Games, NEW w \in Results[g], FinishGame(g, w) PROVE Serial'
  <2>1. /\ at[g] = "playing" /\ winner' = [winner EXCEPT ![g] = w]
        /\ elo' = elo /\ ledger' = ledger /\ raced' = raced
    BY <1>3 DEF FinishGame
  <2>2. \A h \in Games : InLedger(h) => winner'[h] = winner[h]
    BY <1>1, <2>1 DEF Inv, RowsMatchLedger
  <2> QED BY <1>1, <2>1, <2>2, SerialStands
<1>4. ASSUME NEW g \in Games, NEW i \in {1, 2}, NEW p, Read(g, i, p) PROVE Serial'
  <2>1. elo' = elo /\ ledger' = ledger /\ winner' = winner
    BY <1>4 DEF Read
  <2>2. ~raced' => ~raced
    BY <1>4, Zenon DEF Read
  <2> QED BY <1>1, <2>1, <2>2, SerialStands
<1>5. ASSUME NEW g \in Games, ReadFirst(g) \/ ReadSecond(g) \/ Flush(g) PROVE Serial'
  <2>1. CASE Flush(g)
    <3>1. elo' = elo /\ ledger' = ledger /\ raced' = raced /\ winner' = winner
      BY <2>1 DEF Flush
    <3> QED BY <1>1, <3>1, SerialStands
  <2> QED BY <1>4, <1>5, <2>1 DEF ReadFirst, ReadSecond
<1>6. ASSUME NEW some, RollBack(some) PROVE Serial'
  <2>1. elo' = elo /\ ledger' = ledger /\ raced' = raced /\ winner' = winner
    BY <1>6 DEF RollBack
  <2> QED BY <1>1, <2>1, SerialStands
<1>7. ASSUME NEW g \in Games, Fail(g) PROVE Serial'
  BY <1>6, <1>7 DEF Fail
<1>8. CASE Restart
  BY <1>6, <1>8 DEF Restart
<1>9. CASE Step
  BY <1>5, <1>9, CommitSerial DEF Step
<1> QED BY <1>2, <1>3, <1>7, <1>8, <1>9 DEF Next

THEOREM SerialInvariance == Spec => [](Isolated /\ Serial)
<1>1. Init => Isolated /\ Serial
  BY IsolatedInit, SerialInit
<1>2. Inv /\ (Isolated /\ Serial) /\ [Next]_vars => (Isolated /\ Serial)'
  BY IsolatedNext, SerialNext
<1> QED BY <1>1, <1>2, Invariance, PTL DEF Spec

-----------------------------------------------------------------------------
(* The loop that finds a streak                                            *)

Kinds == {"win", "draw", "loss"}

(* f[n] is the streak after n rounds of the loop over m outcomes.          *)
IsLoop(f, out, m) ==
    f = [n \in 0 .. m |-> IF n = 0 THEN NoStreak ELSE Extend(f[n - 1], out[n])]

OutcomesOf(p, games) == [n \in 1 .. Len(games) |-> Outcome(p, games[n])]

LEMMA LoopExists == ASSUME NEW m \in Nat, NEW out PROVE \E f : IsLoop(f, out, m)
<1> DEFINE T == {n \in Nat : ~\E f : IsLoop(f, out, n)}
<1>1. ASSUME T # {} PROVE FALSE
  <2>1. PICK n \in T : \A k \in T : n <= k
    <3>1. T \subseteq Nat
      OBVIOUS
    <3> HIDE DEF T
    <3> QED BY <1>1, <3>1, LeastNat, Zenon
  <2>2. n \in Nat /\ ~\E f : IsLoop(f, out, n)
    BY <2>1
  <2>3. n # 0
    <3>1. IsLoop([k \in 0 .. 0 |-> NoStreak], out, 0)
      BY DEF IsLoop
    <3> QED BY <2>2, <3>1
  <2>4. PICK f : IsLoop(f, out, n - 1)
    <3>1. n - 1 \in Nat /\ n - 1 \notin T
      BY <2>1, <2>2, <2>3
    <3> QED BY <3>1
  <2> DEFINE e == [k \in 0 .. n |-> IF k = n THEN Extend(f[n - 1], out[n]) ELSE f[k]]
  <2>5. ASSUME NEW k \in 0 .. n
        PROVE  e[k] = IF k = 0 THEN NoStreak ELSE Extend(e[k - 1], out[k])
    <3>1. CASE k = 0
      BY <2>2, <2>3, <2>4, <3>1 DEF IsLoop
    <3>2. CASE k \in 1 .. n - 1
      <4>1. e[k] = f[k] /\ e[k - 1] = f[k - 1]
        BY <2>2, <3>2
      <4>2. f[k] = Extend(f[k - 1], out[k])
        BY <2>2, <2>4, <3>2 DEF IsLoop
      <4> QED BY <3>2, <4>1, <4>2
    <3>3. CASE k = n
      <4>1. e[k] = Extend(f[n - 1], out[n]) /\ e[k - 1] = f[n - 1]
        BY <2>2, <2>3, <3>3
      <4> QED BY <2>3, <3>3, <4>1
    <3> QED BY <2>2, <2>3, <3>1, <3>2, <3>3
  <2>6. IsLoop(e, out, n)
    <3>1. e = [k \in 0 .. n |-> e[k]]
      OBVIOUS
    <3> HIDE DEF e
    <3> QED BY <2>5, <3>1 DEF IsLoop
  <2> QED BY <2>2, <2>6
<1> QED BY <1>1

LEMMA StreakChooses ==
    ASSUME NEW p, NEW games
    PROVE  Streak(p, games) =
             (CHOOSE f : f = [n \in 0 .. Len(games) |->
                 IF n = 0 THEN NoStreak ELSE Extend(f[n - 1], Outcome(p, games[n]))])[Len(games)]
  BY DEF Streak

LEMMA StreakIsALoop ==
    ASSUME NEW p, NEW games, Len(games) \in Nat
    PROVE  \E f : IsLoop(f, OutcomesOf(p, games), Len(games)) /\ Streak(p, games) = f[Len(games)]
<1> DEFINE Is(f) == f = [n \in 0 .. Len(games) |->
                           IF n = 0 THEN NoStreak ELSE Extend(f[n - 1], Outcome(p, games[n]))]
           c == CHOOSE f : Is(f)
<1>1. \A f : IsLoop(f, OutcomesOf(p, games), Len(games)) <=> Is(f)
  <2>1. \A n \in 0 .. Len(games) : n # 0 => OutcomesOf(p, games)[n] = Outcome(p, games[n])
    BY DEF OutcomesOf
  <2> QED BY <2>1 DEF IsLoop
<1>2. Streak(p, games) = c[Len(games)]
  BY StreakChooses, Zenon
<1> HIDE DEF Is
<1>3. \E f : Is(f)
  BY <1>1, LoopExists
<1>4. Is(c)
  BY <1>3, Zenon
<1> HIDE DEF c
<1> QED BY <1>1, <1>2, <1>4

(* The rounds the loop should count: those whose outcome is that of every  *)
(* round before that has one.                                              *)
RunOf(out, i) == {j \in 1 .. i : out[j] # "none" /\ \A k \in 1 .. j : out[k] \in {"none", out[j]}}

(* The invariant of the loop after i rounds.                               *)
Counted(s, out, i) ==
    /\ s \in [type : Kinds \cup {"none"}, length : Nat, decided : BOOLEAN]
    /\ s.length = Cardinality(RunOf(out, i))
    /\ s.length = 0 => s.type = "none" /\ ~s.decided /\ \A k \in 1 .. i : out[k] = "none"
    /\ s.length # 0 => /\ s.type # "none"
                       /\ \E k \in 1 .. i : out[k] = s.type
    /\ s.length # 0 /\ ~s.decided => \A k \in 1 .. i : out[k] \in {"none", s.type}
    /\ s.decided => \E k \in 1 .. i : out[k] \notin {"none", s.type}

LEMMA RunGrows ==
    ASSUME NEW i \in Nat, NEW out
    PROVE  /\ IsFiniteSet(RunOf(out, i))
           /\ ~(out[i + 1] # "none" /\ \A k \in 1 .. i : out[k] \in {"none", out[i + 1]})
                 => RunOf(out, i + 1) = RunOf(out, i)
           /\ (out[i + 1] # "none" /\ \A k \in 1 .. i : out[k] \in {"none", out[i + 1]})
                 => Cardinality(RunOf(out, i + 1)) = Cardinality(RunOf(out, i)) + 1
<1>1. IsFiniteSet(RunOf(out, i))
  <2>1. IsFiniteSet(1 .. i)
    BY FS_Interval
  <2> QED BY <2>1, FS_Subset DEF RunOf
<1>2. 1 .. i + 1 = (1 .. i) \cup {i + 1} /\ i + 1 \notin 1 .. i
  OBVIOUS
<1>3. i + 1 \in RunOf(out, i + 1) <=>
         out[i + 1] # "none" /\ \A k \in 1 .. i : out[k] \in {"none", out[i + 1]}
  BY <1>2 DEF RunOf
<1>4. RunOf(out, i + 1) \ {i + 1} = RunOf(out, i) /\ i + 1 \notin RunOf(out, i)
  BY <1>2 DEF RunOf
<1>5. CASE i + 1 \in RunOf(out, i + 1)
  <2>1. RunOf(out, i + 1) = RunOf(out, i) \cup {i + 1}
    BY <1>4, <1>5
  <2>2. Cardinality(RunOf(out, i) \cup {i + 1}) = Cardinality(RunOf(out, i)) + 1
    BY <1>1, <1>4, FS_AddElement
  <2> QED BY <1>1, <1>3, <1>5, <2>1, <2>2
<1>6. CASE i + 1 \notin RunOf(out, i + 1)
  <2>1. RunOf(out, i + 1) \ {i + 1} = RunOf(out, i + 1)
    BY <1>6, Zenon
  <2>2. RunOf(out, i + 1) = RunOf(out, i)
    BY <1>4, <2>1, Zenon
  <2> QED BY <1>1, <1>3, <1>6, <2>2
<1> QED BY <1>5, <1>6

LEMMA RoundCounts ==
    ASSUME NEW i \in Nat, NEW out, out[i + 1] \in Kinds \cup {"none"},
           NEW s, Counted(s, out, i)
    PROVE  Counted(Extend(s, out[i + 1]), out, i + 1)
<1> DEFINE o == out[i + 1]
           new == Extend(s, o)
           size == Cardinality(RunOf(out, i))
<1> SUFFICES Counted(new, out, i + 1)
  OBVIOUS
<1>1. /\ s \in [type : Kinds \cup {"none"}, length : Nat, decided : BOOLEAN]
      /\ s.type \in Kinds \cup {"none"} /\ s.length \in Nat /\ s.decided \in BOOLEAN
      /\ s.length = size
  BY DEF Counted
<1>2. \A k \in 1 .. i + 1 : k \in 1 .. i \/ k = i + 1
  OBVIOUS
<1>3. 1 .. i \subseteq 1 .. i + 1 /\ i + 1 \in 1 .. i + 1
  OBVIOUS
<1>4. o \in Kinds \cup {"none"}
  OBVIOUS
<1>5. CASE o = "none" \/ s.decided
  <2>1. new = s
    BY <1>5 DEF Extend
  <2>2. RunOf(out, i + 1) = RunOf(out, i)
    <3>1. CASE o = "none"
      BY <3>1, RunGrows
    <3>2. CASE s.decided
      <4>1. \E k \in 1 .. i : out[k] \notin {"none", s.type}
        BY <3>2 DEF Counted
      <4>2. s.length # 0 /\ s.type # "none" /\ \E k \in 1 .. i : out[k] = s.type
        BY <3>2 DEF Counted
      <4> QED BY <4>1, <4>2, RunGrows
    <3> QED BY <1>5, <3>1, <3>2
  <2>3. new.length = 0 => new.type = "none" /\ ~new.decided /\ \A k \in 1 .. i + 1 : out[k] = "none"
    BY <1>2, <1>5, <2>1 DEF Counted
  <2>4. new.length # 0 => new.type # "none" /\ \E k \in 1 .. i + 1 : out[k] = new.type
    BY <1>3, <2>1 DEF Counted
  <2>5. new.length # 0 /\ ~new.decided => \A k \in 1 .. i + 1 : out[k] \in {"none", new.type}
    BY <1>2, <1>5, <2>1 DEF Counted
  <2>6. new.decided => \E k \in 1 .. i + 1 : out[k] \notin {"none", new.type}
    BY <1>3, <2>1 DEF Counted
  <2> HIDE DEF new
  <2> QED BY <1>1, <2>1, <2>2, <2>3, <2>4, <2>5, <2>6 DEF Counted
<1>6. CASE o # "none" /\ ~s.decided /\ s.length = 0
  <2>1. new = [s EXCEPT !.type = o, !.length = 1]
    <3>1. s.type = "none"
      BY <1>6 DEF Counted
    <3> QED BY <1>6, <3>1 DEF Extend
  <2>2. /\ new \in [type : Kinds \cup {"none"}, length : Nat, decided : BOOLEAN]
        /\ new.type = o /\ new.length = 1 /\ ~new.decided
    <3> HIDE DEF new, o
    <3> QED BY <1>1, <1>4, <1>6, <2>1
  <2>3. \A k \in 1 .. i : out[k] = "none"
    BY <1>6 DEF Counted
  <2>4. Cardinality(RunOf(out, i + 1)) = 1
    <3>1. o # "none" /\ size = 0
      BY <1>1, <1>6
    <3>2. Cardinality(RunOf(out, i + 1)) = size + 1
      BY <2>3, <3>1, RunGrows
    <3> HIDE DEF size, o
    <3> QED BY <3>1, <3>2
  <2>5. /\ \E k \in 1 .. i + 1 : out[k] = new.type
        /\ \A k \in 1 .. i + 1 : out[k] \in {"none", new.type}
    BY <1>2, <1>3, <2>2, <2>3
  <2> HIDE DEF new
  <2> QED BY <1>6, <2>2, <2>4, <2>5 DEF Counted
<1>7. CASE o # "none" /\ ~s.decided /\ s.length # 0 /\ o = s.type
  <2>1. new = [s EXCEPT !.length = s.length + 1]
    BY <1>7 DEF Extend
  <2>2. /\ new \in [type : Kinds \cup {"none"}, length : Nat, decided : BOOLEAN]
        /\ new.type = o /\ new.length = s.length + 1 /\ new.length # 0 /\ ~new.decided
    BY <1>1, <1>7, <2>1
  <2>3. \A k \in 1 .. i : out[k] \in {"none", o}
    BY <1>7 DEF Counted
  <2>4. Cardinality(RunOf(out, i + 1)) = size + 1
    BY <1>7, <2>3, RunGrows
  <2>5. /\ \E k \in 1 .. i + 1 : out[k] = new.type
        /\ \A k \in 1 .. i + 1 : out[k] \in {"none", new.type}
    BY <1>2, <1>3, <2>2, <2>3
  <2> HIDE DEF new, size
  <2> QED BY <1>1, <1>7, <2>2, <2>4, <2>5 DEF Counted
<1>8. CASE o # "none" /\ ~s.decided /\ s.length # 0 /\ o # s.type
  <2>1. new = [s EXCEPT !.decided = TRUE]
    BY <1>8 DEF Extend
  <2>2. /\ new \in [type : Kinds \cup {"none"}, length : Nat, decided : BOOLEAN]
        /\ new.type = s.type /\ new.length = s.length /\ new.decided
    BY <1>1, <2>1
  <2>3. s.type # "none" /\ \E k \in 1 .. i : out[k] = s.type
    BY <1>8 DEF Counted
  <2>4. RunOf(out, i + 1) = RunOf(out, i)
    BY <1>8, <2>3, RunGrows
  <2>5. /\ \E k \in 1 .. i + 1 : out[k] = new.type
        /\ \E k \in 1 .. i + 1 : out[k] \notin {"none", new.type}
    BY <1>3, <1>8, <2>2, <2>3
  <2> HIDE DEF new
  <2> QED BY <1>1, <1>8, <2>2, <2>3, <2>4, <2>5 DEF Counted
<1> QED BY <1>5, <1>6, <1>7, <1>8

LEMMA LoopCounts ==
    ASSUME NEW m \in Nat, NEW out \in [1 .. m -> Kinds \cup {"none"}], NEW f, IsLoop(f, out, m)
    PROVE  f[m].length = Cardinality(RunOf(out, m))
<1> DEFINE T == {i \in 0 .. m : ~Counted(f[i], out, i)}
<1>1. ASSUME T # {} PROVE FALSE
  <2>1. PICK i \in T : \A k \in T : i <= k
    <3>1. T \subseteq Nat
      OBVIOUS
    <3> HIDE DEF T
    <3> QED BY <1>1, <3>1, LeastNat, Zenon
  <2>2. i \in 0 .. m /\ ~Counted(f[i], out, i)
    BY <2>1
  <2>3. i # 0
    <3>1. f[0] = NoStreak
      BY DEF IsLoop
    <3>2. RunOf(out, 0) = {}
      BY DEF RunOf
    <3>3. Cardinality(RunOf(out, 0)) = 0
      BY <3>2, FS_EmptySet
    <3>4. Counted(f[0], out, 0)
      BY <3>1, <3>3 DEF Counted, NoStreak
    <3> QED BY <2>2, <3>4
  <2>4. i - 1 \in 0 .. m /\ i - 1 \in Nat /\ i - 1 \notin T
    BY <2>1, <2>2, <2>3
  <2>5. Counted(f[i - 1], out, i - 1)
    BY <2>4
  <2>6. f[i] = Extend(f[i - 1], out[i])
    BY <2>2, <2>3 DEF IsLoop
  <2>7. (i - 1) + 1 = i /\ out[i] \in Kinds \cup {"none"}
    BY <2>2, <2>3
  <2>8. Counted(Extend(f[i - 1], out[i]), out, i)
    <3> DEFINE j == i - 1
    <3>1. j \in Nat /\ j + 1 = i /\ Counted(f[j], out, j) /\ out[j + 1] \in Kinds \cup {"none"}
      BY <2>4, <2>5, <2>7
    <3> HIDE DEF j
    <3>2. Counted(Extend(f[j], out[j + 1]), out, j + 1)
      BY <3>1, RoundCounts
    <3> QED BY <3>1, <3>2 DEF j
  <2> QED BY <2>2, <2>6, <2>8
<1>2. Counted(f[m], out, m)
  BY <1>1
<1> QED BY <1>2 DEF Counted

(* The clock never gives one time to two results.                          *)
DistinctStamps ==
    \A g \in Games :
        /\ stamp[g] <= clock
        /\ \A h \in Games :
              at[g] # "playing" /\ at[h] # "playing" /\ stamp[g] = stamp[h] => g = h

LEMMA StampsInit == Init => DistinctStamps
<1> SUFFICES ASSUME Init PROVE DistinctStamps
  OBVIOUS
<1>1. \A g \in Games : at[g] = "playing" /\ stamp[g] = 0
  BY DEF Init
<1>2. clock = 0
  BY DEF Init
<1> QED BY <1>1, <1>2 DEF DistinctStamps

LEMMA StampsNext == Inv /\ DistinctStamps /\ [Next]_vars => DistinctStamps'
<1> SUFFICES ASSUME Inv, DistinctStamps, [Next]_vars PROVE DistinctStamps'
  OBVIOUS
<1>1. /\ at \in [Games -> Open \cup {"playing", "done"}] /\ stamp \in [Games -> Nat] /\ clock \in Nat
  BY DEF Inv, TypeOK
<1>2. ASSUME stamp' = stamp, clock' \in {clock, clock + 1},
             \A g \in Games : at'[g] # "playing" => at[g] # "playing"
      PROVE  DistinctStamps'
  <2>1. \A g \in Games : stamp[g] <= clock'
    BY <1>1, <1>2 DEF DistinctStamps
  <2> QED BY <1>2, <2>1 DEF DistinctStamps
<1>3. CASE UNCHANGED vars
  <2>1. stamp' = stamp /\ clock' = clock /\ at' = at
    BY <1>3 DEF vars, job
  <2> QED BY <1>2, <2>1
<1>4. ASSUME NEW g \in Games, NEW w \in Results[g], FinishGame(g, w) PROVE DistinctStamps'
  <2>1. /\ at' = [at EXCEPT ![g] = "first"] /\ stamp' = [stamp EXCEPT ![g] = clock + 1]
        /\ clock' = clock + 1
    BY <1>4 DEF FinishGame, Goto
  <2>2. /\ stamp'[g] = clock + 1
        /\ \A h \in Games \ {g} : at'[h] = at[h] /\ stamp'[h] = stamp[h] /\ stamp[h] <= clock
    BY <1>1, <2>1 DEF DistinctStamps
  <2> QED BY <1>1, <2>1, <2>2 DEF DistinctStamps
<1>5. ASSUME NEW g \in Games, NEW place \in {"second", "flush", "done"}, Goto(g, place),
             at[g] # "playing", stamp' = stamp, clock' = clock
      PROVE  DistinctStamps'
  BY <1>1, <1>2, <1>5 DEF Goto
<1>6. ASSUME NEW g \in Games, ReadFirst(g) \/ ReadSecond(g) \/ Flush(g) \/ Commit(g)
      PROVE  DistinctStamps'
  <2>1. CASE ReadFirst(g) \/ ReadSecond(g)
    BY <1>5, <2>1 DEF ReadFirst, ReadSecond, Read
  <2>2. CASE Flush(g)
    BY <1>2, <2>2 DEF Flush
  <2>3. CASE Commit(g)
    BY <1>5, <2>3 DEF Commit
  <2> QED BY <1>6, <2>1, <2>2, <2>3
<1>7. ASSUME NEW some \in SUBSET Games, RollBack(some), clock' \in {clock, clock + 1},
             \A g \in some : at[g] \in Open
      PROVE  DistinctStamps'
  <2>1. at' = [g \in Games |-> IF g \in some THEN "done" ELSE at[g]] /\ stamp' = stamp
    BY <1>7 DEF RollBack
  <2>2. \A g \in Games : at'[g] # "playing" => at[g] # "playing"
    BY <1>7, <2>1 DEF Open
  <2> QED BY <1>2, <1>7, <2>1, <2>2
<1>8. ASSUME NEW g \in Games, Fail(g) PROVE DistinctStamps'
  <2>1. RollBack({g}) /\ at[g] \in Open /\ clock' = clock /\ {g} \in SUBSET Games
    BY <1>8 DEF Fail
  <2> QED BY <1>7, <2>1
<1>9. CASE Restart
  <2> DEFINE some == {g \in Games : at[g] \in Open}
  <2>1. RollBack(some) /\ clock' = clock + 1 /\ some \in SUBSET Games
    BY <1>9 DEF Restart
  <2> QED BY <1>7, <2>1
<1> QED BY <1>3, <1>4, <1>6, <1>8, <1>9 DEF Next, Step

THEOREM StampInvariance == Spec => []DistinctStamps
  BY Invariance, StampsInit, StampsNext, PTL DEF Spec

(* A game counts for a player exactly if it is one of the ledger.          *)
LEMMA OutcomeTells ==
    ASSUME Inv, NEW p \in Players, NEW g \in Ended(p)
    PROVE  /\ g \in Games /\ Outcome(p, g) \in Kinds \cup {"none"}
           /\ Outcome(p, g) # "none" <=> g \in Listed(p)
           /\ g \in Listed(p) => at[g] = "done" /\ rows[g].finished = stamp[g]
<1>1. g \in Games /\ rows[g].status \in {"FINISHED", "DRAW"}
  BY DEF Ended
<1>2. /\ InLedger(g) => at[g] = "done" /\ rows[g] = Written(g)
      /\ ~InLedger(g) => rows[g].winner = Nobody /\ rows[g].status \in {"PLAYING", "FINISHED"}
  BY <1>1 DEF Inv, RowsMatchLedger
<1>3. p # Nobody
  OBVIOUS
<1>4. Outcome(p, g) \in Kinds \cup {"none"} /\ (Outcome(p, g) = "none" <=>
         rows[g].status # "DRAW" /\ rows[g].winner = Nobody)
  BY <1>3 DEF Outcome, Kinds
<1>5. g \in Listed(p) <=> rows[g].status = "DRAW" \/ rows[g].winner # Nobody
  BY DEF Listed
<1>6. Written(g).finished = stamp[g]
  BY DEF Written
<1> QED BY <1>1, <1>2, <1>4, <1>5, <1>6

(* An order of the query goes through all the games, later ones first.     *)
LEMMA OrderIsABijection ==
    ASSUME NEW p, NEW games \in LatestFirst(Ended(p))
    PROVE  LET n == Cardinality(Ended(p))
           IN  /\ n \in Nat /\ Len(games) = n /\ IsFiniteSet(Ended(p))
               /\ games \in Bijection(1 .. n, Ended(p))
               /\ \A i, j \in 1 .. n : i < j => rows[games[i]].finished >= rows[games[j]].finished
<1> DEFINE n == Cardinality(Ended(p))
<1>1. IsFiniteSet(Ended(p))
  BY FS_Subset DEF Ended
<1>2. n \in Nat
  BY <1>1, FS_CardinalityType
<1>3. /\ games \in [1 .. n -> Ended(p)] /\ DOMAIN games = 1 .. n
      /\ \A i, j \in 1 .. n : i < j => /\ games[i] # games[j]
                                       /\ rows[games[i]].finished >= rows[games[j]].finished
  BY DEF LatestFirst
<1>4. Len(games) = n
  BY <1>2, <1>3
<1> HIDE DEF n
<1>5. games \in Injection(1 .. n, Ended(p))
  <2>1. \A i, j \in 1 .. n : games[i] = games[j] => i = j
    <3> SUFFICES ASSUME NEW i \in 1 .. n, NEW j \in 1 .. n, i # j PROVE games[i] # games[j]
      OBVIOUS
    <3>1. i < j \/ j < i
      BY <1>2
    <3> QED BY <1>3, <3>1
  <2> QED BY <1>3, <2>1 DEF Injection, IsInjective
<1>6. IsFiniteSet(1 .. n) /\ Cardinality(1 .. n) = Cardinality(Ended(p))
  <2>1. 1 \in Int /\ n \in Int
    BY <1>2
  <2>2. IsFiniteSet(1 .. n) /\ Cardinality(1 .. n) = IF 1 > n THEN 0 ELSE n - 1 + 1
    BY <2>1, FS_Interval, Zenon
  <2> QED BY <1>2, <2>2 DEF n
<1>7. games \in Bijection(1 .. n, Ended(p))
  BY <1>1, <1>5, <1>6, FS_Injection DEF Bijection
<1> QED BY <1>1, <1>2, <1>3, <1>4, <1>7 DEF n

LEMMA StreakIsRight ==
    ASSUME Inv, DistinctStamps, NEW p \in Players, NEW games \in LatestFirst(Ended(p))
    PROVE  Streak(p, games).length =
             Cardinality({g \in Listed(p) : \A h \in Since(p, g) : Outcome(p, h) = Outcome(p, g)})
<1> DEFINE n == Cardinality(Ended(p))
           out == OutcomesOf(p, games)
           run == RunOf(out, n)
           latest == {g \in Listed(p) : \A h \in Since(p, g) : Outcome(p, h) = Outcome(p, g)}
<1>1. /\ n \in Nat /\ Len(games) = n /\ games \in Bijection(1 .. n, Ended(p))
      /\ \A i, j \in 1 .. n : i < j => rows[games[i]].finished >= rows[games[j]].finished
  BY OrderIsABijection
<1> HIDE DEF n
<1>2. /\ games \in [1 .. n -> Ended(p)]
      /\ \A i, j \in 1 .. n : games[i] = games[j] => i = j
      /\ \A g \in Ended(p) : \E i \in 1 .. n : games[i] = g
  BY <1>1 DEF Bijection, Injection, IsInjective, Surjection
<1>3. /\ out \in [1 .. n -> Kinds \cup {"none"}]
      /\ \A i \in 1 .. n : out[i] = Outcome(p, games[i])
  BY <1>1, <1>2, OutcomeTells DEF OutcomesOf
<1> HIDE DEF out
<1>4. Streak(p, games).length = Cardinality(run)
  <2>1. PICK f : IsLoop(f, out, n) /\ Streak(p, games) = f[n]
    BY <1>1, StreakIsALoop DEF out
  <2> QED BY <1>1, <1>3, <2>1, LoopCounts
<1>5. \A i \in 1 .. n : games[i] \in Listed(p) <=> out[i] # "none"
  <2> SUFFICES ASSUME NEW i \in 1 .. n PROVE games[i] \in Listed(p) <=> out[i] # "none"
    OBVIOUS
  <2>1. games[i] \in Ended(p) /\ out[i] = Outcome(p, games[i])
    BY <1>2, <1>3
  <2>2. Outcome(p, games[i]) # "none" <=> games[i] \in Listed(p)
    BY <2>1, OutcomeTells
  <2> QED BY <2>1, <2>2
<1>6. \A i, j \in 1 .. n : games[i] \in Listed(p) /\ games[j] \in Listed(p) =>
         (rows[games[i]].finished >= rows[games[j]].finished <=> i <= j)
  <2> SUFFICES ASSUME NEW i \in 1 .. n, NEW j \in 1 .. n,
                      games[i] \in Listed(p), games[j] \in Listed(p)
               PROVE  rows[games[i]].finished >= rows[games[j]].finished <=> i <= j
    OBVIOUS
  <2>1. /\ games[i] \in Games /\ games[j] \in Games
        /\ at[games[i]] # "playing" /\ at[games[j]] # "playing"
        /\ rows[games[i]].finished = stamp[games[i]] /\ rows[games[j]].finished = stamp[games[j]]
    BY <1>2, OutcomeTells
  <2>2. stamp[games[i]] \in Nat /\ stamp[games[j]] \in Nat
    BY <2>1 DEF Inv, TypeOK
  <2>3. stamp[games[i]] = stamp[games[j]] => i = j
    BY <1>2, <2>1 DEF DistinctStamps
  <2>4. i < j \/ i = j \/ j < i
    BY <1>1
  <2>5. CASE i < j
    BY <1>1, <2>5
  <2>6. CASE i = j
    BY <1>1, <2>1, <2>2, <2>6
  <2>7. CASE j < i
    <3>1. stamp[games[j]] >= stamp[games[i]] /\ stamp[games[i]] # stamp[games[j]]
      BY <1>1, <2>1, <2>3, <2>7
    <3> QED BY <1>1, <2>1, <2>2, <2>7, <3>1
  <2> QED BY <2>4, <2>5, <2>6, <2>7
<1>7. \A i \in 1 .. n : i \in run <=> games[i] \in latest
  <2> SUFFICES ASSUME NEW i \in 1 .. n, games[i] \in Listed(p)
               PROVE  (\A k \in 1 .. i : out[k] \in {"none", out[i]})
                         <=> \A h \in Since(p, games[i]) : Outcome(p, h) = out[i]
    BY <1>3, <1>5 DEF RunOf
  <2>1. \A h \in Since(p, games[i]) : \E k \in 1 .. i : games[k] = h /\ out[k] # "none"
    <3> SUFFICES ASSUME NEW h \in Since(p, games[i])
                 PROVE  \E k \in 1 .. i : games[k] = h /\ out[k] # "none"
      OBVIOUS
    <3>1. h \in Listed(p) /\ h \in Ended(p) /\ rows[h].finished >= rows[games[i]].finished
      BY DEF Since, Listed
    <3>2. PICK k \in 1 .. n : games[k] = h
      BY <1>2, <3>1
    <3>3. k <= i /\ out[k] # "none"
      BY <1>5, <1>6, <3>1, <3>2
    <3> QED BY <1>1, <3>2, <3>3
  <2>2. \A k \in 1 .. i : out[k] # "none" => games[k] \in Since(p, games[i])
    <3> SUFFICES ASSUME NEW k \in 1 .. i, out[k] # "none" PROVE games[k] \in Since(p, games[i])
      OBVIOUS
    <3>1. k \in 1 .. n /\ k <= i
      BY <1>1
    <3> QED BY <1>5, <1>6, <3>1 DEF Since
  <2>3. \A k \in 1 .. i : out[k] = Outcome(p, games[k])
    BY <1>1, <1>3
  <2> QED BY <2>1, <2>2, <2>3
<1>8. run \subseteq 1 .. n /\ IsFiniteSet(run)
  BY <1>1, RunGrows DEF RunOf
<1>9. latest \subseteq Ended(p)
  BY DEF Listed
<1> HIDE DEF run, latest
<1> DEFINE name == [i \in run |-> games[i]]
<1>10. name \in Bijection(run, latest)
  <2>1. name \in [run -> latest] /\ \A i \in run : name[i] = games[i]
    BY <1>7, <1>8
  <2>2. \A i, j \in run : name[i] = name[j] => i = j
    BY <1>2, <1>8, <2>1
  <2>3. \A g \in latest : \E i \in run : name[i] = g
    BY <1>2, <1>7, <1>9, <2>1
  <2> HIDE DEF name
  <2> QED BY <2>1, <2>2, <2>3 DEF Bijection, Injection, IsInjective, Surjection
<1>11. Cardinality(latest) = Cardinality(run)
  <2>1. ExistsBijection(run, latest)
    BY <1>10 DEF ExistsBijection
  <2> QED BY <1>8, <2>1, FS_Bijection
<1> QED BY <1>4, <1>11 DEF latest

-----------------------------------------------------------------------------
(* No deadlock                                                             *)

(* What the order of the flush is for: rows are locked in their order.     *)
LocksAscend ==
    \A g \in Games : at[g] = "flush" => \A p \in held[g], q \in todo[g] : p < q

LEMMA AscendInit == Init => LocksAscend
  BY DEF Init, LocksAscend

LEMMA AscendNext == Inv /\ LocksAscend /\ [Next]_vars => LocksAscend'
<1> SUFFICES ASSUME Inv, LocksAscend, [Next]_vars PROVE LocksAscend'
  OBVIOUS
<1>1. /\ at \in [Games -> Open \cup {"playing", "done"}]
      /\ todo \in [Games -> SUBSET Players] /\ held \in [Games -> SUBSET Players]
  BY DEF Inv, TypeOK
<1>2. ASSUME todo' = todo, held' = held, \A g \in Games : at'[g] = "flush" => at[g] = "flush"
      PROVE  LocksAscend'
  BY <1>2 DEF LocksAscend
<1>3. ASSUME NEW g \in Games, NEW place \in {"first", "second", "done"}, Goto(g, place),
             todo' = todo, held' = held \/ held' = [held EXCEPT ![g] = {}]
      PROVE  LocksAscend'
  BY <1>1, <1>3 DEF LocksAscend, Goto
<1>4. CASE UNCHANGED vars
  <2>1. todo' = todo /\ held' = held /\ at' = at
    BY <1>4 DEF vars, job
  <2> QED BY <1>2, <2>1
<1>5. ASSUME NEW g \in Games, ReadFirst(g) \/ Commit(g) \/ \E w \in Results[g] : FinishGame(g, w)
      PROVE  LocksAscend'
  BY <1>3, <1>5 DEF ReadFirst, Read, Commit, FinishGame
<1>6. ASSUME NEW g \in Games, ReadSecond(g) PROVE LocksAscend'
  <2>1. /\ at[g] = "second" /\ at' = [at EXCEPT ![g] = "flush"] /\ held' = held
        /\ \E left : todo' = [todo EXCEPT ![g] = left]
    BY <1>6 DEF ReadSecond, Read, Goto
  <2>2. held[g] = {}
    BY <2>1 DEF Inv, HasReadBoth
  <2>3. \A h \in Games \ {g} : at'[h] = at[h] /\ todo'[h] = todo[h]
    BY <1>1, <2>1
  <2> QED BY <2>1, <2>2, <2>3 DEF LocksAscend
<1>7. ASSUME NEW g \in Games, Flush(g) PROVE LocksAscend'
  <2>1. /\ at[g] = "flush" /\ todo[g] # {} /\ at' = at
        /\ held' = [held EXCEPT ![g] = held[g] \cup {NextRow(g)}]
        /\ todo' = [todo EXCEPT ![g] = todo[g] \ {NextRow(g)}]
    BY <1>7 DEF Flush
  <2>2. NextRow(g) \in Nat /\ \A q \in todo[g] : NextRow(g) <= q
    BY <2>1, NextRowIsLeast DEF Inv
  <2>3. todo[g] \subseteq Nat
    BY <1>1
  <2>4. \A p \in held'[g], q \in todo'[g] : p < q
    <3> SUFFICES ASSUME NEW p \in held'[g], NEW q \in todo'[g] PROVE p < q
      OBVIOUS
    <3>1. q \in todo[g] /\ q # NextRow(g) /\ (p \in held[g] \/ p = NextRow(g))
      BY <1>1, <2>1
    <3>2. CASE p \in held[g]
      BY <2>1, <3>1, <3>2 DEF LocksAscend
    <3>3. CASE p = NextRow(g)
      BY <2>2, <2>3, <3>1, <3>3
    <3> QED BY <3>1, <3>2, <3>3
  <2>5. \A h \in Games \ {g} : held'[h] = held[h] /\ todo'[h] = todo[h]
    BY <1>1, <2>1
  <2> QED BY <2>1, <2>4, <2>5 DEF LocksAscend
<1>8. ASSUME NEW some, RollBack(some) PROVE LocksAscend'
  <2>1. /\ at' = [h \in Games |-> IF h \in some THEN "done" ELSE at[h]]
        /\ held' = [h \in Games |-> IF h \in some THEN {} ELSE held[h]] /\ todo' = todo
    BY <1>8 DEF RollBack
  <2> QED BY <1>1, <2>1 DEF LocksAscend
<1> QED BY <1>4, <1>5, <1>6, <1>7, <1>8 DEF Next, Step, Fail, Restart

THEOREM AscendInvariance == Spec => []LocksAscend
  BY Invariance, AscendInit, AscendNext, PTL DEF Spec

(* A finite set that has an element has one with the greatest number.      *)
LEMMA Greatest ==
    ASSUME NEW S, IsFiniteSet(S), S # {}, NEW f, \A x \in S : f[x] \in Nat
    PROVE  \E x \in S : \A y \in S : f[y] <= f[x]
<1> DEFINE Bad(U) == U # {} /\ ~\E x \in U : \A y \in U : f[y] <= f[x]
           T == {Cardinality(U) : U \in {V \in SUBSET S : Bad(V)}}
<1>1. ASSUME T # {} PROVE FALSE
  <2>1. \A U \in SUBSET S : IsFiniteSet(U) /\ Cardinality(U) \in Nat
    BY FS_Subset, FS_CardinalityType
  <2>2. PICK n \in T : \A k \in T : n <= k
    <3>1. T \subseteq Nat
      BY <2>1
    <3> HIDE DEF T
    <3> QED BY <1>1, <3>1, LeastNat, Zenon
  <2>3. PICK U \in SUBSET S : Bad(U) /\ Cardinality(U) = n
    BY <2>2
  <2>4. PICK x \in U : TRUE
    BY <2>3
  <2>5. U \ {x} \in SUBSET S /\ Cardinality(U \ {x}) = n - 1 /\ n \in Nat
    BY <2>1, <2>3, FS_RemoveElement
  <2>6. ~Bad(U \ {x})
    <3>1. n - 1 \notin T
      BY <2>2, <2>5
    <3> QED BY <2>5, <3>1
  <2>7. CASE U \ {x} = {}
    BY <2>3, <2>4, <2>7
  <2>8. CASE U \ {x} # {}
    <3>1. PICK z \in U \ {x} : \A y \in U \ {x} : f[y] <= f[z]
      BY <2>6, <2>8
    <3>2. f[x] \in Nat /\ f[z] \in Nat /\ \A y \in U : f[y] \in Nat
      BY <2>3, <2>4, <3>1
    <3>3. CASE f[x] <= f[z]
      BY <2>3, <2>4, <3>1, <3>3
    <3>4. CASE f[z] <= f[x]
      BY <2>3, <2>4, <3>1, <3>2, <3>4
    <3> QED BY <3>2, <3>3, <3>4
  <2> QED BY <2>7, <2>8
<1>2. ~Bad(S)
  BY <1>1
<1> QED BY <1>2

(* The guards of the actions of Step: an open transaction can go on.       *)
CanGo(g) ==
    \/ at[g] \in {"first", "second"}
    \/ at[g] = "flush" /\ todo[g] = {}
    \/ at[g] = "flush" /\ todo[g] # {} /\ \A h \in Games : NextRow(g) \notin held[h]

NobodyWaitsForever == (\E g \in Games : at[g] \in Open) => \E g \in Games : CanGo(g)

LEMMA SomebodyGoes == Inv /\ LocksAscend => NobodyWaitsForever
<1> SUFFICES ASSUME Inv, LocksAscend, \A g \in Games : ~CanGo(g), NEW o \in Games, at[o] \in Open
             PROVE  FALSE
  BY DEF NobodyWaitsForever
<1> DEFINE waiting == {g \in Games : at[g] = "flush" /\ todo[g] # {}}
           row == [g \in Games |-> NextRow(g)]
<1>1. o \in waiting
  BY DEF CanGo, Open
<1>2. \A g \in waiting : row[g] = NextRow(g) /\ NextRow(g) \in Nat /\ NextRow(g) \in todo[g]
  BY NextRowIsLeast DEF Inv
<1>3. IsFiniteSet(waiting)
  BY FS_Subset
<1>4. PICK g \in waiting : \A h \in waiting : row[h] <= row[g]
  <2> HIDE DEF waiting, row
  <2> QED BY <1>1, <1>2, <1>3, Greatest
<1>5. PICK h \in Games : NextRow(g) \in held[h]
  BY <1>4 DEF CanGo
<1>6. h \in waiting
  BY <1>5 DEF Inv, HasReadBoth, CanGo
<1>7. NextRow(g) < NextRow(h)
  BY <1>2, <1>5, <1>6 DEF LocksAscend
<1> QED BY <1>2, <1>4, <1>6, <1>7

(* How many steps a game has before it at most.                            *)
Rank(g) ==
    CASE at[g] = "playing" -> 6
      [] at[g] = "first"   -> 5
      [] at[g] = "second"  -> 4
      [] at[g] = "flush"   -> 1 + Cardinality(todo[g])
      [] OTHER             -> 0

(* No step raises a rank; what an open transaction does lowers one.        *)
Lowers ==
    /\ \A g \in Games : Rank(g)' <= Rank(g)
    /\ Step => \E g \in Games : Rank(g)' < Rank(g)

LEMMA TwoAtMost ==
    ASSUME NEW a, NEW b, NEW T \in SUBSET {a, b}
    PROVE  IsFiniteSet(T) /\ Cardinality(T) \in 0 .. 2
<1>1. IsFiniteSet({a}) /\ Cardinality({a}) = 1
  BY FS_Singleton
<1>2. {a, b} = {a} \cup {b}
  OBVIOUS
<1>3. IsFiniteSet({a} \cup {b}) /\ Cardinality({a} \cup {b}) \in {1, 2}
  BY <1>1, FS_AddElement
<1>4. /\ IsFiniteSet(T) /\ Cardinality(T) \in Nat
      /\ Cardinality(T) <= Cardinality({a} \cup {b})
  BY <1>2, <1>3, FS_Subset, FS_CardinalityType
<1> QED BY <1>3, <1>4

LEMMA RankIs ==
    ASSUME TypeOK, HasReadBoth, NEW g \in Games
    PROVE  /\ Rank(g) \in Nat
           /\ at[g] = "flush" => Rank(g) = 1 + Cardinality(todo[g]) /\ Rank(g) \in 1 .. 3
<1>1. at[g] \in {"playing", "first", "second", "flush", "done"}
  BY DEF TypeOK, Open
<1>2. CASE at[g] = "flush"
  <2>1. Rank(g) = 1 + Cardinality(todo[g])
    BY <1>2 DEF Rank
  <2>2. Cardinality(todo[g]) \in 0 .. 2
    BY <1>2, TwoAtMost DEF HasReadBoth
  <2> QED BY <2>1, <2>2
<1>3. CASE at[g] # "flush"
  BY <1>1, <1>3 DEF Rank
<1> QED BY <1>2, <1>3

LEMMA RankFalls == Inv /\ Next => Lowers
<1> SUFFICES ASSUME Inv, Next PROVE Lowers
  OBVIOUS
<1>1. /\ at \in [Games -> Open \cup {"playing", "done"}] /\ todo \in [Games -> SUBSET Players]
  BY DEF Inv, TypeOK
<1>2. \A g \in Games : at'[g] = at[g] /\ todo'[g] = todo[g] => Rank(g)' = Rank(g)
  BY DEF Rank
<1>3. \A g \in Games : Rank(g) \in Nat
  BY RankIs DEF Inv
<1>4. ASSUME NEW g \in Games, Rank(g)' \in Nat, Rank(g)' < Rank(g),
             \A h \in Games \ {g} : at'[h] = at[h] /\ todo'[h] = todo[h]
      PROVE  Lowers
  BY <1>2, <1>3, <1>4 DEF Lowers
<1>5. ASSUME NEW g \in Games, NEW w \in Results[g], FinishGame(g, w) PROVE Lowers
  <2>1. at[g] = "playing" /\ at' = [at EXCEPT ![g] = "first"] /\ todo' = todo
    BY <1>5 DEF FinishGame, Goto
  <2>2. Rank(g) = 6 /\ Rank(g)' = 5
    BY <1>1, <2>1 DEF Rank
  <2> QED BY <1>1, <1>4, <2>1, <2>2
<1>6. ASSUME NEW g \in Games, ReadFirst(g) PROVE Lowers
  <2>1. at[g] = "first" /\ at' = [at EXCEPT ![g] = "second"] /\ todo' = todo
    BY <1>6 DEF ReadFirst, Goto
  <2>2. Rank(g) = 5 /\ Rank(g)' = 4
    BY <1>1, <2>1 DEF Rank
  <2> QED BY <1>1, <1>4, <2>1, <2>2
<1>7. ASSUME NEW g \in Games, ReadSecond(g) PROVE Lowers
  <2>1. PICK left \in SUBSET {Read1(g), Read2(g)} :
           /\ at[g] = "second" /\ at' = [at EXCEPT ![g] = "flush"]
           /\ todo' = [todo EXCEPT ![g] = left]
    BY <1>7 DEF ReadSecond, Goto
  <2>2. Rank(g) = 4
    BY <2>1 DEF Rank
  <2>3. Rank(g)' = 1 + Cardinality(left)
    BY <1>1, <2>1 DEF Rank
  <2>4. Cardinality(left) \in 0 .. 2
    BY TwoAtMost
  <2>5. Rank(g)' \in Nat /\ Rank(g)' < Rank(g)
    BY <2>2, <2>3, <2>4
  <2> QED BY <1>1, <1>4, <2>1, <2>5
<1>8. ASSUME NEW g \in Games, Flush(g) PROVE Lowers
  <2>1. /\ at[g] = "flush" /\ todo[g] # {} /\ at' = at
        /\ todo' = [todo EXCEPT ![g] = todo[g] \ {NextRow(g)}]
    BY <1>8 DEF Flush
  <2>2. Rank(g) = 1 + Cardinality(todo[g]) /\ Rank(g)' = 1 + Cardinality(todo'[g])
    BY <1>1, <2>1 DEF Rank
  <2>3. IsFiniteSet(todo[g]) /\ Cardinality(todo[g]) \in Nat
    <3>1. todo[g] \in SUBSET {Read1(g), Read2(g)}
      BY <2>1 DEF Inv, HasReadBoth
    <3>2. IsFiniteSet(todo[g]) /\ Cardinality(todo[g]) \in 0 .. 2
      BY <3>1, TwoAtMost, Zenon
    <3> QED BY <3>2
  <2>4. NextRow(g) \in todo[g] /\ todo'[g] = todo[g] \ {NextRow(g)}
    BY <1>1, <2>1, NextRowIsLeast DEF Inv
  <2>5. /\ Cardinality(todo[g] \ {NextRow(g)}) = Cardinality(todo[g]) - 1
        /\ Cardinality(todo[g] \ {NextRow(g)}) \in Nat
    BY <2>3, <2>4, FS_RemoveElement, FS_CardinalityType
  <2>6. Rank(g)' \in Nat /\ Rank(g)' < Rank(g)
    BY <2>2, <2>3, <2>4, <2>5
  <2> QED BY <1>1, <1>4, <2>1, <2>6
<1>9. ASSUME NEW g \in Games, Commit(g) PROVE Lowers
  <2>1. at[g] = "flush" /\ at' = [at EXCEPT ![g] = "done"] /\ todo' = todo
    BY <1>9 DEF Commit, Goto
  <2>2. Rank(g) >= 1 /\ Rank(g)' = 0
    <3>1. Rank(g) \in 1 .. 3
      BY <2>1, RankIs DEF Inv
    <3>2. Rank(g)' = 0
      BY <1>1, <2>1 DEF Rank
    <3> QED BY <3>1, <3>2
  <2> QED BY <1>1, <1>3, <1>4, <2>1, <2>2
<1>10. ASSUME NEW some, RollBack(some), ~Step PROVE Lowers
  <2>1. at' = [h \in Games |-> IF h \in some THEN "done" ELSE at[h]] /\ todo' = todo
    BY <1>10 DEF RollBack
  <2>2. \A g \in Games : Rank(g)' = Rank(g) \/ Rank(g)' = 0
    <3> SUFFICES ASSUME NEW g \in Games PROVE Rank(g)' = Rank(g) \/ Rank(g)' = 0
      OBVIOUS
    <3>1. CASE g \in some
      <4>1. at'[g] = "done"
        BY <2>1, <3>1
      <4> QED BY <4>1 DEF Rank
    <3>2. CASE g \notin some
      BY <1>1, <1>2, <2>1, <3>2
    <3> QED BY <3>1, <3>2
  <2> QED BY <1>3, <1>10, <2>2 DEF Lowers
<1>11. CASE Step
  BY <1>6, <1>7, <1>8, <1>9, <1>11 DEF Step
<1>12. CASE ~Step
  BY <1>5, <1>10, <1>12 DEF Next, Fail, Restart
<1> QED BY <1>11, <1>12

(* Every order of the query exists: there is one at least, whichever games *)
(* a player has ended.                                                     *)
LEMMA OrderExists == ASSUME TypeOK, NEW p PROVE LatestFirst(Ended(p)) # {}
<1> DEFINE T == {Cardinality(U) : U \in {V \in SUBSET Games : LatestFirst(V) = {}}}
<1>1. \A U \in SUBSET Games : IsFiniteSet(U) /\ Cardinality(U) \in Nat
  BY FS_Subset, FS_CardinalityType
<1>2. \A g \in Games : rows[g].finished \in Nat
  BY DEF TypeOK
<1>3. ASSUME T # {} PROVE FALSE
  <2>1. PICK n \in T : \A k \in T : n <= k
    <3>1. T \subseteq Nat
      BY <1>1
    <3> HIDE DEF T
    <3> QED BY <1>3, <3>1, LeastNat, Zenon
  <2>2. PICK U \in SUBSET Games : LatestFirst(U) = {} /\ Cardinality(U) = n
    BY <2>1
  <2>3. n \in Nat /\ IsFiniteSet(U)
    BY <1>1, <2>2
  <2>4. U # {}
    <3>1. ASSUME U = {} PROVE FALSE
      <4>1. Cardinality(U) = 0
        BY <3>1, FS_EmptySet
      <4>2. [i \in 1 .. 0 |-> i] \in LatestFirst(U)
        BY <3>1, <4>1 DEF LatestFirst
      <4> QED BY <2>2, <4>2
    <3> QED BY <3>1
  <2>5. PICK x \in U : \A y \in U : rows[x].finished <= rows[y].finished
    <3> DEFINE times == {rows[y].finished : y \in U}
    <3>1. times \subseteq Nat /\ times # {}
      BY <1>2, <2>2, <2>4
    <3>2. PICK t \in times : \A u \in times : t <= u
      <4> HIDE DEF times
      <4> QED BY <3>1, LeastNat, Zenon
    <3> QED BY <3>2
  <2>6. U \ {x} \in SUBSET Games /\ Cardinality(U \ {x}) = n - 1 /\ n - 1 \in Nat
    <3>1. U \ {x} \in SUBSET Games
      BY <2>2
    <3>2. Cardinality(U \ {x}) = Cardinality(U) - 1
      BY <2>3, <2>5, FS_RemoveElement
    <3>3. Cardinality(U \ {x}) \in Nat
      BY <1>1, <3>1
    <3> QED BY <2>2, <3>1, <3>2, <3>3
  <2>7. PICK list \in LatestFirst(U \ {x}) : TRUE
    <3>1. n - 1 \notin T
      BY <2>1, <2>3
    <3> QED BY <2>6, <3>1
  <2>8. /\ list \in [1 .. n - 1 -> U \ {x}]
        /\ \A i, j \in 1 .. n - 1 : i < j => /\ list[i] # list[j]
                                             /\ rows[list[i]].finished >= rows[list[j]].finished
    BY <2>6 DEF LatestFirst
  <2> DEFINE longer == [i \in 1 .. n |-> IF i = n THEN x ELSE list[i]]
  <2>9. longer \in [1 .. n -> U] /\ DOMAIN longer = 1 .. n
    BY <2>3, <2>8
  <2>10. \A i, j \in 1 .. n : i < j => /\ longer[i] # longer[j]
                                       /\ rows[longer[i]].finished >= rows[longer[j]].finished
    <3> SUFFICES ASSUME NEW i \in 1 .. n, NEW j \in 1 .. n, i < j
                 PROVE  /\ longer[i] # longer[j]
                        /\ rows[longer[i]].finished >= rows[longer[j]].finished
      OBVIOUS
    <3>1. i \in 1 .. n - 1 /\ longer[i] = list[i] /\ list[i] \in U \ {x} /\ list[i] \in Games
      BY <2>2, <2>3, <2>8
    <3>2. CASE j = n
      <4>1. longer[j] = x /\ rows[x].finished \in Nat /\ rows[list[i]].finished \in Nat
        BY <1>2, <2>2, <3>1, <3>2
      <4> QED BY <2>5, <3>1, <4>1
    <3>3. CASE j # n
      <4>1. j \in 1 .. n - 1 /\ longer[j] = list[j]
        BY <2>3, <3>3
      <4> QED BY <2>8, <3>1, <4>1
    <3> QED BY <3>2, <3>3
  <2> HIDE DEF longer
  <2>11. longer \in LatestFirst(U)
    BY <2>2, <2>9, <2>10 DEF LatestFirst
  <2> QED BY <2>2, <2>11
<1>4. Ended(p) \in SUBSET Games
  BY DEF Ended
<1> QED BY <1>3, <1>4

-----------------------------------------------------------------------------
(* The theorems                                                            *)

(* The rows and the transactions stay of their types; above all, no rating *)
(* falls below zero (repository.py 317-327, 347-357).                      *)
THEOREM TypeCorrect == Spec => []TypeOK
<1>1. Inv => TypeOK
  BY DEF Inv
<1> QED BY <1>1, Invariance, PTL

(* What the statistics of a player and the leaderboard count is what was   *)
(* committed: no failed transaction, no restart and no cleanup adds a win, *)
(* a loss or a draw, or takes one away (repository.py 144-168, 184-202,    *)
(* 405-449, 499-503).                                                      *)
THEOREM StatisticsAreExact == Spec => []StatsMatchLedger
<1>1. Inv => StatsMatchLedger
  <2> SUFFICES ASSUME Inv, NEW p \in Players
               PROVE  LET mine == {g \in {ledger[n] : n \in DOMAIN ledger} :
                                     p \in {Read1(g), Read2(g)}}
                      IN  /\ Total(p, "win")  = Cardinality({g \in mine : winner[g] = p})
                          /\ Total(p, "draw") = Cardinality({g \in mine : IsDraw(g)})
                          /\ Total(p, "loss") =
                                Cardinality({g \in mine : winner[g] \notin {p, Nobody}})
                          /\ Cardinality(Listed(p)) = Cardinality(mine)
    BY DEF StatsMatchLedger
  <2> DEFINE mine == {g \in {ledger[n] : n \in DOMAIN ledger} : p \in {Read1(g), Read2(g)}}
  <2>1. \A g : g \in mine <=> g \in Games /\ InLedger(g) /\ p \in {Seats[g][1], Seats[g][2]}
    <3>1. ledger \in Seq(Games)
      BY DEF Inv, TypeOK
    <3>2. DOMAIN ledger = 1 .. Len(ledger) /\ \A n \in 1 .. Len(ledger) : ledger[n] \in Games
      BY <3>1
    <3>3. \A g : g \in {ledger[n] : n \in DOMAIN ledger} <=> InLedger(g)
      BY <3>2 DEF InLedger
    <3>4. \A g : InLedger(g) => g \in Games
      BY <3>2 DEF InLedger
    <3> QED BY <3>3, <3>4, Seated
  <2>2. \A g \in Games : /\ InLedger(g) => rows[g] = Written(g)
                         /\ ~InLedger(g) => rows[g].winner = Nobody
                                            /\ rows[g].status \in {"PLAYING", "FINISHED"}
    BY DEF Inv, RowsMatchLedger
  <2> HIDE DEF mine
  <2>3. \A g \in Games : InLedger(g) =>
           /\ rows[g].status = (IF IsDraw(g) THEN "DRAW" ELSE "FINISHED")
           /\ rows[g].winner = winner[g]
    <3>1. \A g : /\ Written(g).status = IF IsDraw(g) THEN "DRAW" ELSE "FINISHED"
                 /\ Written(g).winner = winner[g]
      BY DEF Written
    <3> QED BY <2>2, <3>1
  <2>4. p # Nobody
    OBVIOUS
  <2>5. {g \in Ended(p) : Outcome(p, g) = "win"} = {g \in mine : winner[g] = p}
    BY <2>1, <2>2, <2>3, <2>4 DEF Ended, Outcome, IsDraw
  <2>6. {g \in Ended(p) : Outcome(p, g) = "draw"} = {g \in mine : IsDraw(g)}
    <3>1. \A g \in Games : Outcome(p, g) = "draw" <=> rows[g].status = "DRAW"
      BY DEF Outcome
    <3>2. \A g \in mine : rows[g].status = "DRAW" <=> IsDraw(g)
      BY <2>1, <2>3
    <3>3. \A g : g \in Ended(p) /\ rows[g].status = "DRAW" => g \in mine
      BY <2>1, <2>2 DEF Ended
    <3>4. \A g \in mine : rows[g].status = "DRAW" => g \in Ended(p)
      BY <2>1 DEF Ended
    <3>5. Ended(p) \subseteq Games /\ mine \subseteq Games
      BY <2>1 DEF Ended
    <3> QED BY <3>1, <3>2, <3>3, <3>4, <3>5
  <2>7. {g \in Ended(p) : Outcome(p, g) = "loss"} = {g \in mine : winner[g] \notin {p, Nobody}}
    BY <2>1, <2>2, <2>3, <2>4 DEF Ended, Outcome, IsDraw
  <2>8. Listed(p) = mine
    BY <2>1, <2>2, <2>3, <2>4 DEF Ended, Listed, IsDraw
  <2> QED BY <2>5, <2>6, <2>7, <2>8 DEF Total, mine
<1> QED BY <1>1, Invariance, PTL

(* As long as no two transactions that overlap in time read one player's   *)
(* rating, the ratings are those of the recorded games one after the       *)
(* other: each transaction writes what the games before it and its own     *)
(* game make, whatever other transactions, failures and restarts come      *)
(* between (repository.py 317-327, 347-357).                               *)
THEOREM Serialisable == Spec => []RatingsAreSerial
<1>1. Inv /\ Serial => RatingsAreSerial
  <2> SUFFICES ASSUME Inv, Serial, ~raced PROVE elo = Replay(ledger)
    BY DEF RatingsAreSerial
  <2>1. PICK f : IsReplay(f, ledger) /\ f[Len(ledger)] = elo
    BY DEF Serial
  <2>2. Len(ledger) \in Nat
    BY DEF Inv, TypeOK
  <2> QED BY <2>1, <2>2, ReplayIs
<1> QED BY <1>1, Invariance, SerialInvariance, PTL

(* The streak a player is shown is the run of equal outcomes that ends     *)
(* with the game finished last, for every order in which the query may     *)
(* return games that finished at one time (repository.py 397-447).         *)
THEOREM StreaksAreExact == Spec => []StreakIsTheLatestRun
<1>1. Inv /\ DistinctStamps => StreakIsTheLatestRun
  BY StreakIsRight DEF StreakIsTheLatestRun
<1> QED BY <1>1, Invariance, StampInvariance, PTL

(* What the statement above speaks of is there: the query has an order to  *)
(* return a player's games in.                                             *)
THEOREM OrdersExist == Spec => [](\A p \in Players : LatestFirst(Ended(p)) # {})
<1>1. TypeOK => \A p \in Players : LatestFirst(Ended(p)) # {}
  BY OrderExists
<1> QED BY <1>1, TypeCorrect, PTL

(* Two transactions never wait for each other's rows, nor do more of them  *)
(* in a circle: while any is open, one that is open can go on, because the *)
(* flush locks rows in the order of their primary keys                     *)
(* (repository.py 327, 357).                                               *)
THEOREM NoDeadlock == Spec => []NobodyWaitsForever
  BY Invariance, AscendInvariance, SomebodyGoes, PTL

(* No transaction goes on for ever: every step of one brings its end       *)
(* nearer, and no other step puts one off.  With NoDeadlock this is all of *)
(* TransactionsEnd but the rule for fairness.                              *)
THEOREM EndsComeNearer == Spec => [][Lowers]_vars
<1>1. Inv /\ [Next]_vars => [Lowers]_vars
  BY RankFalls
<1> QED BY <1>1, Invariance, PTL DEF Spec
=============================================================================
