----------------------------- MODULE GameScreen -----------------------------
(***************************************************************************)
(* One game as its two browsers show it (static/app.js): the board comes   *)
(* by the broadcasts of the move handlers (app/websocket.py) and by GET    *)
(* /games/{id} (app/routes/games.py), which a page sends when it enters    *)
(* the game and when it reconnects.  Connections break and are opened      *)
(* again, players leave and come back, the server restarts.                *)
(*                                                                         *)
(* The position is abstracted to its number of pieces, which decides the   *)
(* turn; a game is over after GameLength moves.  A handler's way from the  *)
(* lock to the save is one action: module MovePath shows that it may be.   *)
(***************************************************************************)
EXTENDS Integers, Sequences, FiniteSets

CONSTANTS
    Sockets,      \* the connections; one is used again when both ends are done
    Owner,        \* the player (1 or 2) whose page opens a connection
    GameLength,   \* moves until a game is over
    MaxAttempts,  \* MAX_RECONNECT_ATTEMPTS
    Earlier,      \* each page's reconnect attempts in the games before this one
    MaxClicks,    \* bound on the clicks of each page that send a move
    MaxMishaps,   \* bound on clicks beyond those, players who leave, connections
                  \* that break, requests that fail and restarts, all together
    NoSocket      \* null

ASSUME GameScreenAssumption ==
    /\ Owner \in [Sockets -> {1, 2}]
    /\ GameLength \in Nat \ {0}
    /\ MaxAttempts \in Nat /\ MaxMishaps \in Nat
    /\ Earlier \in [{1, 2} -> 0 .. MaxAttempts]
    /\ MaxClicks \in [{1, 2} -> Nat]
    /\ NoSocket \notin Sockets

VARIABLES
    board,     \* Redis game:{game_id}: its number of pieces
    serve,     \* the server's end of a connection: the await its handler is at
    job,       \* the board the handler has saved
    todo,      \* the connections its broadcast has still to be sent to
    link,      \* the browser's end of a connection
    inbox,     \* the number of moves on their way to the server
    mail,      \* the boards on their way to the browser
    ws,        \* state.ws of each page; null while the page is in the lobby
    shown,     \* state.board, and with it state.currentTurn
    over,      \* state.gameOver
    attempts,  \* state.wsReconnectAttempts
    timers,    \* the closed connections whose reconnect timer is set
    asked,     \* requests GET /games/{id} that are not answered yet
    answers,   \* boards in answers on their way
    behind,    \* the pages that may have missed the board in Redis (history)
    clicks, mishaps

server   == <<board, serve, job, todo>>
network  == <<link, inbox, mail>>
page     == <<ws, shown, over, attempts, timers>>
requests == <<asked, answers>>
counters == <<clicks, mishaps>>
vars     == <<server, network, page, requests, behind, counters>>

Players == {1, 2}
Boards  == 0 .. GameLength

TypeOK ==
    /\ board \in Boards
    /\ serve \in [Sockets -> {"closed", "receive", "record", "send"}]
    /\ job \in [Sockets -> Boards]
    /\ todo \in [Sockets -> SUBSET Sockets]
    /\ link \in [Sockets -> {"free", "opening", "open", "broken", "closing"}]
    /\ inbox \in [Sockets -> Nat]
    /\ mail \in [Sockets -> Seq(1 .. GameLength)]
    /\ ws \in [Players -> Sockets \cup {NoSocket}]
    /\ \A p \in Players : ws[p] # NoSocket => Owner[ws[p]] = p
    /\ shown \in [Players -> Boards]
    /\ over \in [Players -> BOOLEAN]
    /\ attempts \in [Players -> 0 .. MaxAttempts]
    /\ timers \subseteq {s \in Sockets : link[s] = "free"}
    /\ asked \in [Players -> Nat]
    /\ answers \in [Players -> SUBSET Boards]
    /\ behind \subseteq Players
    /\ clicks \in [Players -> Nat]
    /\ mishaps \in 0 .. MaxMishaps

Init ==
    /\ board = 0
    /\ serve = [s \in Sockets |-> "closed"]
    /\ job = [s \in Sockets |-> 0]
    /\ todo = [s \in Sockets |-> {}]
    /\ link = [s \in Sockets |-> "free"]
    /\ inbox = [s \in Sockets |-> 0]
    /\ mail = [s \in Sockets |-> <<>>]
    /\ ws = [p \in Players |-> NoSocket]
    /\ shown = [p \in Players |-> 0]
    /\ over = [p \in Players |-> FALSE]
    /\ attempts = Earlier
    /\ timers = {}
    /\ asked = [p \in Players |-> 0]
    /\ answers = [p \in Players |-> {}]
    /\ behind = {}
    /\ clicks = [p \in Players |-> 0]
    /\ mishaps = 0

Mishap == mishaps < MaxMishaps /\ mishaps' = mishaps + 1

Turn(pieces) == 1 + (pieces % 2)

Playing(p) == ws[p] # NoSocket
Live(p)    == Playing(p) /\ link[ws[p]] = "open"

-----------------------------------------------------------------------------
(* The page                                                                *)

Hangs(p) == IF Playing(p) /\ link[ws[p]] \in {"opening", "open", "broken"}
            THEN {ws[p]} ELSE {}

Spare(p, timed) ==
    {s \in Sockets \ timed : /\ Owner[s] = p /\ link[s] = "free" /\ serve[s] = "closed"
                            /\ \A t \in Sockets : s \notin todo[t]}

(* connectWebSocket, while the timers of the connections in timed are set: *)
(* the old connection is closed, a new one opened.  Its name does not      *)
(* matter.                                                                 *)
ConnectWebSocket(p, timed) ==
    /\ Spare(p, timed) # {}
    /\ ws' = [ws EXCEPT ![p] = CHOOSE s \in Spare(p, timed) : TRUE]
    /\ link' = [s \in Sockets |-> IF s = ws'[p] THEN "opening"
                                  ELSE IF s \in Hangs(p) THEN "closing" ELSE link[s]]

(* restoreGameState sends its request.                                     *)
RestoreGameState(p) == asked' = [asked EXCEPT ![p] = @ + 1]

(* startGame, from the lobby.  The reconnect counter is not reset.         *)
StartGame(p) ==
    /\ ~Playing(p)
    /\ ConnectWebSocket(p, timers)
    /\ RestoreGameState(p)
    /\ shown' = [shown EXCEPT ![p] = 0]
    /\ over' = [over EXCEPT ![p] = FALSE]
    /\ behind' = behind \ {p}
    /\ UNCHANGED <<server, inbox, mail, attempts, timers, answers, counters>>

(* The Leave button.                                                       *)
Leave(p) ==
    /\ Playing(p) /\ Mishap
    /\ link' = [t \in Sockets |-> IF t \in Hangs(p) THEN "closing" ELSE link[t]]
    /\ ws' = [ws EXCEPT ![p] = NoSocket]
    /\ over' = [over EXCEPT ![p] = FALSE]
    /\ UNCHANGED <<server, inbox, mail, shown, attempts, timers, requests, behind, clicks>>

(* handleCellClick.  Nothing remembers the click: until a board comes the  *)
(* same page may click again.                                              *)
Click(p) ==
    /\ Live(p) /\ ~over[p] /\ Turn(shown[p]) = p
    /\ IF clicks[p] < MaxClicks[p] THEN UNCHANGED mishaps ELSE Mishap
    /\ inbox' = [inbox EXCEPT ![ws[p]] = @ + 1]
    /\ clicks' = [clicks EXCEPT ![p] = @ + 1]
    /\ UNCHANGED <<server, link, mail, page, requests, behind>>

(* A page is left behind by an older board after a newer one, until it     *)
(* shows the board in Redis.                                               *)
Show(p, pieces) ==
    /\ behind' = IF pieces = board THEN behind \ {p}
                 ELSE IF pieces < shown[p] THEN behind \cup {p} ELSE behind
    /\ shown' = [shown EXCEPT ![p] = pieces]
    /\ over' = [over EXCEPT ![p] = @ \/ pieces = GameLength]

(* The message handler shows the board of a broadcast and resets the       *)
(* reconnect counter.                                                      *)
Message(s) ==
    LET p == Owner[s]
    IN  /\ link[s] \in {"open", "broken"} /\ mail[s] # <<>>
        /\ Show(p, Head(mail[s]))
        /\ mail' = [mail EXCEPT ![s] = Tail(@)]
        /\ attempts' = [attempts EXCEPT ![p] = 0]
        /\ UNCHANGED <<server, link, inbox, ws, timers, requests, counters>>

(* restoreGameState takes its answer, whatever has been shown since it     *)
(* asked.                                                                  *)
TakeAnswer(p) ==
    /\ \E pieces \in answers[p] :
          /\ Show(p, pieces)
          /\ answers' = [answers EXCEPT ![p] = @ \ {pieces}]
    /\ UNCHANGED <<server, network, ws, attempts, timers, asked, counters>>

(* Fault: the page never gives up.                                         *)
RetriesForever(p) == ~over[p]

Retries(p) == ~over[p] /\ attempts[p] < MaxAttempts

(* The close handler.  What was still on its way to the page is lost.      *)
Close(s) ==
    LET p == Owner[s]
    IN  /\ link[s] \in {"broken", "closing"}
        /\ link' = [link EXCEPT ![s] = "free"]
        /\ mail' = [mail EXCEPT ![s] = <<>>]
        /\ IF Retries(p)
           THEN /\ attempts' = [attempts EXCEPT ![p] = @ + 1]
                /\ timers' = timers \cup {s}
           ELSE UNCHANGED <<attempts, timers>>
        /\ UNCHANGED <<server, inbox, ws, shown, over, requests, behind, counters>>

(* Faults: the timer does not look at the connection it was set for; it    *)
(* reconnects and fetches nothing.                                         *)
AnyTimer(s)    == ~over[Owner[s]] /\ Playing(Owner[s])
ForgetBoard(p) == UNCHANGED asked

StillWanted(s) == ~over[Owner[s]] /\ ws[Owner[s]] = s
FetchBoard(p)  == RestoreGameState(p)

(* The reconnect timer.                                                    *)
Reconnect(s) ==
    /\ s \in timers
    /\ timers' = timers \ {s}
    /\ IF StillWanted(s)
       THEN /\ ConnectWebSocket(Owner[s], timers') /\ FetchBoard(Owner[s])
            /\ behind' = behind \ {Owner[s]}
       ELSE UNCHANGED <<link, ws, asked, behind>>
    /\ UNCHANGED <<server, inbox, mail, shown, over, attempts, answers, counters>>

-----------------------------------------------------------------------------
(* The server                                                              *)

Room == {s \in Sockets : serve[s] # "closed"}

(* connect accepts the connection and appends it to the room.              *)
Accept(s) ==
    /\ link[s] = "opening"
    /\ link' = [link EXCEPT ![s] = "open"]
    /\ serve' = [serve EXCEPT ![s] = "receive"]
    /\ UNCHANGED <<board, job, todo, inbox, mail, page, requests, behind, counters>>

(* The receive loop takes the next message, a move that is carried out ... *)
SaveMove(s) ==
    /\ serve[s] = "receive" /\ inbox[s] > 0
    /\ board < GameLength /\ Turn(board) = Owner[s]
    /\ inbox' = [inbox EXCEPT ![s] = @ - 1]
    /\ board' = board + 1
    /\ job' = [job EXCEPT ![s] = board']
    /\ serve' = [serve EXCEPT ![s] = "record"]
    /\ UNCHANGED <<todo, link, mail, page, requests, behind, counters>>

(* ... or one that is answered with an error.  A move that fails for       *)
(* another reason, a full column or a lock that is held, is like one that  *)
(* was not made.                                                           *)
Refuse(s) ==
    /\ serve[s] = "receive" /\ inbox[s] > 0
    /\ board = GameLength \/ Turn(board) # Owner[s]
    /\ inbox' = [inbox EXCEPT ![s] = @ - 1]
    /\ UNCHANGED <<server, link, mail, page, requests, behind, counters>>

Busy(s) == serve[s] \in {"record", "send"}

(* Fault: a move is not sent back to the player who made it.               *)
OpponentsOf(s) == {t \in Room : Owner[t] # Owner[s]}

Audience(s) == Room

(* What the handler of s has still to send to; it then receives again.     *)
Remaining(s, rest) ==
    /\ todo' = [todo EXCEPT ![s] = rest]
    /\ serve' = [serve EXCEPT ![s] = IF rest = {} THEN "receive" ELSE "send"]
    /\ job' = IF rest = {} THEN [job EXCEPT ![s] = 0] ELSE job

(* A page whose connection is not in the room yet, and whose request was   *)
(* answered before the board was saved.                                    *)
Misses(p, pieces) ==
    /\ Playing(p) /\ link[ws[p]] = "opening" /\ asked[p] = 0
    /\ \A known \in answers[p] \cup {shown[p]} : known < pieces

(* After the transaction and the log entry the broadcast takes its copy of *)
(* the room.                                                               *)
Broadcast(s) ==
    /\ serve[s] = "record"
    /\ Remaining(s, Audience(s))
    /\ behind' = behind \cup {p \in Players : Misses(p, job[s])}
    /\ UNCHANGED <<board, network, page, requests, counters>>

(* One send.  It reaches nobody if the connection is not open; that such a *)
(* connection is pruned is module Room's.                                  *)
SendTo(s, t) ==
    /\ serve[s] = "send" /\ t \in todo[s]
    /\ Remaining(s, todo[s] \ {t})
    /\ mail' = IF link[t] = "open" THEN [mail EXCEPT ![t] = Append(@, job[s])] ELSE mail
    /\ UNCHANGED <<board, link, inbox, page, requests, behind, counters>>

(* WebSocketDisconnect comes after the messages that were received.        *)
HangUp(s) ==
    /\ serve[s] = "receive" /\ inbox[s] = 0 /\ link[s] \notin {"opening", "open"}
    /\ serve' = [serve EXCEPT ![s] = "closed"]
    /\ UNCHANGED <<board, job, todo, network, page, requests, behind, counters>>

(* get_game reads the board.                                               *)
Answer(p) ==
    /\ asked[p] > 0
    /\ asked' = [asked EXCEPT ![p] = @ - 1]
    /\ answers' = [answers EXCEPT ![p] = @ \cup {board}]
    /\ UNCHANGED <<server, network, page, behind, counters>>

-----------------------------------------------------------------------------
(* A connection breaks, or cannot be opened.                               *)
Break(s) ==
    /\ link[s] \in {"opening", "open"}
    /\ Mishap
    /\ link' = [link EXCEPT ![s] = "broken"]
    /\ UNCHANGED <<server, inbox, mail, page, requests, behind, clicks>>

(* A request fails by itself, which the page takes for a game without a    *)
(* board.  It asks no more.                                                *)
LoseAnswer(p) ==
    /\ asked[p] > 0
    /\ Mishap
    /\ asked' = [asked EXCEPT ![p] = @ - 1]
    /\ behind' = IF asked'[p] = 0 THEN behind \cup {p} ELSE behind
    /\ UNCHANGED <<server, network, page, answers, clicks>>

(* The process ends with its connections, handlers and requests.           *)
Restart ==
    /\ Mishap
    /\ serve' = [s \in Sockets |-> "closed"]
    /\ job' = [s \in Sockets |-> 0]
    /\ todo' = [s \in Sockets |-> {}]
    /\ inbox' = [s \in Sockets |-> 0]
    /\ link' = [s \in Sockets |-> IF link[s] \in {"opening", "open"} THEN "broken" ELSE link[s]]
    /\ asked' = [p \in Players |-> 0]
    /\ UNCHANGED <<board, mail, page, answers, behind, clicks>>

SocketStep(s) ==
    \/ Message(s) \/ Close(s) \/ Reconnect(s) \/ Accept(s) \/ SaveMove(s) \/ Refuse(s)
    \/ Broadcast(s) \/ (\E t \in Sockets : SendTo(s, t)) \/ HangUp(s)

PageStep(p) == Answer(p) \/ TakeAnswer(p)

Step == (\E s \in Sockets : SocketStep(s)) \/ (\E p \in Players : PageStep(p))

Next ==
    \/ Step
    \/ \E p \in Players : StartGame(p) \/ Leave(p) \/ Click(p) \/ LoseAnswer(p)
    \/ (\E s \in Sockets : Break(s)) \/ Restart

Spec == Init /\ [][Next]_vars

(* The event loops, the timers and the network go on as long as they have  *)
(* anything to do; it is little, because a page sends no more than its     *)
(* player clicks.  Nothing makes a player enter, click or leave.           *)
FairSpec == Spec /\ WF_vars(Step)
-----------------------------------------------------------------------------
GaveUp(p) == Playing(p) /\ ~over[p] /\ link[ws[p]] = "free" /\ ws[p] \notin timers

(* Nothing that would change the page is under way.                        *)
Settled(p) ==
    /\ Live(p) /\ mail[ws[p]] = <<>> /\ asked[p] = 0 /\ answers[p] = {}
    /\ \A s \in Sockets : ~Busy(s)

(* "the piece should appear on both players' boards", and "P2 should see   *)
(* 'Your turn'" (tests/e2e/test_gameplay.py 93, 109): when both players    *)
(* are connected and have nothing more to hear, one of the two pages lets  *)
(* its player move.  The code does not see to it (run stale_screen).       *)
SomebodyMayMove ==
    (\A p \in Players : Settled(p)) /\ board < GameLength
        => \E p \in Players : ~over[p] /\ Turn(shown[p]) = p

(* Whatever broke, a connected page that has nothing more to hear shows    *)
(* the board in Redis, but for three ways to miss it until the page asks   *)
(* again or hears of the next move: an older board is shown after a newer  *)
(* one (Show), the request is answered too early and the connection is in  *)
(* the room too late (Broadcast), or the request fails (LoseAnswer).       *)
SettledPagesAgree == \A p \in Players : Settled(p) /\ p \notin behind => shown[p] = board

(* The timers that closed connections leave behind (app.js 1216-1221)      *)
(* never close the connection a page plays on: only its player leaves it.  *)
KeepsItsConnection ==
    [][\A p \in Players : Live(p) /\ Playing(p)' => ws'[p] = ws[p]]_vars

(* A page in the game comes to show the board in Redis, through broken     *)
(* connections and restarts, unless it misses it in one of the three ways  *)
(* above, gives up (app.js 664-680, 1199-1226) or its player leaves.       *)
CatchesUp ==
    \A p \in Players :
        Playing(p) ~> shown[p] = board \/ p \in behind \/ GaveUp(p) \/ ~Playing(p)
=============================================================================
