------------------------------- MODULE GameLoop -------------------------------
(***************************************************************************)
(* The CPPClient's main program (main.cpp): login, the relay thread, the   *)
(* batch thread and the game loop, with the three queues between them.     *)
(*                                                                         *)
(* The session's reader pushes every message into wsUpdatedJsonQueue. The  *)
(* relay moves positions into one queue and everything else into another.  *)
(* Each frame the game's thread handles at most one message of each, reads *)
(* the player's input and draws.                                           *)
(***************************************************************************)
EXTENDS Naturals, Sequences, SequencesExt

CONSTANTS
  Players,   \* the other players the server tells about
  NewsKinds, \* NewsKinds[a]: what the server tells about a in this instance
  MaxNews,   \* bound: MaxNews[a] messages about a
  Colors,    \* Colors[a]: the colors a picks, numbered in that order from 1
  Lines      \* MAX_DISPLAYED_TEXT_MESSAGES

\* An "echo" is a text of the player's own, "junk" has no type, and "bad" has
\* one but not the members that belong to it.
AllNewsKinds == {"pos", "color", "exit", "text", "echo", "time", "junk", "bad"}

ASSUME NewsAssumption == /\ NewsKinds \in [Players -> SUBSET AllNewsKinds]
                         /\ MaxNews \in [Players -> Nat]
                         /\ Colors \in [Players -> SUBSET (Nat \ {0})]
ASSUME LinesAssumption == Lines \in Nat \ {0}

VARIABLES
  game,        \* where the game's thread is
  relay,       \* where relayWorkerThread is
  batch,       \* where relayBatchHandlerThread is
  running,     \* g_gameRunning
  handleBatch, \* g_handleBatch
  wsQ,         \* wsUpdatedJsonQueue
  posQ,        \* positionJsonQueue
  guiQ,        \* guiJsonQueue
  cars,        \* gui_externalplayers; pos and color outlive an erased entry
  texts,       \* gui_textmessagesdisplay
  move,        \* whether the own position is to be sent
  popped,      \* the counter i of the loop that drops positions
  got,         \* the newest that was received of each player
  heard,       \* every message that was received
  routed,      \* the newest position the relay has moved to posQ
  dropped,     \* the newest position of each player that was dropped unseen
  greeted,     \* the shown players that were sent the own position
  missed       \* those that were not, because the session refused to send it

threads == <<game, relay, batch, running, handleBatch>>
queues == <<wsQ, posQ, guiQ>>
screen == <<cars, texts, move, popped>>
history == <<got, heard, routed, dropped, greeted, missed>>
vars == <<threads, queues, screen, history>>

\* MAX_BATCHED_POSITIONS_THRESHOLD
Threshold == 2

\* Positions carry the color, 0 if they cannot be read; n is the number of a
\* position or a text.
Msg(k, a, n, c) == [kind |-> k, who |-> a, n |-> n, color |-> c]
Wake == [kind |-> "empty"]
Own == [kind |-> "own"]

Known == {a \in Players : cars[a].here}

Init ==
  /\ game = "login" /\ relay = "none" /\ batch = "none"
  /\ running = FALSE /\ handleBatch = FALSE
  /\ wsQ = <<>> /\ posQ = <<>> /\ guiQ = <<>>
  /\ cars = [a \in Players |-> [here |-> FALSE, n |-> 0, color |-> 0]]
  /\ texts = <<>>
  /\ move = FALSE /\ popped = 0
  /\ got = [a \in Players |->
              [gone |-> FALSE, n |-> 0, color |-> 0, tint |-> 0, all |-> 0]]
  /\ heard = {}
  /\ routed = Wake
  /\ dropped = [a \in Players |-> 0]
  /\ greeted = {} /\ missed = {}

-----------------------------------------------------------------------------
(***************************************************************************)
(* Starting.                                                               *)
(***************************************************************************)

\* PostRequestPassword. A password in the answer logs in; without an answer, or
\* with a password but another status, the player is told that the login failed.
\* An answer (or an .env file) that is not the expected JSON throws an exception
\* that the handler for std::out_of_range does not catch.
PostRequestPassword ==
  /\ game = "login"
  /\ game' \in {"connect", "over", "aborted"}
  /\ UNCHANGED <<relay, batch, running, handleBatch, queues, screen, history>>

\* WebsocketConn always returns a session, whose reader runs from now on.
WebsocketConn ==
  /\ game = "connect"
  /\ game' = "start"
  /\ UNCHANGED <<relay, batch, running, handleBatch, queues, screen, history>>

\* The blank text lines and the two threads are made.
StartThreads ==
  /\ game = "start"
  /\ game' = "test"
  /\ running' = TRUE
  /\ relay' = "front" /\ batch' = "sleep"
  /\ texts' = [i \in 1..Lines |-> Own]
  /\ UNCHANGED <<handleBatch, queues, cars, move, popped, history>>

-----------------------------------------------------------------------------
(***************************************************************************)
(* The session's reader and the relay.                                     *)
(***************************************************************************)

Frame == {"test", "position", "gui", "input", "draw", "drop"}

HasLeft(a) == \E m \in heard : m.kind = "exit" /\ m.who = a

\* The colors that a message about a can carry. A color change is told before
\* any position that has the new color, unless the session of a refused it; it
\* overtakes the positions that wait there, so one with an older color may
\* follow it.
ColorsOf(a, k) ==
  CASE k = "pos" -> {c \in Colors[a] : c >= got[a].color}
                      \cup (IF "bad" \in NewsKinds[a] THEN {0} ELSE {})
    [] k = "color" -> {c \in Colors[a] : c > got[a].tint /\ c > got[a].color}
    [] OTHER -> {0}

\* onMessage pushes what the server sends, up to the end of closeConnection. A
\* player's exit is told once; what the player had sent before may come after it.
OnMessage(a, k, c) ==
  LET m == Msg(k, a, IF k = "pos" THEN got[a].n + 1 ELSE got[a].n, c) IN
  /\ game \in Frame \cup {"start", "close"}
  /\ k \in NewsKinds[a]
  /\ k = "exit" => ~HasLeft(a)
  /\ c \in ColorsOf(a, k)
  /\ got[a].all < MaxNews[a]
  /\ wsQ' = Append(wsQ, m)
  /\ heard' = heard \cup {m}
  /\ got' = [got EXCEPT ![a] =
               [gone |-> k = "exit" \/ (@.gone /\ k # "pos"),
                n |-> m.n,
                color |-> IF k = "pos" /\ c # 0 THEN c ELSE @.color,
                tint |-> IF k = "color" THEN c ELSE @.tint,
                all |-> @.all + 1]]
  /\ UNCHANGED <<threads, posQ, guiQ, screen, routed, dropped, greeted, missed>>

\* Fault: positions stay with the other messages.
RouteAllToGui ==
  /\ game # "aborted"
  /\ relay = "front"
  /\ wsQ # <<>>
  /\ guiQ' = IF Head(wsQ).kind \in {"empty", "junk"} THEN guiQ
             ELSE Append(guiQ, Head(wsQ))
  /\ relay' = "pop"
  /\ UNCHANGED <<game, batch, running, handleBatch, wsQ, posQ, screen, got,
                 heard, routed, dropped, greeted, missed>>

\* Fault: the newest position is put first.
RouteFirst ==
  LET m == Head(wsQ) IN
  /\ game # "aborted"
  /\ relay = "front"
  /\ wsQ # <<>>
  /\ IF m.kind = "pos" THEN /\ posQ' = <<m>> \o posQ
                            /\ routed' = m
                       ELSE UNCHANGED <<posQ, routed>>
  /\ guiQ' = IF m.kind \in {"pos", "empty", "junk"} THEN guiQ
                                                    ELSE Append(guiQ, m)
  /\ relay' = "pop"
  /\ UNCHANGED <<game, batch, running, handleBatch, wsQ, screen, got,
                 heard, dropped, greeted, missed>>

\* relayWorkerThread copies the message in front to the queue for its type. An
\* empty string and a message without a type go nowhere.
Route ==
  LET m == Head(wsQ) IN
  /\ game # "aborted"
  /\ relay = "front"
  /\ wsQ # <<>>
  /\ IF m.kind = "pos" THEN /\ posQ' = Append(posQ, m)
                            /\ routed' = m
                       ELSE UNCHANGED <<posQ, routed>>
  /\ guiQ' = IF m.kind \in {"pos", "empty", "junk"} THEN guiQ
                                                    ELSE Append(guiQ, m)
  /\ relay' = "pop"
  /\ UNCHANGED <<game, batch, running, handleBatch, wsQ, screen, got,
                 heard, dropped, greeted, missed>>

\* Then it pops it and goes on while the game runs.
PopRouted ==
  /\ game # "aborted"
  /\ relay = "pop"
  /\ wsQ' = Tail(wsQ)
  /\ relay' = IF running THEN "front" ELSE "done"
  /\ UNCHANGED <<game, batch, running, handleBatch, posQ, guiQ, screen,
                 history>>

\* relayBatchHandlerThread has slept its PERIODIC_POSITION_BATCH_HANDLING_MS.
SetHandleBatch ==
  /\ game # "aborted"
  /\ batch = "sleep"
  /\ batch' = "done"
  /\ handleBatch' = TRUE
  /\ UNCHANGED <<game, relay, running, queues, screen, history>>

-----------------------------------------------------------------------------
(***************************************************************************)
(* One frame of the game.                                                  *)
(***************************************************************************)

\* The loop's condition: the window is not being closed and the game runs.
TestLoop ==
  /\ game = "test"
  /\ \/ running /\ game' = "position"
     \/ game' = "close"
  /\ UNCHANGED <<relay, batch, running, handleBatch, queues, screen, history>>

\* Fault: a new player is shown, but is not sent the own position.
ShowPositionOnly(m) ==
  /\ cars' = [cars EXCEPT ![m.who] =
                [here |-> TRUE, n |-> m.n, color |-> m.color]]
  /\ UNCHANGED move

\* Fault: a player that is shown is not updated.
ShowFirstPosition(m) ==
  IF m.who \in Known THEN UNCHANGED <<cars, move>>
  ELSE /\ cars' = [cars EXCEPT ![m.who] =
                     [here |-> TRUE, n |-> m.n, color |-> m.color]]
       /\ move' = TRUE

\* Fault: the color of a player that is shown is left alone.
ShowPositionOldColor(m) ==
  /\ cars' = [cars EXCEPT ![m.who] =
                [here |-> TRUE, n |-> m.n,
                 color |-> IF @.here THEN @.color ELSE m.color]]
  /\ move' = (move \/ m.who \notin Known)

\* A position updates a player, or adds the player, who is then to be sent the
\* own position.
ShowPosition(m) ==
  /\ cars' = [cars EXCEPT ![m.who] =
                [here |-> TRUE, n |-> m.n, color |-> m.color]]
  /\ move' = (move \/ m.who \notin Known)

\* The position in front is shown and popped. One that does not parse is only
\* popped; one without the members it should have ends the program with an
\* exception nobody catches.
HandlePosition ==
  LET m == Head(posQ) IN
  /\ game = "position"
  /\ \/ /\ posQ = <<>>
        /\ game' = "gui"
        /\ UNCHANGED <<posQ, cars, move, dropped>>
     \/ /\ posQ # <<>> /\ m.color # 0
        /\ game' = "gui"
        /\ ShowPosition(m)
        /\ posQ' = Tail(posQ)
        /\ UNCHANGED dropped
     \/ /\ posQ # <<>> /\ m.color = 0
        /\ game' = "gui"
        /\ dropped' = [dropped EXCEPT ![m.who] = m.n]
        /\ posQ' = Tail(posQ)
        /\ UNCHANGED <<cars, move>>
     \/ /\ posQ # <<>> /\ m.color = 0
        /\ game' = "aborted"
        /\ UNCHANGED <<posQ, cars, move, dropped>>
  /\ UNCHANGED <<relay, batch, running, handleBatch, wsQ, guiQ, texts, popped,
                 got, heard, routed, greeted, missed>>

\* A text goes in front and pushes the oldest one out.
Scroll(t) == <<t>> \o SubSeq(texts, 1, Lines - 1)

\* Fault: a message about a player that is not shown stays in front.
GuiWaitsForPlayer ==
  guiQ # <<>> => \/ Len(posQ) > Threshold
                 \/ /\ Head(guiQ).kind \in {"color", "exit"}
                    /\ Head(guiQ).who \notin Known

\* Any other message than a position is handled only while few of those wait.
GuiWaits == guiQ = <<>> \/ Len(posQ) > Threshold

\* Colors and exits of players that are not shown do nothing, nor does a text
\* that comes back. A message that cannot be read does nothing or ends the
\* program, as in HandlePosition.
HandleGui ==
  LET m == Head(guiQ) IN
  /\ game = "gui"
  /\ \/ /\ GuiWaits
        /\ game' = "input"
        /\ UNCHANGED <<guiQ, cars, texts, greeted, missed>>
     \/ /\ ~GuiWaits
        /\ game' = "input"
        /\ guiQ' = Tail(guiQ)
        /\ cars' = [cars EXCEPT ![m.who] =
                      [here |-> @.here /\ m.kind # "exit", n |-> @.n,
                       color |-> IF m.kind = "color" /\ @.here
                                   THEN m.color ELSE @.color]]
        /\ texts' = IF m.kind = "text" THEN Scroll(m) ELSE texts
        /\ greeted' = IF m.kind = "exit" THEN greeted \ {m.who} ELSE greeted
        /\ missed' = IF m.kind = "exit" THEN missed \ {m.who} ELSE missed
     \/ /\ ~GuiWaits /\ m.kind = "bad"
        /\ game' = "aborted"
        /\ UNCHANGED <<guiQ, cars, texts, greeted, missed>>
  /\ UNCHANGED <<relay, batch, running, handleBatch, wsQ, posQ, move, popped,
                 got, heard, routed, dropped>>

\* sendPosition tells the others, unless the session is not connected or has
\* read only a part of a message; the caller does not learn which.
SendPosition ==
  \/ greeted' = Known /\ missed' = {}
  \/ greeted' = greeted /\ missed' = Known \ greeted

\* The player may leave by the ESC button, move the car, and send a text, which
\* is shown at once. A position is sent when the car moved or a player is new,
\* and the flag that asks for it is reset.
Input ==
  /\ game = "input"
  /\ game' = "draw"
  /\ running' \in {running, FALSE}
  /\ \/ SendPosition
     \/ ~move /\ UNCHANGED <<greeted, missed>>
  /\ move' = FALSE
  /\ \/ UNCHANGED texts
     \/ texts' = Scroll(Own)
  /\ UNCHANGED <<relay, batch, handleBatch, queues, cars, popped, got, heard,
                 routed, dropped>>

\* The cars are drawn, then the rest. A frame that finds too many positions goes
\* on to drop some of them instead of drawing the rest.
DrawCars ==
  /\ game = "draw"
  /\ popped' = 0
  /\ game' = IF handleBatch /\ Len(posQ) > Threshold THEN "drop" ELSE "test"
  /\ UNCHANGED <<relay, batch, running, handleBatch, queues, cars, texts, move,
                 history>>

\* Fault: the loop that drops positions counts to the size inclusively.
DropAll ==
  /\ game = "drop"
  /\ IF posQ # <<>>
     THEN /\ dropped' = [dropped EXCEPT ![Head(posQ).who] = Head(posQ).n]
          /\ posQ' = Tail(posQ)
          /\ UNCHANGED <<game, handleBatch>>
     ELSE /\ handleBatch' = FALSE
          /\ game' = "test"
          /\ UNCHANGED <<posQ, dropped>>
  /\ UNCHANGED <<relay, batch, running, wsQ, guiQ, screen, got, heard, routed,
                 greeted, missed>>

\* One round of that loop: the size is read again each time. When it ends, the
\* next frame begins.
Drop ==
  /\ game = "drop"
  /\ IF popped + 1 < Len(posQ)
     THEN /\ popped' = popped + 1
          /\ dropped' = [dropped EXCEPT ![Head(posQ).who] = Head(posQ).n]
          /\ posQ' = Tail(posQ)
          /\ UNCHANGED <<game, handleBatch>>
     ELSE /\ handleBatch' = FALSE
          /\ game' = "test"
          /\ UNCHANGED <<posQ, popped, dropped>>
  /\ UNCHANGED <<relay, batch, running, wsQ, guiQ, cars, texts, move,
                 got, heard, routed, greeted, missed>>

-----------------------------------------------------------------------------
(***************************************************************************)
(* Leaving.                                                                *)
(***************************************************************************)

\* closeConnection has returned: no message arrives any more.
CloseSession ==
  /\ game = "close"
  /\ game' = "wake"
  /\ running' = FALSE
  /\ UNCHANGED <<relay, batch, handleBatch, queues, screen, history>>

\* Fault: the relay is not woken.
JoinAsleep ==
  /\ game = "wake"
  /\ game' = "join"
  /\ UNCHANGED <<relay, batch, running, handleBatch, queues, screen, history>>

\* An empty string gets the relay out of front().
WakeRelay ==
  /\ game = "wake"
  /\ game' = "join"
  /\ wsQ' = Append(wsQ, Wake)
  /\ UNCHANGED <<relay, batch, running, handleBatch, posQ, guiQ, screen,
                 history>>

\* Both threads have ended; the window is closed.
JoinThreads ==
  /\ game = "join"
  /\ relay = "done" /\ batch = "done"
  /\ game' = "over"
  /\ UNCHANGED <<relay, batch, running, handleBatch, queues, screen, history>>

-----------------------------------------------------------------------------
GameStep ==
  \/ PostRequestPassword \/ WebsocketConn \/ StartThreads
  \/ TestLoop \/ HandlePosition \/ HandleGui \/ Input
  \/ DrawCars \/ Drop
  \/ CloseSession \/ WakeRelay \/ JoinThreads

RelayStep == Route \/ PopRouted

Next ==
  \/ GameStep
  \/ RelayStep
  \/ SetHandleBatch
  \/ \E a \in Players, k \in AllNewsKinds :
       \E c \in Colors[a] \cup {0} : OnMessage(a, k, c)

Spec == Init /\ [][Next]_vars

\* Each of the three threads goes on while it can; none of them waits for a
\* lock that another one keeps.
Fairness == WF_vars(GameStep) /\ WF_vars(RelayStep) /\ WF_vars(SetHandleBatch)

LiveSpec == Spec /\ Fairness

-----------------------------------------------------------------------------
(***************************************************************************)
(* Properties.                                                             *)
(***************************************************************************)

News == [kind : AllNewsKinds, who : Players, n : Nat, color : Nat]

TypeOK ==
  /\ game \in Frame \cup {"login", "connect", "start", "close", "wake", "join",
                          "over", "aborted"}
  /\ relay \in {"none", "front", "pop", "done"}
  /\ batch \in {"none", "sleep", "done"}
  /\ running \in BOOLEAN /\ handleBatch \in BOOLEAN
  /\ wsQ \in Seq(News \cup {Wake}) /\ posQ \in Seq(News) /\ guiQ \in Seq(News)
  /\ cars \in [Players -> [here : BOOLEAN, n : Nat, color : Nat]]
  /\ texts \in Seq(News \cup [kind : {"own"}])
  /\ move \in BOOLEAN /\ popped \in Nat
  /\ got \in [Players -> [gone : BOOLEAN, n : Nat, color : Nat, tint : Nat,
                          all : Nat]]
  /\ heard \subseteq News
  /\ routed \in News \cup {Wake}
  /\ dropped \in [Players -> Nat]
  /\ greeted \subseteq Players /\ missed \subseteq Players

\* Nothing is on its way through the queues.
AtRest == wsQ = <<>> /\ posQ = <<>> /\ guiQ = <<>>

\* The newest position of all is never among those that are dropped: when no
\* position waits, it has been shown, if it could be read.
NewestShown ==
  (posQ = <<>> /\ routed # Wake) =>
    cars[routed.who].n = routed.n \/ routed.color = 0

\* Only the batch loses positions: a player whose last position was received
\* and is not waiting is shown there, unless exactly that one was dropped or
\* could not be read.
ShownAtRest ==
  (wsQ = <<>> /\ posQ = <<>>) =>
    \A a \in Players : cars[a].n = got[a].n \/ dropped[a] = got[a].n

\* Colors and positions come through different queues and in any order: once a
\* player has moved after its last color change, it is shown in that color, and
\* no color from before comes back. (Until it moves, a position from before the
\* change may come after it and win.)
ColorSettles ==
  AtRest => \A a \in Players :
              (/\ cars[a].here /\ cars[a].n = got[a].n
               /\ got[a].color = got[a].tint)
                => cars[a].color = got[a].tint

\* The flag that asks for the own position is not lost between two branches:
\* when a frame is drawn, every player on the screen was sent the own position
\* since it appeared, or the session has refused to send it to that player.
NewcomersGreeted ==
  game \in {"draw", "drop", "test"} => Known \subseteq greeted \cup missed

\* A player whose exit came after its last position is not shown once everything
\* is handled.
GhostFree ==
  AtRest => \A a \in Players : got[a].gone => ~cars[a].here

\* Once the game waits for its threads, none of them can sleep forever: the game
\* no longer runs, and the relay has a message to get it out of front().
JoinsAwake ==
  game = "join" => /\ ~running /\ relay # "none" /\ batch # "none"
                   /\ relay = "front" => wsQ # <<>>

Left == ~running \/ game = "aborted"

\* A position was received that is not yet shown, dropped or overtaken.
Unseen == \E a \in Players : cars[a].n < got[a].n /\ dropped[a] < got[a].n

\* Once the others stop moving, every position is shown or overtaken by a later
\* one, unless it is dropped or cannot be read, or the game ends.
PositionsShown == Unseen ~> (~Unseen \/ Left)

\* And every other message is handled, the ones that had to wait for the
\* positions included.
GuiServed == guiQ # <<>> ~> (guiQ = <<>> \/ Left)

\* Leaving the game ends, with both threads joined.
LeaveEnds == game = "close" ~> game = "over"
=============================================================================
