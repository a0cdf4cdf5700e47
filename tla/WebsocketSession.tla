-------------------------- MODULE WebsocketSession --------------------------
(***************************************************************************)
(* The CPPClient's connection to the server (websocketSession.cpp) and the *)
(* calls that the game loop of main.cpp makes of it.                       *)
(*                                                                         *)
(* Three threads share a session: the game's own thread, which queues the  *)
(* car's positions, writes colors and texts itself, and closes the session *)
(* in the end; workerRead, which connects, starts workerWrite and reads;   *)
(* and workerWrite, which writes the queued positions.                     *)
(***************************************************************************)
EXTENDS Naturals, Sequences

CONSTANTS
  MaxMoves,    \* bound: positions the car takes
  MaxColors,   \* bound: colors the player picks
  MaxTexts     \* bound: texts the player sends

ASSUME BoundAssumption == /\ MaxMoves \in Nat /\ MaxColors \in Nat
                          /\ MaxTexts \in Nat

VARIABLES
  connected,  \* m_isConnected
  queue,      \* asyncWriteQueue
  threads,    \* the workers in m_threadList
  game,       \* where the game's thread is
  reader,     \* where workerRead is
  writer,     \* where workerWrite is
  joining,    \* the workers that closeConnection has yet to join
  leftAt,     \* history: where workerRead was when the player left
  direct,     \* the frame that the game's thread is writing itself
  partial,    \* whether a message has been read in part (~is_message_done)
  link,       \* the connection to the server
  car,        \* how often the car has moved: its position
  color,      \* how often the color was changed: m_currColor
  texts,      \* how many texts were sent
  queued,     \* the last position that was queued
  shown       \* the position and color that the frames written so far carry

vars == <<connected, queue, threads, game, reader, writer, joining, leftAt,
          direct, partial, link, car, color, texts, queued, shown>>

Frame(k, p, c) == [kind |-> k, pos |-> p, color |-> c]
NoFrame == Frame("none", 0, 0)
Empty == Frame("empty", 0, 0)

Init ==
  /\ connected = FALSE
  /\ queue = <<>>
  /\ threads = {"read"}
  /\ game = "play"
  /\ reader = "connect"
  /\ writer = "none"
  /\ joining = {}
  /\ leftAt = "none"
  /\ direct = NoFrame
  /\ partial = FALSE
  /\ link = "none"
  /\ car = 0
  /\ color = 0
  /\ texts = 0
  /\ queued = 0
  /\ shown = [pos |-> 0, color |-> 0]

-----------------------------------------------------------------------------
(***************************************************************************)
(* The game's thread: moving, coloring and texting. What is sent while the *)
(* session is not connected, or a message is being read, is dropped.       *)
(***************************************************************************)

CanSend == connected /\ ~partial

\* What the peers show once f is written: a position carries a color as well.
Shown(f) == CASE f.kind = "pos"   -> [pos |-> f.pos, color |-> f.color]
              [] f.kind = "color" -> [shown EXCEPT !.color = f.color]
              [] OTHER            -> shown

\* Fault: the newest position is put first.
SendPositionFirst ==
  /\ game = "play"
  /\ car < MaxMoves
  /\ car' = car + 1
  /\ IF CanSend THEN /\ queue' = <<Frame("pos", car + 1, color)>> \o queue
                     /\ queued' = car + 1
                ELSE UNCHANGED <<queue, queued>>
  /\ UNCHANGED <<connected, threads, game, reader, writer, joining, leftAt,
                 direct, partial, link, color, texts, shown>>

\* The car moves and its position is queued.
SendPosition ==
  /\ game = "play"
  /\ car < MaxMoves
  /\ car' = car + 1
  /\ IF CanSend THEN /\ queue' = Append(queue, Frame("pos", car + 1, color))
                     /\ queued' = car + 1
                ELSE UNCHANGED <<queue, queued>>
  /\ UNCHANGED <<connected, threads, game, reader, writer, joining, leftAt,
                 direct, partial, link, color, texts, shown>>

\* The color changes, and the game's thread starts to write it.
SendColorUpdate ==
  /\ game = "play"
  /\ color < MaxColors
  /\ color' = color + 1
  /\ IF CanSend THEN /\ game' = "write"
                     /\ direct' = Frame("color", 0, color + 1)
                ELSE UNCHANGED <<game, direct>>
  /\ UNCHANGED <<connected, queue, threads, reader, writer, joining, leftAt,
                 partial, link, car, texts, queued, shown>>

\* The game's thread starts to write a text.
SendTextMessage ==
  /\ game = "play"
  /\ texts < MaxTexts
  /\ texts' = texts + 1
  /\ IF CanSend THEN /\ game' = "write"
                     /\ direct' = Frame("text", 0, color)
                ELSE UNCHANGED <<game, direct>>
  /\ UNCHANGED <<connected, queue, threads, reader, writer, joining, leftAt,
                 partial, link, car, color, queued, shown>>

\* That write returns; an error is only reported.
DirectWritten ==
  /\ game = "write"
  /\ game' = "play"
  /\ direct' = NoFrame
  /\ shown' = IF link = "up" THEN Shown(direct) ELSE shown
  /\ UNCHANGED <<connected, queue, threads, reader, writer, joining, leftAt,
                 partial, link, car, color, texts, queued>>

-----------------------------------------------------------------------------
(***************************************************************************)
(* The game's thread: closeConnection.                                     *)
(***************************************************************************)

\* The player leaves the game, wherever workerRead is: the workers are told to
\* stop.
CloseConnection ==
  /\ game = "play"
  /\ connected' = FALSE
  /\ game' = "push"
  /\ leftAt' = reader
  /\ UNCHANGED <<queue, threads, reader, writer, joining, direct, partial,
                 link, car, color, texts, queued, shown>>

\* Fault: nothing is pushed to wake workerWrite.
JoinAtOnce ==
  /\ game = "push"
  /\ joining' = threads
  /\ game' = "join"
  /\ UNCHANGED <<connected, queue, threads, reader, writer, leftAt, direct,
                 partial, link, car, color, texts, queued, shown>>

\* Fault: only the thread that connectWebSocket started is joined.
JoinReaderOnly ==
  /\ game = "push"
  /\ queue' = Append(queue, Empty)
  /\ joining' = {"read"}
  /\ game' = "join"
  /\ UNCHANGED <<connected, threads, reader, writer, leftAt, direct, partial,
                 link, car, color, texts, queued, shown>>

\* An empty string gets workerWrite out of front(); the loop over the threads
\* that are in the list now begins.
PushEmpty ==
  /\ game = "push"
  /\ queue' = Append(queue, Empty)
  /\ joining' = threads
  /\ game' = "join"
  /\ UNCHANGED <<connected, threads, reader, writer, leftAt, direct, partial,
                 link, car, color, texts, queued, shown>>

\* join() returns once the worker has ended; workerRead is first in the list.
Join ==
  /\ game = "join"
  /\ \/ /\ "read" \in joining /\ reader = "done"
        /\ joining' = joining \ {"read"}
     \/ /\ joining = {"write"} /\ writer = "done"
        /\ joining' = {}
  /\ UNCHANGED <<connected, queue, threads, game, reader, writer, leftAt,
                 direct, partial, link, car, color, texts, queued, shown>>

\* All are joined: the socket is cancelled and closed.
Close ==
  /\ game = "join"
  /\ joining = {}
  /\ game' = "closed"
  /\ link' = "down"
  /\ UNCHANGED <<connected, queue, threads, reader, writer, joining, leftAt,
                 direct, partial, car, color, texts, queued, shown>>

-----------------------------------------------------------------------------
(***************************************************************************)
(* workerRead.                                                             *)
(***************************************************************************)

\* The connection and both handshakes succeed, or an exception ends the thread.
Connect ==
  /\ reader = "connect"
  /\ \/ reader' = "flag" /\ link' = "up"
     \/ reader' = "done" /\ UNCHANGED link
  /\ UNCHANGED <<connected, queue, threads, game, writer, joining, leftAt,
                 direct, partial, car, color, texts, queued, shown>>

SetConnected ==
  /\ reader = "flag"
  /\ connected' = TRUE
  /\ reader' = "spawn"
  /\ UNCHANGED <<queue, threads, game, writer, joining, leftAt, direct,
                 partial, link, car, color, texts, queued, shown>>

\* workerWrite is started and appended to the list of threads.
StartWriter ==
  /\ reader = "spawn"
  /\ threads' = threads \cup {"write"}
  /\ writer' = "front"
  /\ reader' = "read"
  /\ UNCHANGED <<connected, queue, game, joining, leftAt, direct, partial,
                 link, car, color, texts, queued, shown>>

\* The first part of a message arrives.
ReadPart ==
  /\ reader = "read"
  /\ link = "up"
  /\ ~partial
  /\ partial' = TRUE
  /\ UNCHANGED <<connected, queue, threads, game, reader, writer, joining,
                 leftAt, direct, link, car, color, texts, queued, shown>>

NextRead == reader' = IF connected THEN "read" ELSE "done"

\* The rest of the message arrives and is handed to the callback.
ReadRest ==
  /\ reader = "read"
  /\ link = "up"
  /\ partial
  /\ partial' = FALSE
  /\ NextRead
  /\ UNCHANGED <<connected, queue, threads, game, writer, joining, leftAt,
                 direct, link, car, color, texts, queued, shown>>

\* On a broken connection every read fails at once: the loop goes round until
\* the session is told to stop.
ReadFails ==
  /\ reader = "read"
  /\ link # "up"
  /\ NextRead
  /\ UNCHANGED <<connected, queue, threads, game, writer, joining, leftAt,
                 direct, partial, link, car, color, texts, queued, shown>>

-----------------------------------------------------------------------------
(***************************************************************************)
(* workerWrite.                                                            *)
(***************************************************************************)

\* front() returns as soon as something is queued.
Front ==
  /\ writer = "front"
  /\ queue # <<>>
  /\ writer' = "write"
  /\ UNCHANGED <<connected, queue, threads, game, reader, joining, leftAt,
                 direct, partial, link, car, color, texts, queued, shown>>

\* The frame in front is written; an error is only reported.
WriteFrame ==
  /\ writer = "write"
  /\ writer' = "pop"
  /\ shown' = IF link = "up" THEN Shown(Head(queue)) ELSE shown
  /\ UNCHANGED <<connected, queue, threads, game, reader, joining, leftAt,
                 direct, partial, link, car, color, texts, queued>>

\* Fault: after a pop the thread ends.
PopOnce ==
  /\ writer = "pop"
  /\ queue' = Tail(queue)
  /\ writer' = "done"
  /\ UNCHANGED <<connected, threads, game, reader, joining, leftAt, direct,
                 partial, link, car, color, texts, queued, shown>>

\* Fault: the queue is emptied, as if one frame stood for all that wait.
PopAll ==
  /\ writer = "pop"
  /\ queue' = <<>>
  /\ writer' = IF connected THEN "front" ELSE "done"
  /\ UNCHANGED <<connected, threads, game, reader, joining, leftAt, direct,
                 partial, link, car, color, texts, queued, shown>>

\* The frame is popped; the loop goes on while the session is connected.
Pop ==
  /\ writer = "pop"
  /\ queue' = Tail(queue)
  /\ writer' = IF connected THEN "front" ELSE "done"
  /\ UNCHANGED <<connected, threads, game, reader, joining, leftAt, direct,
                 partial, link, car, color, texts, queued, shown>>

-----------------------------------------------------------------------------
\* The network or the server ends the connection; the server does so when it
\* receives a frame that is not an event, such as the empty one, or the mixture
\* of two frames that were written at the same time.
LinkBreaks ==
  /\ link = "up"
  /\ link' = "down"
  /\ UNCHANGED <<connected, queue, threads, game, reader, writer, joining,
                 leftAt, direct, partial, car, color, texts, queued, shown>>

GameStep == DirectWritten \/ PushEmpty \/ Join \/ Close
ReaderStep == Connect \/ SetConnected \/ StartWriter \/ ReadPart \/ ReadRest
                \/ ReadFails
WriterStep == Front \/ WriteFrame \/ Pop

Next ==
  \/ SendPosition \/ SendColorUpdate \/ SendTextMessage \/ CloseConnection
  \/ GameStep
  \/ ReaderStep
  \/ WriterStep
  \/ LinkBreaks

Spec == Init /\ [][Next]_vars

\* Every thread that can go on does. For workerRead this includes the server:
\* it answers the handshakes, and it sends the time periodically for as long as
\* the connection is up.
Fairness == WF_vars(GameStep) /\ WF_vars(ReaderStep) /\ WF_vars(WriterStep)

LiveSpec == Spec /\ Fairness

-----------------------------------------------------------------------------
(***************************************************************************)
(* Properties.                                                             *)
(***************************************************************************)

ReaderLabels == {"connect", "flag", "spawn", "read", "done"}

Frames == [kind : {"none", "empty", "pos", "color", "text"},
           pos : Nat, color : Nat]

TypeOK ==
  /\ connected \in BOOLEAN /\ partial \in BOOLEAN
  /\ queue \in Seq(Frames)
  /\ threads \subseteq {"read", "write"} /\ joining \subseteq threads
  /\ game \in {"play", "write", "push", "join", "closed"}
  /\ reader \in ReaderLabels
  /\ writer \in {"none", "front", "write", "pop", "done"}
  /\ leftAt \in ReaderLabels \cup {"none"}
  /\ direct \in Frames
  /\ link \in {"none", "up", "down"}
  /\ car \in Nat /\ color \in Nat /\ texts \in Nat /\ queued \in Nat
  /\ shown \in [pos : Nat, color : Nat]

\* The peers never see the car go back to an earlier position, however the
\* three threads interleave.
PositionsForward == [][shown'.pos >= shown.pos]_vars

\* No queued position is lost: while the connection is up and nothing is left
\* to write, the peers show the last position that was queued.
QueueDelivered ==
  (link = "up" /\ queue = <<>>) => shown.pos = queued

\* When closeConnection returns no worker uses the session any more; but for
\* workerWrite, when the player left just before it was started: then it may be
\* missing from the list of threads that are joined.
NoOrphans ==
  game = "closed" =>
    reader = "done" /\ (writer \in {"none", "done"} \/ leftAt = "spawn")

\* While closeConnection joins the workers, workerWrite does not wait for a
\* frame that will never come; unless workerRead has turned the session on
\* again.
NobodyWaits ==
  (game = "join" /\ ~connected) => (writer = "front" => queue # <<>>)

\* Once the player has left, the session stays off; but for a workerRead that
\* has yet to connect or to report it, which turns it on again.
StaysOff ==
  (game \in {"push", "join", "closed"} /\ connected) =>
    leftAt \in {"connect", "flag"}

\* A queued position is eventually shown, unless the connection breaks or the
\* player leaves.
PositionsArrive ==
  \A n \in 1..MaxMoves :
    queued = n ~> (shown.pos >= n \/ link = "down" \/ game = "push")

\* Closing the session ends, whatever the workers wait for; but for a player
\* who left during the connection setup when that turns the session on again.
CloseEnds ==
  game = "push" ~>
    (game = "closed" \/ (connected /\ leftAt \in {"connect", "flag"}))

\* Closing the session ends.
CloseCompletes == game = "push" ~> game = "closed"
=============================================================================
