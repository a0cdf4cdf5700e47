------------------------------ MODULE KeepAlive ------------------------------
(***************************************************************************)
(* The server's keep-alive of one client (client.go): the writer pings at  *)
(* every tick of a ticker, the client answers, and the reader handles the  *)
(* answer by moving its read deadline. It does so only within ReadMessage, *)
(* never while it routes an event, and a read past the deadline fails even *)
(* if the answer has arrived.                                              *)
(*                                                                         *)
(* Only the clock and what moves the deadline are modelled here. How the   *)
(* other goroutines delay the reader and the writer is Manager's: nothing  *)
(* in the code bounds how long a peer blocks them, and nothing bounds it   *)
(* here. The parameters say what counts as late.                           *)
(***************************************************************************)
EXTENDS Integers

CONSTANTS
  PongWait, \* pongWait
  Lag,      \* the writer is late when a ping takes longer than this after the tick
  Delay,    \* the client is late when what it sends takes longer than this
  Busy,     \* the reader is late when it routes for longer than this
  Never,    \* stands for no time
  MaxTime   \* bound: when the clock stops

pingInterval == (PongWait * 9) \div 10

ASSUME TimeAssumption ==
  /\ PongWait \in Nat /\ PongWait >= 10
  /\ {Lag, Delay, Busy, MaxTime} \subseteq Nat
  /\ Never \notin Int

\* What the three add up to: less than 1 s with the server's pongWait of 10 s.
ASSUME SlackAssumption == Lag + Delay + Busy < PongWait - pingInterval

VARIABLES
  now,
  reader,   \* "read" in ReadMessage, "route" in routeEvent, "gone"
  since,    \* when it began to route, if it does
  deadline, \* the connection's read deadline
  tick,     \* when the ticker fires next
  fired,    \* the tick the writer has yet to take
  answerBy, \* when the answer to the last ping arrives at the latest
  pong,     \* whether an answer waits to be read
  silent,   \* whether the client has stopped to send anything
  quiet,    \* when it did
  late      \* history: whether the writer, the client or the reader was ever late

vars == <<now, reader, since, deadline, tick, fired, answerBy, pong, silent, quiet,
          late>>

\* The two goroutines start together, and the first deadline is set.
Init ==
  /\ now = 0
  /\ reader = "read" /\ since = 0
  /\ deadline = PongWait
  /\ tick = pingInterval /\ fired = Never
  /\ answerBy = Never /\ pong = FALSE
  /\ silent = FALSE /\ quiet = 0
  /\ late = FALSE

\* Some step that has been due for as long as it may take has not been made.
Overdue ==
  \/ fired # Never /\ now >= fired + Lag
  \/ answerBy # Never /\ now >= answerBy
  \/ reader = "route" /\ now >= since + Busy

\* Time passes. The ticker fires on time, and a reader in ReadMessage handles at
\* once what arrives, or the deadline.
Advance ==
  /\ now < MaxTime
  /\ now < tick
  /\ reader = "read" => ~pong /\ now < deadline
  /\ now' = now + 1
  /\ late' = (late \/ Overdue)
  /\ UNCHANGED <<reader, since, deadline, tick, fired, answerBy, pong, silent, quiet>>

\* The ticker puts a tick into its channel, which holds one: another is dropped.
Fire ==
  /\ now = tick
  /\ tick' = tick + pingInterval
  /\ fired' = IF fired = Never THEN now ELSE fired
  /\ UNCHANGED <<now, reader, since, deadline, answerBy, pong, silent, quiet, late>>

\* The writer's select takes the tick, and the ping is written. A silent client
\* does not answer. Of two answers on their way only the first is counted.
Ping ==
  /\ fired # Never
  /\ fired' = Never
  /\ answerBy' = IF silent \/ answerBy # Never THEN answerBy ELSE now + Delay
  /\ UNCHANGED <<now, reader, since, deadline, tick, pong, silent, quiet, late>>

\* The answer arrives.
Pong ==
  /\ answerBy # Never
  /\ answerBy' = Never
  /\ pong' = TRUE
  /\ UNCHANGED <<now, reader, since, deadline, tick, fired, silent, quiet, late>>

\* The client vanishes without a word. It may have answered the last ping before.
FallSilent ==
  /\ ~silent
  /\ silent' = TRUE /\ quiet' = now
  /\ answerBy' \in {answerBy, Never}
  /\ UNCHANGED <<now, reader, since, deadline, tick, fired, pong, late>>

\* Fault: the new deadline is counted from the old one.
PongHandlerDrifts ==
  /\ reader = "read" /\ pong
  /\ now <= deadline
  /\ pong' = FALSE
  /\ deadline' = deadline + PongWait
  /\ UNCHANGED <<now, reader, since, tick, fired, answerBy, silent, quiet, late>>

\* Fault: the deadline is moved by the other of the two durations.
PongHandlerInterval ==
  /\ reader = "read" /\ pong
  /\ now <= deadline
  /\ pong' = FALSE
  /\ deadline' = now + pingInterval
  /\ UNCHANGED <<now, reader, since, tick, fired, answerBy, silent, quiet, late>>

\* pongHandler, called within ReadMessage.
PongHandler ==
  /\ reader = "read" /\ pong
  /\ now <= deadline
  /\ pong' = FALSE
  /\ deadline' = now + PongWait
  /\ UNCHANGED <<now, reader, since, tick, fired, answerBy, silent, quiet, late>>

\* ReadMessage returns an event, which leaves the deadline as it is. What comes
\* after an answer is read after it, and what a silent client sent before may
\* still be on its way.
ReadMessage ==
  /\ reader = "read" /\ ~pong
  /\ now <= deadline
  /\ reader' = "route" /\ since' = now
  /\ late' = (late \/ (silent /\ now > quiet + Delay))
  /\ UNCHANGED <<now, deadline, tick, fired, answerBy, pong, silent, quiet>>

\* routeEvent has handed the event, and those right behind it, to every peer.
RouteEvent ==
  /\ reader = "route"
  /\ reader' = "read" /\ since' = 0
  /\ UNCHANGED <<now, deadline, tick, fired, answerBy, pong, silent, quiet, late>>

\* ReadMessage fails at the deadline, or at once after it, and the client is
\* removed.
Timeout ==
  /\ reader = "read"
  /\ now >= deadline
  /\ reader' = "gone"
  /\ UNCHANGED <<now, since, deadline, tick, fired, answerBy, pong, silent, quiet, late>>

\* The removal closes the connection, and the writer's next ping fails.
Next ==
  /\ reader # "gone"
  /\ \/ Advance
     \/ Fire \/ Ping \/ Pong \/ FallSilent
     \/ PongHandler \/ ReadMessage \/ RouteEvent \/ Timeout

Spec == Init /\ [][Next]_vars

-----------------------------------------------------------------------------
(***************************************************************************)
(* Properties.                                                             *)
(***************************************************************************)

\* A client that answers is dropped only after the writer, the client itself or the
\* reader was late, although the reader handles no answer while it routes and the
\* pings are almost as far apart as the deadline.
HealthyStays == reader = "gone" => silent \/ late

\* A client that vanished is dropped within pongWait of what it sent last and of
\* the events that the reader still had to route; unless one of them was late.
SilentDropped ==
  silent /\ reader # "gone" /\ ~late => now <= quiet + Delay + Busy + PongWait

-----------------------------------------------------------------------------
(***************************************************************************)
(* The inductive invariant. A cycle begins with each tick.                 *)
(***************************************************************************)
cycle == tick - pingInterval
Outstanding == fired # Never \/ answerBy # Never \/ pong

TypeOK ==
  /\ now \in Nat /\ since \in Nat /\ deadline \in Nat /\ tick \in Nat /\ quiet \in Nat
  /\ reader \in {"read", "route", "gone"}
  /\ fired \in Nat \cup {Never} /\ answerBy \in Nat \cup {Never}
  /\ pong \in BOOLEAN /\ silent \in BOOLEAN /\ late \in BOOLEAN

\* The clock stands within the cycle, and nothing is dated in the future but what
\* is due.
ClockInv ==
  /\ cycle <= now /\ now <= tick
  /\ quiet <= now /\ since <= now
  /\ deadline <= now + PongWait
  /\ answerBy # Never => answerBy <= now + Delay

\* How far each step of a cycle can be behind when nobody was late.
CycleInv ==
  /\ fired # Never => fired = cycle /\ now <= cycle + Lag /\ answerBy = Never /\ ~pong
  /\ answerBy # Never => now <= answerBy /\ answerBy <= cycle + Lag + Delay /\ ~pong
  /\ reader = "route" => now <= since + Busy
  /\ pong => /\ now <= cycle + Lag + Delay + Busy
             /\ reader = "route" => since <= cycle + Lag + Delay

\* The deadline of a client that answers outlives the cycle's answer, or the cycle
\* if it was answered.
DeadlineInv ==
  ~silent /\ reader # "gone" =>
    deadline >= (IF Outstanding THEN cycle ELSE tick) + PongWait - pingInterval

\* No answer, and no event, was sent after the silence.
SilenceInv ==
  silent /\ reader # "gone" =>
    /\ deadline <= quiet + Delay + Busy + PongWait
    /\ now <= quiet + Delay + Busy + PongWait
    /\ reader = "route" => since <= quiet + Delay
    /\ answerBy # Never => answerBy <= quiet + Delay
    /\ pong => now <= quiet + Delay + Busy

IInv ==
  /\ TypeOK /\ ClockInv /\ HealthyStays
  /\ ~late => CycleInv /\ DeadlineInv /\ SilenceInv
=============================================================================
