--------------------------- MODULE KeepAliveProofs ---------------------------
(***************************************************************************)
(* Proofs about KeepAlive, for any durations: of the writer, the client    *)
(* and the reader each counts as late from a delay on, and the three       *)
(* delays add up to less than what pongWait leaves beyond pingInterval.    *)
(***************************************************************************)
EXTENDS KeepAlive, TLAPS

\* The pings are less than a pongWait apart, and more than the delays take.
LEMMA Interval ==
  /\ pingInterval \in Nat /\ PongWait \in Nat
  /\ Lag \in Nat /\ Delay \in Nat /\ Busy \in Nat /\ MaxTime \in Nat
  /\ Lag + Delay + Busy < PongWait - pingInterval
  /\ Lag + Delay + Busy < pingInterval
<1>1. /\ PongWait \in Nat /\ PongWait >= 10
      /\ Lag \in Nat /\ Delay \in Nat /\ Busy \in Nat /\ MaxTime \in Nat
  BY TimeAssumption
<1>2. /\ pingInterval \in Nat
      /\ 10 * pingInterval <= PongWait * 9 /\ PongWait * 9 <= 10 * pingInterval + 9
  BY <1>1 DEF pingInterval
<1>3. PongWait - pingInterval <= pingInterval
  BY <1>1, <1>2
<1> QED BY <1>1, <1>2, <1>3, SlackAssumption

LEMMA NeverIsNoTime == Never \notin Int
BY TimeAssumption

LEMMA InitInv == Init => IInv
<1> SUFFICES ASSUME Init PROVE IInv
  OBVIOUS
<1>1. TypeOK
  BY Interval DEF Init, TypeOK
<1>2. ClockInv /\ CycleInv
  BY Interval, NeverIsNoTime DEF Init, ClockInv, CycleInv, cycle
<1>3. DeadlineInv /\ SilenceInv /\ HealthyStays
  BY Interval, NeverIsNoTime DEF Init, DeadlineInv, SilenceInv, HealthyStays, Outstanding
<1> QED BY <1>1, <1>2, <1>3 DEF IInv

-----------------------------------------------------------------------------
(***************************************************************************)
(* Each action keeps the invariant.                                        *)
(***************************************************************************)

LEMMA AdvanceInv == IInv /\ reader # "gone" /\ Advance => IInv'
<1> SUFFICES ASSUME IInv, reader # "gone", Advance PROVE IInv'
  OBVIOUS
<1>1. /\ TypeOK /\ ClockInv
      /\ ~late => CycleInv /\ DeadlineInv /\ SilenceInv
      /\ reader # "gone"
  BY DEF IInv
<1>2. TypeOK'
  BY <1>1, Interval, NeverIsNoTime DEF Advance, Overdue, TypeOK
<1>3. ClockInv'
  BY <1>1, Interval, NeverIsNoTime DEF Advance, Overdue, TypeOK, ClockInv, cycle
<1>4. HealthyStays'
  BY <1>1 DEF Advance, HealthyStays
<1>5. ASSUME ~late' PROVE CycleInv' /\ DeadlineInv' /\ SilenceInv'
  <2>1. ~late
    BY <1>5 DEF Advance
  <2>2. CycleInv'
    BY <1>1, <1>5, <2>1, Interval, NeverIsNoTime
    DEF Advance, Overdue, TypeOK, ClockInv, CycleInv, cycle
  <2>3. DeadlineInv'
    BY <1>1, <1>5, <2>1, Interval, NeverIsNoTime
    DEF Advance, Overdue, TypeOK, ClockInv, CycleInv, DeadlineInv, Outstanding, cycle
  <2>4. SilenceInv'
    BY <1>1, <1>5, <2>1, Interval, NeverIsNoTime
    DEF Advance, Overdue, TypeOK, ClockInv, CycleInv, SilenceInv, cycle
  <2> QED BY <2>2, <2>3, <2>4
<1> QED BY <1>2, <1>3, <1>4, <1>5 DEF IInv

LEMMA FireInv == IInv /\ reader # "gone" /\ Fire => IInv'
<1> SUFFICES ASSUME IInv, reader # "gone", Fire PROVE IInv'
  OBVIOUS
<1>1. /\ TypeOK /\ ClockInv
      /\ ~late => CycleInv /\ DeadlineInv /\ SilenceInv
      /\ reader # "gone"
  BY DEF IInv
<1>2. TypeOK'
  BY <1>1, Interval, NeverIsNoTime DEF Fire, TypeOK
<1>3. ClockInv'
  BY <1>1, Interval, NeverIsNoTime DEF Fire, TypeOK, ClockInv, cycle
<1>4. HealthyStays'
  BY <1>1 DEF Fire, HealthyStays
<1>5. ASSUME ~late' PROVE CycleInv' /\ DeadlineInv' /\ SilenceInv'
  <2>1. ~late
    BY <1>5 DEF Fire
  <2>2. CycleInv'
    BY <1>1, <1>5, <2>1, Interval, NeverIsNoTime
    DEF Fire, TypeOK, ClockInv, CycleInv, cycle
  <2>3. DeadlineInv'
    BY <1>1, <1>5, <2>1, Interval, NeverIsNoTime
    DEF Fire, TypeOK, ClockInv, CycleInv, DeadlineInv, Outstanding, cycle
  <2>4. SilenceInv'
    BY <1>1, <1>5, <2>1, Interval, NeverIsNoTime
    DEF Fire, TypeOK, ClockInv, CycleInv, SilenceInv, cycle
  <2> QED BY <2>2, <2>3, <2>4
<1> QED BY <1>2, <1>3, <1>4, <1>5 DEF IInv

LEMMA PingInv == IInv /\ reader # "gone" /\ Ping => IInv'
<1> SUFFICES ASSUME IInv, reader # "gone", Ping PROVE IInv'
  OBVIOUS
<1>1. /\ TypeOK /\ ClockInv
      /\ ~late => CycleInv /\ DeadlineInv /\ SilenceInv
      /\ reader # "gone"
  BY DEF IInv
<1>2. TypeOK'
  BY <1>1, Interval, NeverIsNoTime DEF Ping, TypeOK
<1>3. ClockInv'
  BY <1>1, Interval, NeverIsNoTime DEF Ping, TypeOK, ClockInv, cycle
<1>4. HealthyStays'
  BY <1>1 DEF Ping, HealthyStays
<1>5. ASSUME ~late' PROVE CycleInv' /\ DeadlineInv' /\ SilenceInv'
  <2>1. ~late
    BY <1>5 DEF Ping
  <2>2. CycleInv'
    BY <1>1, <1>5, <2>1, Interval, NeverIsNoTime
    DEF Ping, TypeOK, ClockInv, CycleInv, cycle
  <2>3. DeadlineInv'
    BY <1>1, <1>5, <2>1, Interval, NeverIsNoTime
    DEF Ping, TypeOK, ClockInv, CycleInv, DeadlineInv, Outstanding, cycle
  <2>4. SilenceInv'
    BY <1>1, <1>5, <2>1, Interval, NeverIsNoTime
    DEF Ping, TypeOK, ClockInv, CycleInv, SilenceInv, cycle
  <2> QED BY <2>2, <2>3, <2>4
<1> QED BY <1>2, <1>3, <1>4, <1>5 DEF IInv

LEMMA PongInv == IInv /\ reader # "gone" /\ Pong => IInv'
<1> SUFFICES ASSUME IInv, reader # "gone", Pong PROVE IInv'
  OBVIOUS
<1>1. /\ TypeOK /\ ClockInv
      /\ ~late => CycleInv /\ DeadlineInv /\ SilenceInv
      /\ reader # "gone"
  BY DEF IInv
<1>2. TypeOK'
  BY <1>1, Interval, NeverIsNoTime DEF Pong, TypeOK
<1>3. ClockInv'
  BY <1>1, Interval, NeverIsNoTime DEF Pong, TypeOK, ClockInv, cycle
<1>4. HealthyStays'
  BY <1>1 DEF Pong, HealthyStays
<1>5. ASSUME ~late' PROVE CycleInv' /\ DeadlineInv' /\ SilenceInv'
  <2>1. ~late
    BY <1>5 DEF Pong
  <2>2. CycleInv'
    BY <1>1, <1>5, <2>1, Interval, NeverIsNoTime
    DEF Pong, TypeOK, ClockInv, CycleInv, cycle
  <2>3. DeadlineInv'
    BY <1>1, <1>5, <2>1, Interval, NeverIsNoTime
    DEF Pong, TypeOK, ClockInv, CycleInv, DeadlineInv, Outstanding, cycle
  <2>4. SilenceInv'
    BY <1>1, <1>5, <2>1, Interval, NeverIsNoTime
    DEF Pong, TypeOK, ClockInv, CycleInv, SilenceInv, cycle
  <2> QED BY <2>2, <2>3, <2>4
<1> QED BY <1>2, <1>3, <1>4, <1>5 DEF IInv

LEMMA FallSilentInv == IInv /\ reader # "gone" /\ FallSilent => IInv'
<1> SUFFICES ASSUME IInv, reader # "gone", FallSilent PROVE IInv'
  OBVIOUS
<1>1. /\ TypeOK /\ ClockInv
      /\ ~late => CycleInv /\ DeadlineInv /\ SilenceInv
      /\ reader # "gone"
  BY DEF IInv
<1>2. TypeOK'
  BY <1>1, Interval, NeverIsNoTime DEF FallSilent, TypeOK
<1>3. ClockInv'
  BY <1>1, Interval, NeverIsNoTime DEF FallSilent, TypeOK, ClockInv, cycle
<1>4. HealthyStays'
  BY <1>1 DEF FallSilent, HealthyStays
<1>5. ASSUME ~late' PROVE CycleInv' /\ DeadlineInv' /\ SilenceInv'
  <2>1. ~late
    BY <1>5 DEF FallSilent
  <2>2. CycleInv'
    BY <1>1, <1>5, <2>1, Interval, NeverIsNoTime
    DEF FallSilent, TypeOK, ClockInv, CycleInv, cycle
  <2>3. DeadlineInv'
    BY <1>1, <1>5, <2>1, Interval, NeverIsNoTime
    DEF FallSilent, TypeOK, ClockInv, CycleInv, DeadlineInv, Outstanding, cycle
  <2>4. SilenceInv'
    BY <1>1, <1>5, <2>1, Interval, NeverIsNoTime
    DEF FallSilent, TypeOK, ClockInv, CycleInv, SilenceInv, cycle
  <2> QED BY <2>2, <2>3, <2>4
<1> QED BY <1>2, <1>3, <1>4, <1>5 DEF IInv

LEMMA PongHandlerInv == IInv /\ reader # "gone" /\ PongHandler => IInv'
<1> SUFFICES ASSUME IInv, reader # "gone", PongHandler PROVE IInv'
  OBVIOUS
<1>1. /\ TypeOK /\ ClockInv
      /\ ~late => CycleInv /\ DeadlineInv /\ SilenceInv
      /\ reader # "gone"
  BY DEF IInv
<1>2. TypeOK'
  <2>1. deadline' \in Nat
    BY <1>1, Interval DEF PongHandler, TypeOK
  <2> QED BY <1>1, <2>1, Zenon DEF PongHandler, TypeOK
<1>3. ClockInv'
  BY <1>1, Interval, NeverIsNoTime DEF PongHandler, TypeOK, ClockInv, cycle
<1>4. HealthyStays'
  BY <1>1 DEF PongHandler, HealthyStays
<1>5. ASSUME ~late' PROVE CycleInv' /\ DeadlineInv' /\ SilenceInv'
  <2>1. ~late
    BY <1>5 DEF PongHandler
  <2>2. CycleInv'
    BY <1>1, <1>5, <2>1, Interval, NeverIsNoTime
    DEF PongHandler, TypeOK, ClockInv, CycleInv, cycle
  <2>3. DeadlineInv'
    BY <1>1, <1>5, <2>1, Interval, NeverIsNoTime
    DEF PongHandler, TypeOK, ClockInv, CycleInv, DeadlineInv, Outstanding, cycle
  <2>4. SilenceInv'
    BY <1>1, <1>5, <2>1, Interval, NeverIsNoTime
    DEF PongHandler, TypeOK, ClockInv, CycleInv, SilenceInv, cycle
  <2> QED BY <2>2, <2>3, <2>4
<1> QED BY <1>2, <1>3, <1>4, <1>5 DEF IInv

LEMMA ReadMessageInv == IInv /\ reader # "gone" /\ ReadMessage => IInv'
<1> SUFFICES ASSUME IInv, reader # "gone", ReadMessage PROVE IInv'
  OBVIOUS
<1>1. /\ TypeOK /\ ClockInv
      /\ ~late => CycleInv /\ DeadlineInv /\ SilenceInv
      /\ reader # "gone"
  BY DEF IInv
<1>2. TypeOK'
  BY <1>1, Interval, NeverIsNoTime DEF ReadMessage, TypeOK
<1>3. ClockInv'
  BY <1>1, Interval, NeverIsNoTime DEF ReadMessage, TypeOK, ClockInv, cycle
<1>4. HealthyStays'
  BY <1>1 DEF ReadMessage, HealthyStays
<1>5. ASSUME ~late' PROVE CycleInv' /\ DeadlineInv' /\ SilenceInv'
  <2>1. ~late
    BY <1>5 DEF ReadMessage
  <2>2. CycleInv'
    BY <1>1, <1>5, <2>1, Interval, NeverIsNoTime
    DEF ReadMessage, TypeOK, ClockInv, CycleInv, cycle
  <2>3. DeadlineInv'
    BY <1>1, <1>5, <2>1, Interval, NeverIsNoTime
    DEF ReadMessage, TypeOK, ClockInv, CycleInv, DeadlineInv, Outstanding, cycle
  <2>4. SilenceInv'
    BY <1>1, <1>5, <2>1, Interval, NeverIsNoTime
    DEF ReadMessage, TypeOK, ClockInv, CycleInv, SilenceInv, cycle
  <2> QED BY <2>2, <2>3, <2>4
<1> QED BY <1>2, <1>3, <1>4, <1>5 DEF IInv

LEMMA RouteEventInv == IInv /\ reader # "gone" /\ RouteEvent => IInv'
<1> SUFFICES ASSUME IInv, reader # "gone", RouteEvent PROVE IInv'
  OBVIOUS
<1>1. /\ TypeOK /\ ClockInv
      /\ ~late => CycleInv /\ DeadlineInv /\ SilenceInv
      /\ reader # "gone"
  BY DEF IInv
<1>2. TypeOK'
  BY <1>1, Interval, NeverIsNoTime DEF RouteEvent, TypeOK
<1>3. ClockInv'
  BY <1>1, Interval, NeverIsNoTime DEF RouteEvent, TypeOK, ClockInv, cycle
<1>4. HealthyStays'
  BY <1>1 DEF RouteEvent, HealthyStays
<1>5. ASSUME ~late' PROVE CycleInv' /\ DeadlineInv' /\ SilenceInv'
  <2>1. ~late
    BY <1>5 DEF RouteEvent
  <2>2. CycleInv'
    BY <1>1, <1>5, <2>1, Interval, NeverIsNoTime
    DEF RouteEvent, TypeOK, ClockInv, CycleInv, cycle
  <2>3. DeadlineInv'
    BY <1>1, <1>5, <2>1, Interval, NeverIsNoTime
    DEF RouteEvent, TypeOK, ClockInv, CycleInv, DeadlineInv, Outstanding, cycle
  <2>4. SilenceInv'
    BY <1>1, <1>5, <2>1, Interval, NeverIsNoTime
    DEF RouteEvent, TypeOK, ClockInv, CycleInv, SilenceInv, cycle
  <2> QED BY <2>2, <2>3, <2>4
<1> QED BY <1>2, <1>3, <1>4, <1>5 DEF IInv

\* Only a client that is silent, or a cycle with a late step, reaches the deadline.
LEMMA TimeoutInv == IInv /\ reader # "gone" /\ Timeout => IInv'
<1> SUFFICES ASSUME IInv, reader # "gone", Timeout PROVE IInv'
  OBVIOUS
<1>1. /\ TypeOK /\ ClockInv
      /\ ~late => CycleInv /\ DeadlineInv /\ SilenceInv
  BY DEF IInv
<1>2. TypeOK' /\ ClockInv'
  BY <1>1 DEF Timeout, TypeOK, ClockInv, cycle
<1>3. ~late' => CycleInv' /\ DeadlineInv' /\ SilenceInv'
  BY <1>1 DEF Timeout, CycleInv, DeadlineInv, SilenceInv, cycle
<1>4. HealthyStays'
  <2> SUFFICES ASSUME ~silent, ~late PROVE FALSE
    BY DEF HealthyStays, Timeout
  <2>0. CycleInv /\ DeadlineInv
    BY <1>1
  <2>1. reader = "read" /\ now >= deadline /\ now <= tick /\ cycle \in Int
    BY <1>1, Interval DEF Timeout, ClockInv, cycle, TypeOK
  <2>2. CASE Outstanding
    <3>1. now <= cycle + Lag + Delay + Busy
      BY <1>1, <2>0, <2>2, Interval, NeverIsNoTime DEF CycleInv, Outstanding, TypeOK, cycle
    <3>2. deadline >= cycle + PongWait - pingInterval
      BY <2>0, <2>1, <2>2 DEF DeadlineInv
    <3> QED BY <1>1, <2>1, <3>1, <3>2, Interval DEF TypeOK
  <2>3. CASE ~Outstanding
    <3>1. deadline >= tick + PongWait - pingInterval
      BY <2>0, <2>1, <2>3 DEF DeadlineInv
    <3> QED BY <1>1, <2>1, <3>1, Interval DEF TypeOK
  <2> QED BY <2>2, <2>3
<1> QED BY <1>2, <1>3, <1>4 DEF IInv

-----------------------------------------------------------------------------
(***************************************************************************)
(* Theorems.                                                               *)
(***************************************************************************)

\* The invariant holds in every reachable state.
THEOREM Invariance == Spec => []IInv
<1>1. IInv /\ [Next]_vars => IInv'
  <2> SUFFICES ASSUME IInv, [Next]_vars PROVE IInv'
    OBVIOUS
  <2>1. CASE Next
    BY <2>1, AdvanceInv, FireInv, PingInv, PongInv, FallSilentInv, PongHandlerInv,
       ReadMessageInv, RouteEventInv, TimeoutInv DEF Next
  <2>2. CASE UNCHANGED vars
    BY <2>2 DEF vars, IInv, TypeOK, ClockInv, CycleInv, DeadlineInv, SilenceInv,
       HealthyStays, Outstanding, cycle
  <2> QED BY <2>1, <2>2
<1> QED BY <1>1, InitInv, PTL DEF Spec

\* A client that answers is dropped only after the writer, the client or the reader
\* was late; the reader is when a broadcast waits for a peer for too long.
THEOREM HealthyNeverDropped == Spec => []HealthyStays
<1>1. IInv => HealthyStays
  BY DEF IInv
<1> QED BY <1>1, Invariance, PTL

\* A client that vanished is dropped within a bounded time, unless one of the three
\* was late.
THEOREM SilentGoes == Spec => []SilentDropped
<1>1. IInv => SilentDropped
  BY DEF IInv, SilenceInv, SilentDropped
<1> QED BY <1>1, Invariance, PTL
=============================================================================
