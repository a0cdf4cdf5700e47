--------------------------- MODULE ThreadSafeQueue ---------------------------
(***************************************************************************)
(* ThreadSafeQueue (gui/threadSafeQueue.hpp): a std::queue under a mutex   *)
(* with a condition variable, used by several producers and one consumer.  *)
(*                                                                         *)
(* A relay or a writer thread blocks in front(); the game's thread asks    *)
(* isEmpty() or getSize() first. Neither of them takes the mutex, so they  *)
(* race with a push: isEmpty compares one pointer that push writes and     *)
(* sees the queue before or after it, getSize computes with several.       *)
(***************************************************************************)
EXTENDS Integers, Sequences

CONSTANTS
  Producers, \* the threads that push
  MaxPushes, \* bound: pushes of each producer
  Uses,      \* how this queue's consumer uses it
  Torn,      \* what getSize may compute while a push is half done
  None

AllUses == {"block", "poll", "drop"}

ASSUME UsesAssumption == Uses \subseteq AllUses
ASSUME PushAssumption == MaxPushes \in Nat
ASSUME TornAssumption == Torn \subseteq Int
ASSUME NoneAssumption ==
  /\ "consumer" \notin Producers \cup {None} /\ None \notin Producers
  /\ None \notin Producers \X (1..MaxPushes)

Items == Producers \X (1..MaxPushes)

VARIABLES
  queue,   \* the std::queue
  mutex,   \* the producer that holds it, "consumer", or None
  pushing, \* where each producer is
  pushed,  \* how many items each producer has put
  taking,  \* where the consumer is
  held,    \* the item front() returned a reference to
  sure,    \* whether isEmpty has just said FALSE to the consumer
  signal   \* whether the waiting consumer was notified

producer == <<pushing, pushed>>
consumer == <<taking, held, sure, signal>>
vars == <<queue, mutex, producer, consumer>>

Init ==
  /\ queue = <<>> /\ mutex = None
  /\ pushing = [p \in Producers |-> "idle"]
  /\ pushed = [p \in Producers |-> 0]
  /\ taking = "idle" /\ held = None
  /\ sure = FALSE /\ signal = FALSE

HalfPushed == \E p \in Producers : pushing[p] = "put"

-----------------------------------------------------------------------------
(***************************************************************************)
(* push.                                                                   *)
(***************************************************************************)
Lock(p) ==
  /\ pushing[p] = "idle" /\ pushed[p] < MaxPushes
  /\ mutex = None
  /\ mutex' = p
  /\ pushing' = [pushing EXCEPT ![p] = "put"]
  /\ UNCHANGED <<queue, pushed, consumer>>

\* Fault: the item is put at the front.
PutFirst(p) ==
  /\ pushing[p] = "put"
  /\ pushed' = [pushed EXCEPT ![p] = @ + 1]
  /\ queue' = << <<p, pushed'[p]>> >> \o queue
  /\ mutex' = None
  /\ pushing' = [pushing EXCEPT ![p] = "notify"]
  /\ UNCHANGED consumer

\* Fault: only an item that comes into an empty queue is announced.
PutQuietly(p) ==
  /\ pushing[p] = "put"
  /\ pushed' = [pushed EXCEPT ![p] = @ + 1]
  /\ queue' = Append(queue, <<p, pushed'[p]>>)
  /\ mutex' = None
  /\ pushing' = [pushing EXCEPT ![p] = "idle"]
  /\ UNCHANGED consumer

\* The item is copied into the queue, and the guard's block ends.
Put(p) ==
  /\ pushing[p] = "put"
  /\ pushed' = [pushed EXCEPT ![p] = @ + 1]
  /\ queue' = Append(queue, <<p, pushed'[p]>>)
  /\ mutex' = None
  /\ pushing' = [pushing EXCEPT ![p] = "notify"]
  /\ UNCHANGED consumer

\* notify_one is called without the mutex and does nothing if nobody waits.
Notify(p) ==
  /\ pushing[p] = "notify"
  /\ signal' = (signal \/ taking = "wait")
  /\ pushing' = [pushing EXCEPT ![p] = "idle"]
  /\ UNCHANGED <<queue, mutex, pushed, taking, held, sure>>

-----------------------------------------------------------------------------
(***************************************************************************)
(* front, pop, isEmpty and getSize.                                        *)
(***************************************************************************)

\* A blocking consumer calls front at once.
CallFront ==
  /\ "block" \in Uses
  /\ taking = "idle"
  /\ taking' = "front"
  /\ UNCHANGED <<queue, mutex, producer, held, sure, signal>>

\* Fault: it does not ask.
PollNothing ==
  /\ "poll" \in Uses
  /\ taking = "idle"
  /\ taking' = "front" /\ sure' = TRUE
  /\ UNCHANGED <<queue, mutex, producer, held, signal>>

\* A polling one asks isEmpty, which sees a half pushed item or does not.
PollEmpty ==
  /\ "poll" \in Uses
  /\ taking = "idle"
  /\ queue # <<>> \/ HalfPushed
  /\ taking' = "front" /\ sure' = TRUE
  /\ UNCHANGED <<queue, mutex, producer, held, signal>>

\* The loop that drops positions pops while getSize is greater than 1. A size
\* that the queue never had is remembered as such.
Sizes == {Len(queue)} \cup (IF HalfPushed THEN {Len(queue) + 1} ELSE {})

\* Fault: it pops while getSize is not 0.
PollSizeNotZero ==
  /\ "drop" \in Uses
  /\ taking = "idle"
  /\ \E s \in Sizes : s > 0
  /\ taking' = "drop"
  /\ UNCHANGED <<queue, mutex, producer, held, sure, signal>>

PollSize ==
  /\ "drop" \in Uses
  /\ taking = "idle"
  /\ \/ (\E s \in Sizes : s > 1) /\ taking' = "drop"
     \/ HalfPushed /\ (\E s \in Torn : s > 1) /\ taking' = "dropTorn"
  /\ UNCHANGED <<queue, mutex, producer, held, sure, signal>>

\* front locks the mutex,
LockFront ==
  /\ taking = "front"
  /\ mutex = None
  /\ mutex' = "consumer" /\ taking' = "test"
  /\ UNCHANGED <<queue, producer, held, sure, signal>>

\* and returns the first item or gives the mutex up to wait, in one step.
Test ==
  /\ taking = "test"
  /\ mutex' = None
  /\ IF queue # <<>> THEN /\ taking' = "use"
                          /\ held' = Head(queue)
                     ELSE /\ taking' = "wait"
                          /\ UNCHANGED held
  /\ sure' = (sure /\ queue = <<>>)
  /\ UNCHANGED <<queue, producer, signal>>

\* Fault: whoever is woken takes it that there is an item.
WakeUntested ==
  /\ taking = "wait"
  /\ taking' = "use" /\ signal' = FALSE
  /\ UNCHANGED <<queue, mutex, producer, held, sure>>

\* The wait ends because of a notification, or for no reason.
Wake ==
  /\ taking = "wait"
  /\ taking' = "front" /\ signal' = FALSE
  /\ UNCHANGED <<queue, mutex, producer, held, sure>>

\* pop locks, removes the first item and unlocks; what front returned is not used
\* any more. To pop an empty std::queue is undefined.
Pop ==
  /\ taking \in {"use", "drop", "dropTorn"}
  /\ mutex = None
  /\ IF queue # <<>> THEN queue' = Tail(queue) /\ taking' = "idle"
                     ELSE taking' = "undefined" /\ UNCHANGED queue
  /\ held' = None
  /\ UNCHANGED <<mutex, producer, sure, signal>>

-----------------------------------------------------------------------------
Consume == CallFront \/ PollEmpty \/ PollSize \/ LockFront \/ Test \/ Pop

Next ==
  \/ \E p \in Producers : Lock(p) \/ Put(p) \/ Notify(p)
  \/ Consume \/ Wake

Spec == Init /\ [][Next]_vars

\* A thread in the middle of push goes on, and so does the consumer: the mutex is
\* free again and again until the producers have nothing more to push. Nobody
\* relies on a wait that ends without a notification.
Fairness ==
  /\ \A p \in Producers : WF_vars(Put(p)) /\ WF_vars(Notify(p))
  /\ WF_vars(Consume)
  /\ WF_vars(signal /\ Wake)

LiveSpec == Spec /\ Fairness

-----------------------------------------------------------------------------
(***************************************************************************)
(* Properties.                                                             *)
(***************************************************************************)
TypeOK ==
  /\ queue \in Seq(Items)
  /\ mutex \in Producers \cup {"consumer", None}
  /\ pushing \in [Producers -> {"idle", "put", "notify"}]
  /\ pushed \in [Producers -> 0..MaxPushes]
  /\ taking \in {"idle", "front", "test", "wait", "use", "drop", "dropTorn",
                 "undefined"}
  /\ held \in Items \cup {None}
  /\ sure \in BOOLEAN /\ signal \in BOOLEAN

\* pop never meets an empty queue, whatever the unlocked isEmpty and getSize saw.
NeverUndefined == taking # "undefined"

\* The game's thread asks isEmpty before front in order not to stop a frame: if it
\* was told that there is an item, front never waits.
NoFrameWaits == sure => taking # "wait"

\* The consumer never waits beside an item unless somebody is about to notify it:
\* a push between its test and its wait is not missed.
NoLostWakeup ==
  (taking = "wait" /\ queue # <<>>) =>
    signal \/ \E p \in Producers : pushing[p] = "notify"

\* A size that the queue really had lets the dropping loop leave the newest item.
NewestKept == [][(taking = "drop" /\ queue' # queue /\ taking' = "idle")
                   => queue' # <<>>]_vars

\* The queue is a FIFO one, and the item behind the reference that front returned
\* is still the first one when pop removes it.
Fifo == INSTANCE AtomicQueue WITH items <- queue
KeepsFifo == Fifo!Spec

\* A consumer that blocks in front gets every item.
InQueue(i) == \E k \in 1..Len(queue) : queue[k] = i
AllTaken == \A i \in Items : InQueue(i) ~> ~InQueue(i)

-----------------------------------------------------------------------------
(***************************************************************************)
(* The inductive invariant.                                                *)
(***************************************************************************)
MutexInv ==
  /\ \A p \in Producers : /\ mutex = p <=> pushing[p] = "put"
                          /\ pushing[p] = "put" => pushed[p] < MaxPushes
  /\ mutex = "consumer" <=> taking = "test"

HeldInv ==
  IF taking = "use" THEN queue # <<>> /\ held = Head(queue) ELSE held = None

\* What the consumer saw without the mutex is true once it gets the mutex.
SeenInv ==
  /\ sure => taking \in {"front", "test"} /\ (queue # <<>> \/ HalfPushed)
  /\ taking = "drop" => Len(queue) + (IF HalfPushed THEN 1 ELSE 0) > 1
  /\ taking = "dropTorn" => queue # <<>> \/ HalfPushed

WaitInv == NoLostWakeup /\ (signal => taking = "wait")

IInv ==
  /\ TypeOK /\ NeverUndefined
  /\ MutexInv /\ HeldInv /\ SeenInv /\ WaitInv
=============================================================================
