------------------------ MODULE ThreadSafeQueueProofs ------------------------
(***************************************************************************)
(* Proofs about ThreadSafeQueue, for any producers, numbers of pushes, uses *)
(* and sizes that getSize may compute.                                     *)
(***************************************************************************)
EXTENDS ThreadSafeQueue, TLAPS

USE UsesAssumption, PushAssumption, TornAssumption, NoneAssumption

LEMMA AppendFacts ==
  ASSUME NEW i \in Items, queue \in Seq(Items)
  PROVE  /\ Append(queue, i) \in Seq(Items) /\ Append(queue, i) # <<>>
         /\ Len(Append(queue, i)) = Len(queue) + 1 /\ Len(queue) \in Nat
         /\ queue # <<>> => Head(Append(queue, i)) = Head(queue)
<1>1. /\ Append(queue, i) \in Seq(Items) /\ Append(queue, i) # <<>>
      /\ Len(Append(queue, i)) = Len(queue) + 1 /\ Len(queue) \in Nat
  OBVIOUS
<1>2. ASSUME queue # <<>> PROVE Head(Append(queue, i)) = Head(queue)
  <2>1. Len(queue) > 0
    BY <1>2
  <2>2. Append(queue, i)[1] = queue[1]
    BY <2>1
  <2> QED BY <2>2, <1>1, <1>2
<1> QED BY <1>1, <1>2

LEMMA TailFacts ==
  ASSUME queue \in Seq(Items), queue # <<>>
  PROVE  /\ Tail(queue) \in Seq(Items) /\ Head(queue) \in Items
         /\ Len(queue) \in Nat /\ Len(queue) > 0
         /\ Len(Tail(queue)) = Len(queue) - 1
         /\ Tail(queue) = <<>> => Len(queue) = 1
<1>1. /\ Tail(queue) \in Seq(Items) /\ Head(queue) \in Items
      /\ Len(queue) \in Nat /\ Len(queue) > 0
      /\ Len(Tail(queue)) = Len(queue) - 1
  OBVIOUS
<1>2. ASSUME Tail(queue) = <<>> PROVE Len(queue) = 1
  <2>1. Len(<<>>) = 0
    OBVIOUS
  <2>2. Len(Tail(queue)) = 0
    BY <1>2, <2>1, Zenon
  <2> QED BY <2>2, <1>1
<1> QED BY <1>1, <1>2

LEMMA PutEffect ==
  ASSUME TypeOK, MutexInv, NEW p \in Producers, Put(p)
  PROVE  \E i \in Items : queue' = Append(queue, i)
<1>1. pushed' = [pushed EXCEPT ![p] = @ + 1] /\ pushed[p] < MaxPushes
  BY DEF Put, MutexInv
<1>2. pushed'[p] \in 1..MaxPushes
  BY <1>1 DEF TypeOK
<1>3. <<p, pushed'[p]>> \in Items
  BY <1>2 DEF Items
<1> QED BY <1>3 DEF Put

LEMMA InitInv == Init => IInv
<1> SUFFICES ASSUME Init PROVE IInv
  OBVIOUS
<1>1. queue = <<>> /\ queue \in Seq(Items)
  BY DEF Init
<1>2. TypeOK
  <2>1. 0 \in 0..MaxPushes
    BY PushAssumption
  <2>2. pushed \in [Producers -> 0..MaxPushes]
    BY <2>1 DEF Init
  <2>3. pushing \in [Producers -> {"idle", "put", "notify"}]
    BY DEF Init
  <2> QED BY <1>1, <2>2, <2>3 DEF Init, TypeOK
<1>3. MutexInv
  BY DEF Init, MutexInv
<1>4. NeverUndefined /\ HeldInv /\ SeenInv /\ WaitInv
  BY DEF Init, NeverUndefined, HeldInv, SeenInv, WaitInv, NoLostWakeup
<1> QED BY <1>2, <1>3, <1>4 DEF IInv

LEMMA NextInv == IInv /\ [Next]_vars => IInv'
<1> SUFFICES ASSUME IInv, [Next]_vars PROVE IInv'
  OBVIOUS
<1>0. TypeOK /\ NeverUndefined /\ MutexInv /\ HeldInv /\ SeenInv /\ WaitInv
  BY DEF IInv
<1> USE DEF MutexInv, HeldInv, SeenInv, WaitInv, NoLostWakeup, NeverUndefined,
            HalfPushed
<1>1. ASSUME NEW p \in Producers, Lock(p) PROVE IInv'
  <2>1. TypeOK'
    BY <1>0, <1>1 DEF Lock, TypeOK, consumer
  <2>2. MutexInv'
    BY <1>0, <1>1 DEF Lock, TypeOK, consumer
  <2>3. HeldInv' /\ SeenInv' /\ WaitInv' /\ NeverUndefined'
    BY <1>0, <1>1 DEF Lock, TypeOK, consumer
  <2> QED BY <2>1, <2>2, <2>3 DEF IInv
<1>2. ASSUME NEW p \in Producers, Put(p) PROVE IInv'
  <2>1. PICK i \in Items : queue' = Append(queue, i)
    BY <1>0, <1>2, PutEffect
  <2>2. /\ queue' \in Seq(Items) /\ queue' # <<>>
        /\ Len(queue') = Len(queue) + 1 /\ Len(queue) \in Nat
        /\ queue # <<>> => Head(queue') = Head(queue)
    BY <1>0, <2>1, AppendFacts DEF TypeOK
  <2>3. pushed' \in [Producers -> 0..MaxPushes]
    BY <1>0, <1>2 DEF Put, TypeOK
  <2>4. TypeOK'
    BY <1>0, <1>2, <2>2, <2>3 DEF Put, TypeOK, consumer
  <2>5. MutexInv'
    BY <1>0, <1>2 DEF Put, TypeOK, consumer
  <2>6. HeldInv' /\ NeverUndefined'
    BY <1>0, <1>2, <2>2 DEF Put, consumer
  <2>7. SeenInv'
    BY <1>0, <1>2, <2>2 DEF Put, consumer
  <2>8. WaitInv'
    BY <1>0, <1>2 DEF Put, consumer, TypeOK
  <2> QED BY <2>4, <2>5, <2>6, <2>7, <2>8 DEF IInv
<1>3. ASSUME NEW p \in Producers, Notify(p) PROVE IInv'
  <2>1. TypeOK'
    BY <1>0, <1>3 DEF Notify, TypeOK
  <2>2. MutexInv' /\ HeldInv' /\ SeenInv' /\ NeverUndefined'
    BY <1>0, <1>3 DEF Notify, TypeOK
  <2>3. WaitInv'
    BY <1>0, <1>3 DEF Notify, TypeOK
  <2> QED BY <2>1, <2>2, <2>3 DEF IInv
<1>4. CASE CallFront \/ PollEmpty \/ PollSize
  <2>1. UNCHANGED <<queue, mutex, producer, held, signal>> /\ taking = "idle"
    BY <1>4 DEF CallFront, PollEmpty, PollSize
  <2>2. TypeOK'
    BY <1>0, <1>4, <2>1 DEF CallFront, PollEmpty, PollSize, TypeOK, producer
  <2>3. MutexInv' /\ HeldInv' /\ WaitInv' /\ NeverUndefined'
    BY <1>0, <1>4, <2>1 DEF CallFront, PollEmpty, PollSize, producer
  <2>4. SeenInv'
    <3>1. CASE CallFront \/ PollEmpty
      BY <1>0, <2>1, <3>1 DEF CallFront, PollEmpty, producer
    <3>2. CASE PollSize /\ taking' = "drop"
      <4>1. PICK s \in Sizes : s > 1
        BY <3>2 DEF PollSize
      <4>2. Len(queue) + (IF HalfPushed THEN 1 ELSE 0) > 1
        BY <1>0, <4>1 DEF Sizes, TypeOK
      <4> QED BY <1>0, <2>1, <3>2, <4>2 DEF PollSize, producer
    <3>3. CASE PollSize /\ taking' = "dropTorn"
      BY <1>0, <2>1, <3>3 DEF PollSize, producer
    <3> QED BY <1>4, <3>1, <3>2, <3>3 DEF PollSize
  <2> QED BY <2>2, <2>3, <2>4 DEF IInv
<1>5. CASE LockFront
  BY <1>0, <1>5 DEF LockFront, TypeOK, producer, IInv
<1>6. CASE Test
  <2>1. queue # <<>> => Head(queue) \in Items
    BY <1>0, TailFacts DEF TypeOK
  <2>2. ~HalfPushed
    BY <1>0, <1>6 DEF Test
  <2>3. TypeOK'
    BY <1>0, <1>6, <2>1 DEF Test, TypeOK, producer
  <2>4. MutexInv'
    BY <1>0, <1>6, <2>2 DEF Test, producer, TypeOK
  <2>5. HeldInv' /\ NeverUndefined' /\ SeenInv' /\ WaitInv'
    BY <1>0, <1>6, <2>2 DEF Test, producer, TypeOK
  <2> QED BY <2>3, <2>4, <2>5 DEF IInv
<1>7. CASE Pop
  <2>1. ~HalfPushed
    BY <1>0, <1>7 DEF Pop
  <2>2. queue # <<>>
    BY <1>0, <1>7, <2>1 DEF Pop, TypeOK
  <2>3. queue' = Tail(queue) /\ queue' \in Seq(Items) /\ taking' = "idle"
    BY <1>0, <1>7, <2>2, TailFacts DEF Pop, TypeOK
  <2> QED BY <1>0, <1>7, <2>1, <2>3 DEF Pop, TypeOK, producer, IInv
<1>8. CASE Wake
  BY <1>0, <1>8 DEF Wake, TypeOK, producer, IInv
<1>9. CASE UNCHANGED vars
  BY <1>0, <1>9 DEF vars, producer, consumer, TypeOK, IInv
<1> QED BY <1>1, <1>2, <1>3, <1>4, <1>5, <1>6, <1>7, <1>8, <1>9
        DEF Next, Consume

\* The invariant holds in every reachable state.
THEOREM Invariance == Spec => []IInv
<1> QED BY InitInv, NextInv, PTL DEF Spec

\* pop never meets an empty queue.
THEOREM PopDefined == Spec => []NeverUndefined
<1>1. IInv => NeverUndefined
  BY DEF IInv
<1> QED BY <1>1, Invariance, PTL

\* front does not wait after isEmpty has said that there is an item.
THEOREM PollingNeverWaits == Spec => []NoFrameWaits
<1>1. IInv => NoFrameWaits
  BY DEF IInv, SeenInv, NoFrameWaits
<1> QED BY <1>1, Invariance, PTL

\* A push between the consumer's test and its wait is not missed.
THEOREM WakeupsKept == Spec => []NoLostWakeup
<1>1. IInv => NoLostWakeup
  BY DEF IInv, WaitInv
<1> QED BY <1>1, Invariance, PTL

\* The loop that drops positions leaves the newest one, if getSize returned a size
\* that the queue had.
THEOREM DroppingKeepsNewest == Spec => NewestKept
<1>1. IInv /\ [Next]_vars =>
        [(taking = "drop" /\ queue' # queue /\ taking' = "idle") => queue' # <<>>]_vars
  <2> SUFFICES ASSUME IInv, [Next]_vars,
                      taking = "drop", queue' # queue, taking' = "idle"
               PROVE  queue' # <<>>
    OBVIOUS
  <2>1. Pop
    BY DEF Next, Consume, Lock, Put, Notify, CallFront, PollEmpty, PollSize,
       LockFront, Test, Wake, vars, consumer
  <2>2. ~HalfPushed /\ TypeOK
    BY <2>1 DEF Pop, IInv, MutexInv, HalfPushed, TypeOK
  <2>3. Len(queue) > 1 /\ queue # <<>> /\ queue' = Tail(queue)
    BY <2>1, <2>2 DEF Pop, IInv, SeenInv, TypeOK
  <2>4. Tail(queue) = <<>> => Len(queue) = 1
    BY <2>2, <2>3, TailFacts DEF TypeOK
  <2>5. Len(queue) # 1
    BY SMTT(20), <2>3
  <2> QED BY <2>3, <2>4, <2>5
<1> QED BY <1>1, Invariance, PTL DEF Spec, NewestKept

\* The queue with its mutex and its condition variable is a FIFO queue.
THEOREM FifoKept == Spec => KeepsFifo
<1>1. Init => Fifo!Init
  BY DEF Init, Fifo!Init
<1>2. IInv /\ [Next]_vars => [Fifo!Next]_<<queue, held>>
  <2> SUFFICES ASSUME IInv, [Next]_vars, ~UNCHANGED <<queue, held>>
               PROVE  Fifo!Next
    OBVIOUS
  <2>0. TypeOK /\ MutexInv /\ HeldInv /\ SeenInv
    BY DEF IInv
  <2>1. ASSUME NEW p \in Producers, Put(p) PROVE Fifo!Next
    <3>1. PICK i \in Items : queue' = Append(queue, i)
      BY <2>0, <2>1, PutEffect
    <3>2. Fifo!Add(i)
      BY <2>1, <3>1 DEF Put, consumer, Fifo!Add
    <3> QED BY <3>2 DEF Fifo!Next
  <2>2. CASE Test
    <3>1. Fifo!Look
      BY <2>0, <2>2 DEF Test, HeldInv, Fifo!Look
    <3> QED BY <3>1 DEF Fifo!Next
  <2>3. CASE Pop
    <3>1. queue # <<>>
      BY <2>0, <2>3 DEF Pop, MutexInv, SeenInv, HeldInv, HalfPushed, TypeOK
    <3>2. Fifo!Remove
      BY <2>0, <2>3, <3>1 DEF Pop, HeldInv, Fifo!Remove
    <3> QED BY <3>2 DEF Fifo!Next
  <2>4. \/ \E p \in Producers : Put(p)
        \/ Test \/ Pop
    BY DEF Next, Consume, Lock, Notify, CallFront, PollEmpty, PollSize,
       LockFront, Wake, vars, consumer
  <2> QED BY <2>1, <2>2, <2>3, <2>4
<1> QED BY <1>1, <1>2, Invariance, PTL DEF Spec, KeepsFifo, Fifo!Spec
=============================================================================
