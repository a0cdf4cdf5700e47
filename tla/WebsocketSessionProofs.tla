----------------------- MODULE WebsocketSessionProofs -----------------------
(***************************************************************************)
(* Proofs about WebsocketSession, for any numbers of moves, colors and     *)
(* texts.                                                                  *)
(***************************************************************************)
EXTENDS WebsocketSessionInv, TLAPS

USE BoundAssumption

-----------------------------------------------------------------------------
\* The two ends of the queue.
LEMMA AppendFacts ==
  ASSUME NEW f \in Frames, queue \in Seq(Frames), queue' = Append(queue, f)
  PROVE  /\ queue' \in Seq(Frames) /\ queue' # <<>>
         /\ Len(queue) \in Nat /\ Len(queue') = Len(queue) + 1
         /\ \A i \in 1..Len(queue) : queue'[i] = queue[i]
         /\ queue'[Len(queue) + 1] = f
OBVIOUS

LEMMA TailFacts ==
  ASSUME queue \in Seq(Frames), queue # <<>>, queue' = Tail(queue)
  PROVE  /\ queue' \in Seq(Frames)
         /\ Len(queue) \in Nat /\ Len(queue) > 0
         /\ Len(queue') = Len(queue) - 1
         /\ \A i \in 1..Len(queue') : queue'[i] = queue[i + 1]
OBVIOUS

LEMMA FrameFacts ==
  /\ \A k \in {"none", "empty", "pos", "color", "text"}, p, c \in Nat :
       /\ Frame(k, p, c) \in Frames
       /\ Frame(k, p, c).kind = k
       /\ Frame(k, p, c).pos = p
  /\ Empty \in Frames /\ Empty.kind = "empty"
  /\ NoFrame \in Frames /\ NoFrame.kind = "none"
BY DEF Frame, Frames, Empty, NoFrame

\* Writing a frame moves the car the peers see only if it carries a position.
LEMMA ShownFacts ==
  ASSUME NEW f \in Frames, shown \in [pos : Nat, color : Nat]
  PROVE  /\ Shown(f) \in [pos : Nat, color : Nat]
         /\ Shown(f).pos = IF f.kind = "pos" THEN f.pos ELSE shown.pos
BY DEF Shown, Frames

LEMMA InitInv == Init => IInv
<1> SUFFICES ASSUME Init PROVE IInv
  OBVIOUS
<1>1. queue = <<>> /\ Len(queue) = 0 /\ queue \in Seq(Frames)
  BY DEF Init
<1>2. TypeOK
  BY <1>1, FrameFacts DEF Init, TypeOK, ReaderLabels
<1>3. StageInv /\ LinkInv /\ KindInv /\ WaitInv /\ LastInv
  BY <1>1, FrameFacts DEF Init, StageInv, LinkInv, KindInv, WaitInv,
     LastInv, PosAt
<1> QED
  BY <1>2, <1>3 DEF IInv

-----------------------------------------------------------------------------
\* Steps that leave alone the queue, what was queued and what is shown.
LEMMA IdleKeeps ==
  ASSUME IInv, TypeOK', StageInv' /\ LinkInv',
         UNCHANGED <<queue, car, queued, shown>>,
         direct'.kind # "pos",
         writer' = writer \/ (writer' \in {"front", "write"}
                              /\ writer # "pop"
                              /\ (writer' = "write" => queue # <<>>)),
         link' = "down" \/ link' = link \/ link # "down"
  PROVE  IInv'
<1>1. KindInv'
  BY DEF IInv, KindInv
<1>2. WaitInv'
  BY DEF IInv, WaitInv, PosAt
<1>3. LastInv'
  BY DEF IInv, LastInv, PosAt
<1> QED
  BY <1>1, <1>2, <1>3 DEF IInv

LEMMA PositionKeeps ==
  ASSUME IInv, SendPosition
  PROVE  IInv'
<1> USE DEF IInv
<1>1. CASE ~CanSend
  <2>1. /\ car' = car + 1 /\ car \in Nat /\ queued \in Nat /\ queued <= car
        /\ UNCHANGED <<connected, threads, game, reader, writer, leftAt,
                       joining, direct, partial, link, color, texts, shown,
                       queue, queued>>
    BY <1>1 DEF SendPosition, TypeOK, WaitInv
  <2>2. TypeOK'
    BY <2>1 DEF TypeOK
  <2>3. StageInv' /\ LinkInv' /\ KindInv' /\ LastInv'
    BY <2>1 DEF StageInv, LinkInv, KindInv, LastInv, PosAt
  <2>4. WaitInv'
    BY <2>1 DEF WaitInv, PosAt
  <2> QED
    BY <2>2, <2>3, <2>4
<1>2. CASE CanSend
  <2> DEFINE f == Frame("pos", car + 1, color)
  <2>0. PICK n \in Nat : n = Len(queue)
    BY DEF TypeOK
  <2>1. /\ car' = car + 1 /\ queued' = car + 1 /\ queue' = Append(queue, f)
        /\ car \in Nat /\ queued \in Nat /\ queued <= car /\ shown.pos \in Nat
        /\ UNCHANGED <<connected, threads, game, reader, writer, leftAt,
                       joining, direct, partial, link, color, texts, shown>>
    BY <1>2 DEF SendPosition, TypeOK, WaitInv
  <2>2. f \in Frames /\ f.kind = "pos" /\ f.pos = car + 1
    BY SMTT(40), <2>1, FrameFacts DEF TypeOK
  <2> HIDE DEF f
  <2>3. queue \in Seq(Frames)
    BY DEF TypeOK
  <2>4. /\ queue' \in Seq(Frames) /\ queue' # <<>>
        /\ n \in Nat /\ Len(queue') = n + 1
        /\ \A i \in 1..n : queue'[i] = queue[i]
        /\ queue'[n + 1] = f
    BY <2>0, <2>1, <2>2, <2>3, AppendFacts
  <2>5. 1..Len(queue') = 1..n \cup {n + 1}
    BY <2>4
  <2>6. \A i \in 1..n : /\ PosAt(i)' <=> PosAt(i)
                        /\ PosAt(i) => queue[i].pos \in Nat
    <3>1. \A i \in 1..n : queue[i] \in Frames
      BY <2>0, <2>3
    <3> QED
      BY <2>0, <2>4, <2>5, <3>1 DEF PosAt, Frames
  <2>7. PosAt(n + 1)'
    BY <2>2, <2>4 DEF PosAt
  <2>8. TypeOK'
    BY <2>1, <2>4 DEF TypeOK
  <2>9. StageInv' /\ LinkInv' /\ KindInv'
    BY <2>0, <2>1, <2>2, <2>4, <2>5 DEF StageInv, LinkInv, KindInv
  <2>10. WaitInv'
    <3>1. \A i \in 1..n : PosAt(i) => queue[i].pos <= queued
      BY <2>0 DEF WaitInv
    <3>2. ASSUME NEW i \in 1..Len(queue'), NEW j \in 1..Len(queue'),
                 PosAt(i)', PosAt(j)', i < j
          PROVE  queue'[i].pos < queue'[j].pos
      <4>1. CASE j = n + 1
        BY <2>1, <2>2, <2>4, <2>5, <2>6, <3>1, <3>2, <4>1
      <4>2. CASE j \in 1..n
        <5>1. i \in 1..n
          BY <2>4, <2>5, <3>2, <4>2
        <5> QED
          BY <2>0, <2>4, <2>6, <3>2, <4>2, <5>1 DEF WaitInv
      <4> QED
        BY <2>5, <4>1, <4>2
    <3>3. ASSUME NEW i \in 1..Len(queue'), PosAt(i)'
          PROVE  /\ queue'[i].pos <= queued'
                 /\ shown'.pos <= queue'[i].pos
                 /\ shown'.pos = queue'[i].pos => i = 1 /\ writer' = "pop"
      <4>1. CASE i = n + 1
        BY <2>1, <2>2, <2>4, <4>1 DEF WaitInv
      <4>2. CASE i \in 1..n
        BY <2>0, <2>1, <2>4, <2>6, <3>3, <4>2 DEF WaitInv
      <4> QED
        BY <2>5, <4>1, <4>2
    <3>4. shown'.pos <= queued' /\ queued' <= car'
      BY <2>1 DEF WaitInv
    <3> QED
      BY <3>2, <3>3, <3>4 DEF WaitInv
  <2>11. LastInv'
    <3>1. \E i \in 1..Len(queue') : PosAt(i)' /\ queue'[i].pos = queued'
      BY <2>1, <2>2, <2>4, <2>5, <2>7
    <3>2. ASSUME writer' = "pop", link' # "down"
          PROVE  PosAt(1)' => queue'[1].pos = shown'.pos
      <4>1. 1 \in 1..n
        BY <2>0, <2>1, <2>3, <3>2 DEF KindInv
      <4> QED
        BY <2>1, <2>4, <2>6, <3>2, <4>1 DEF LastInv
    <3> QED
      BY <3>1, <3>2 DEF LastInv
  <2> QED
    BY <2>8, <2>9, <2>10, <2>11
<1> QED
  BY <1>1, <1>2

\* The string that wakes workerWrite carries no position.
LEMMA EmptyKeeps ==
  ASSUME IInv, PushEmpty
  PROVE  IInv'
<1> USE DEF IInv
<1>0. PICK n \in Nat : n = Len(queue)
  BY DEF TypeOK
<1>1. /\ queue' = Append(queue, Empty) /\ joining' = threads /\ game' = "join"
      /\ UNCHANGED <<connected, threads, reader, writer, leftAt, direct,
                     partial, link, car, color, texts, queued, shown>>
  BY DEF PushEmpty
<1>2. queue \in Seq(Frames)
  BY DEF TypeOK
<1>3. /\ queue' \in Seq(Frames) /\ queue' # <<>>
      /\ n \in Nat /\ Len(queue') = n + 1
      /\ \A i \in 1..n : queue'[i] = queue[i]
      /\ queue'[n + 1] = Empty
  BY <1>0, <1>1, <1>2, FrameFacts, AppendFacts
<1>4. 1..Len(queue') = 1..n \cup {n + 1}
  BY <1>3
<1>5. \A i \in 1..Len(queue') : PosAt(i)' <=> i \in 1..n /\ PosAt(i)
  BY <1>0, <1>3, <1>4, FrameFacts DEF PosAt
<1>6. TypeOK'
  BY <1>1, <1>3 DEF TypeOK
<1>7. StageInv' /\ LinkInv' /\ KindInv'
  <2>1. \A i \in 1..n : queue'[i].kind \in {"pos", "empty"}
    BY <1>0, <1>3 DEF KindInv
  <2>2. queue'[n + 1].kind = "empty"
    BY <1>3, FrameFacts
  <2> QED
    BY <1>1, <1>3, <1>4, <2>1, <2>2 DEF StageInv, LinkInv, KindInv
<1>8. WaitInv'
  BY <1>0, <1>1, <1>3, <1>4, <1>5 DEF WaitInv
<1>9. LastInv'
  <2>1. 1 \in 1..Len(queue')
    BY <1>3
  <2>2. PosAt(1)' => PosAt(1) /\ queue'[1] = queue[1]
    BY <1>3, <1>5, <2>1
  <2>3. \A i \in 1..n : PosAt(i) => PosAt(i)' /\ queue'[i] = queue[i]
    BY <1>3, <1>4, <1>5
  <2> QED
    BY <1>0, <1>1, <1>4, <2>2, <2>3 DEF LastInv
<1> QED
  BY <1>6, <1>7, <1>8, <1>9

LEMMA WriteKeeps ==
  ASSUME IInv, WriteFrame
  PROVE  IInv'
<1> USE DEF IInv
<1>1. /\ writer = "write" /\ writer' = "pop" /\ queue # <<>>
      /\ UNCHANGED <<connected, queue, threads, game, reader, leftAt, joining,
                     direct, partial, link, car, color, texts, queued>>
  BY DEF WriteFrame, KindInv
<1>2. /\ queue \in Seq(Frames) /\ Head(queue) \in Frames
      /\ Head(queue) = queue[1] /\ 1 \in 1..Len(queue)
      /\ \A i \in 1..Len(queue) : queue[i].pos \in Nat
  <2>1. queue \in Seq(Frames)
    BY DEF TypeOK
  <2>2. \A i \in 1..Len(queue) : queue[i] \in Frames
    BY <2>1
  <2>3. Head(queue) = queue[1] /\ 1 \in 1..Len(queue)
    BY <1>1, <2>1
  <2> QED
    BY <2>1, <2>2, <2>3 DEF Frames
<1>3. /\ shown' \in [pos : Nat, color : Nat]
      /\ shown'.pos = IF link = "up" /\ PosAt(1) THEN queue[1].pos
                                                ELSE shown.pos
  BY <1>2, ShownFacts DEF WriteFrame, TypeOK, PosAt
<1>4. TypeOK'
  BY <1>1, <1>3 DEF TypeOK
<1>5. StageInv' /\ LinkInv' /\ KindInv'
  BY <1>1 DEF StageInv, LinkInv, KindInv
<1>6. WaitInv'
  <2>1. ASSUME NEW i \in 1..Len(queue), PosAt(i)
        PROVE  /\ shown'.pos <= queue[i].pos
               /\ shown'.pos = queue[i].pos => i = 1
    <3>1. shown.pos < queue[i].pos /\ shown.pos \in Nat
      BY <1>1, <1>2, <2>1 DEF WaitInv, TypeOK
    <3>2. CASE i = 1
      BY <1>2, <1>3, <3>1, <3>2
    <3>3. CASE i > 1
      <4>1. PosAt(1) => queue[1].pos < queue[i].pos
        BY <1>2, <2>1, <3>3 DEF WaitInv
      <4> QED
        BY <1>2, <1>3, <3>1, <4>1
    <3> QED
      BY <3>2, <3>3
  <2>2. shown'.pos <= queued
    BY <1>2, <1>3 DEF WaitInv
  <2> QED
    BY <1>1, <2>1, <2>2 DEF WaitInv, PosAt
<1>7. LastInv'
  <2>1. ASSUME link # "down"
        PROVE  /\ PosAt(1) => queue[1].pos = shown'.pos
               /\ queued = shown'.pos
                  \/ \E i \in 1..Len(queue) : PosAt(i) /\ queue[i].pos = queued
    <3>1. CASE link = "up" /\ PosAt(1)
      <4>1. queue[1].pos <= queued /\ shown.pos < queue[1].pos
        BY <1>1, <1>2, <3>1 DEF WaitInv, TypeOK
      <4>2. queued # shown.pos
        BY <1>2, <4>1 DEF TypeOK
      <4> QED
        BY <1>3, <2>1, <3>1, <4>2 DEF LastInv
    <3>2. CASE link = "up" /\ ~PosAt(1)
      BY <1>3, <2>1, <3>2 DEF LastInv
    <3>3. CASE link = "none"
      BY <1>1, <3>3 DEF StageInv, LinkInv
    <3> QED
      BY <2>1, <3>1, <3>2, <3>3 DEF TypeOK
  <2> QED
    BY <1>1, <2>1 DEF LastInv, PosAt
<1> QED
  BY <1>4, <1>5, <1>6, <1>7

LEMMA PopKeeps ==
  ASSUME IInv, Pop
  PROVE  IInv'
<1> USE DEF IInv
<1>1. /\ writer = "pop" /\ writer' \in {"front", "done"} /\ queue # <<>>
      /\ queue' = Tail(queue) /\ queue \in Seq(Frames)
      /\ UNCHANGED <<connected, threads, game, reader, leftAt, joining, direct,
                     partial, link, car, color, texts, queued, shown>>
  BY DEF Pop, KindInv, TypeOK
<1>2. PICK n \in Nat : n = Len(queue')
  <2>1. queue' \in Seq(Frames)
    BY <1>1, TailFacts
  <2>2. Len(queue') \in Nat
    BY <2>1
  <2> QED
    BY <2>2
<1>3. /\ queue' \in Seq(Frames) /\ Len(queue) = n + 1
      /\ \A i \in 1..n : queue'[i] = queue[i + 1]
      /\ \A i \in 1..n : i + 1 \in 1..Len(queue)
  BY <1>1, <1>2, TailFacts
<1>4. \A i \in 1..n : PosAt(i)' <=> PosAt(i + 1)
  BY <1>2, <1>3 DEF PosAt
<1>5. TypeOK'
  BY <1>1, <1>3 DEF TypeOK
<1>6. StageInv' /\ LinkInv' /\ KindInv'
  BY <1>1, <1>2, <1>3 DEF StageInv, LinkInv, KindInv
<1>7. WaitInv'
  <2>1. ASSUME NEW i \in 1..n, NEW j \in 1..n, PosAt(i)', PosAt(j)', i < j
        PROVE  queue'[i].pos < queue'[j].pos
    <3>1. /\ i + 1 \in 1..Len(queue) /\ j + 1 \in 1..Len(queue)
          /\ queue'[i] = queue[i + 1] /\ queue'[j] = queue[j + 1]
      BY <1>3
    <3>2. PosAt(i + 1) /\ PosAt(j + 1)
      BY <1>4, <2>1
    <3>3. i + 1 < j + 1
      BY <2>1
    <3>4. queue[i + 1].pos < queue[j + 1].pos
      BY <3>1, <3>2, <3>3 DEF WaitInv
    <3> QED
      BY <3>1, <3>4
  <2>2. ASSUME NEW i \in 1..n, PosAt(i)'
        PROVE  /\ queue'[i].pos <= queued
               /\ shown.pos <= queue'[i].pos
               /\ shown.pos # queue'[i].pos
    <3>1. i + 1 \in 1..Len(queue) /\ queue'[i] = queue[i + 1] /\ i + 1 # 1
      BY <1>3
    <3>2. PosAt(i + 1)
      BY <1>4, <2>2
    <3>3. /\ queue[i + 1].pos <= queued /\ shown.pos <= queue[i + 1].pos
          /\ shown.pos # queue[i + 1].pos
      BY <3>1, <3>2 DEF WaitInv
    <3> QED
      BY <3>1, <3>3
  <2>3. shown.pos <= queued /\ queued <= car
    BY DEF WaitInv
  <2> QED
    BY <1>1, <1>2, <2>1, <2>2, <2>3 DEF WaitInv
<1>8. LastInv'
  <2>1. ASSUME link # "down", queued # shown.pos
        PROVE  \E i \in 1..n : PosAt(i)' /\ queue'[i].pos = queued
    <3>1. PICK j \in 1..Len(queue) : PosAt(j) /\ queue[j].pos = queued
      BY <2>1 DEF LastInv
    <3>2. j # 1
      BY <1>1, <2>1, <3>1 DEF LastInv
    <3>3. j - 1 \in 1..n /\ (j - 1) + 1 = j
      BY <1>3, <3>1, <3>2
    <3> QED
      BY <1>3, <1>4, <3>1, <3>3
  <2> QED
    BY <1>1, <1>2, <2>1 DEF LastInv
<1> QED
  BY <1>5, <1>6, <1>7, <1>8

\* Writing a color or a text moves no car.
LEMMA DirectKeeps ==
  ASSUME IInv, DirectWritten
  PROVE  IInv'
<1> USE DEF IInv
<1>1. /\ direct' = NoFrame /\ game' = "play" /\ direct.kind # "pos"
      /\ shown' \in [pos : Nat, color : Nat] /\ shown'.pos = shown.pos
      /\ UNCHANGED <<connected, queue, threads, reader, writer, leftAt,
                     joining, partial, link, car, color, texts, queued>>
  BY ShownFacts DEF DirectWritten, TypeOK, KindInv
<1>2. TypeOK'
  BY <1>1, FrameFacts DEF TypeOK
<1>3. StageInv' /\ LinkInv' /\ KindInv'
  BY <1>1, FrameFacts DEF StageInv, LinkInv, KindInv
<1>4. WaitInv'
  BY <1>1 DEF WaitInv, PosAt
<1>5. LastInv'
  BY <1>1 DEF LastInv, PosAt
<1> QED
  BY <1>2, <1>3, <1>4, <1>5

-----------------------------------------------------------------------------
\* The steps in which nothing is queued, popped or written.
LEMMA OtherKeeps ==
  ASSUME IInv,
         \/ SendColorUpdate \/ SendTextMessage \/ CloseConnection
         \/ Join \/ Close \/ ReaderStep \/ Front \/ LinkBreaks
         \/ UNCHANGED vars
  PROVE  IInv'
<1> USE DEF IInv
<1>1. CASE SendColorUpdate
  <2>1. TypeOK' /\ direct'.kind # "pos"
    BY <1>1, FrameFacts DEF SendColorUpdate, TypeOK, KindInv
  <2> QED
    BY <1>1, <2>1, IdleKeeps DEF SendColorUpdate, StageInv, LinkInv
<1>2. CASE SendTextMessage
  <2>1. TypeOK' /\ direct'.kind # "pos"
    BY <1>2, FrameFacts DEF SendTextMessage, TypeOK, KindInv
  <2> QED
    BY <1>2, <2>1, IdleKeeps DEF SendTextMessage, StageInv, LinkInv
<1>3. CASE CloseConnection \/ Join \/ Close \/ Front \/ LinkBreaks
  <2>1. TypeOK'
    BY <1>3 DEF CloseConnection, Join, Close, Front, LinkBreaks, TypeOK
  <2>2. StageInv' /\ LinkInv' /\ direct'.kind # "pos"
    BY <1>3 DEF CloseConnection, Join, Close, Front, LinkBreaks, StageInv,
       LinkInv, KindInv
  <2> QED
    BY <1>3, <2>1, <2>2, IdleKeeps
       DEF CloseConnection, Join, Close, Front, LinkBreaks
<1>4. CASE ReaderStep
  <2>1. TypeOK'
    BY ZenonT(40), <1>4 DEF ReaderStep, Connect, SetConnected, StartWriter, ReadPart,
       ReadRest, ReadFails, NextRead, TypeOK, ReaderLabels
  <2>2. StageInv' /\ LinkInv' /\ direct'.kind # "pos"
    BY <1>4 DEF ReaderStep, Connect, SetConnected, StartWriter, ReadPart,
       ReadRest, ReadFails, NextRead, StageInv, LinkInv, KindInv
  <2>3. /\ UNCHANGED <<queue, car, queued, shown>>
        /\ writer' = writer \/ (writer' = "front" /\ writer = "none")
        /\ link' = link \/ link # "down"
    BY <1>4 DEF ReaderStep, Connect, SetConnected, StartWriter, ReadPart,
       ReadRest, ReadFails, StageInv, LinkInv, TypeOK
  <2> QED
    BY <2>1, <2>2, <2>3, IdleKeeps
<1>5. CASE UNCHANGED vars
  <2>1. TypeOK' /\ StageInv' /\ LinkInv' /\ direct'.kind # "pos"
    BY <1>5 DEF vars, TypeOK, StageInv, LinkInv, KindInv
  <2> QED
    BY <1>5, <2>1, IdleKeeps DEF vars
<1> QED
  BY <1>1, <1>2, <1>3, <1>4, <1>5

LEMMA NextInv == IInv /\ [Next]_vars => IInv'
BY PositionKeeps, EmptyKeeps, WriteKeeps, PopKeeps, DirectKeeps, OtherKeeps
   DEF Next, GameStep, WriterStep

\* Every reachable state satisfies the inductive invariant.
THEOREM Invariance == Spec => []IInv
BY InitInv, NextInv, PTL DEF Spec

\* Between the game's thread and the wire no position is lost.
THEOREM NothingLost == Spec => []QueueDelivered
<1>1. IInv => QueueDelivered
  BY DEF IInv, LastInv, QueueDelivered
<1> QED
  BY <1>1, Invariance, PTL

\* The peers never see the car of this client go back.
THEOREM CarGoesForward == Spec => PositionsForward
<1>1. IInv /\ [Next]_vars => [shown'.pos >= shown.pos]_vars
  <2> SUFFICES ASSUME IInv, [Next]_vars PROVE shown'.pos >= shown.pos
    OBVIOUS
  <2>1. shown.pos \in Nat
    BY DEF IInv, TypeOK
  <2>2. CASE WriteFrame
    <3>1. queue # <<>> /\ queue \in Seq(Frames) /\ writer = "write"
      BY <2>2 DEF IInv, KindInv, WriteFrame, TypeOK
    <3>2. Head(queue) = queue[1] /\ 1 \in 1..Len(queue) /\ Head(queue) \in Frames
      BY <3>1
    <3>3. PosAt(1) => queue[1].pos >= shown.pos
      BY <2>1, <3>2 DEF IInv, WaitInv, PosAt, Frames
    <3> QED
      BY <2>1, <2>2, <3>2, <3>3, ShownFacts
         DEF WriteFrame, PosAt, IInv, TypeOK
  <2>3. CASE DirectWritten
    BY <2>1, <2>3, ShownFacts DEF DirectWritten, IInv, KindInv, TypeOK
  <2>4. CASE ~WriteFrame /\ ~DirectWritten
    <3>1. shown' = shown
      BY <2>4 DEF Next, GameStep, ReaderStep, WriterStep, SendPosition,
         SendColorUpdate, SendTextMessage, CloseConnection, PushEmpty, Join,
         Close, Connect, SetConnected, StartWriter, ReadPart, ReadRest,
         ReadFails, Front, Pop, LinkBreaks, vars
    <3> QED
      BY <2>1, <3>1
  <2> QED
    BY <2>2, <2>3, <2>4
<1> QED
  BY <1>1, Invariance, PTL DEF Spec, PositionsForward

-----------------------------------------------------------------------------
\* Wherever workerRead is when the player leaves, closeConnection joins every
\* worker that is in the list by then, and none of them waits for ever for a
\* frame unless the session is on again.
THEOREM AllJoined == Spec => []LeaveInv
<1>1. Init => LeaveInv
  BY DEF Init, LeaveInv, OnInv, JoinInv, Leaving, NoOrphans
<1>2. IInv /\ LeaveInv /\ [Next]_vars => LeaveInv'
  <2> SUFFICES ASSUME IInv, LeaveInv, [Next]_vars PROVE LeaveInv'
    OBVIOUS
  <2> USE DEF LeaveInv, OnInv, JoinInv, Leaving, NoOrphans
  <2>0. TypeOK /\ StageInv
    BY DEF IInv
  <2>1. CASE SendPosition
    <3>1. queue # <<>> => queue' # <<>>
      BY <2>1, <2>0, FrameFacts, AppendFacts DEF SendPosition, TypeOK
    <3> QED
      BY <2>1, <3>1 DEF SendPosition
  <2>2. CASE SendColorUpdate \/ SendTextMessage
    BY <2>2 DEF SendColorUpdate, SendTextMessage
  <2>3. CASE CloseConnection
    BY <2>0, <2>3 DEF CloseConnection, TypeOK, StageInv, ReaderLabels
  <2>4. CASE DirectWritten
    BY <2>4 DEF DirectWritten
  <2>5. CASE Join
    BY <2>5 DEF Join
  <2>6. CASE Close
    BY <2>0, <2>6 DEF Close, TypeOK, StageInv, ReaderLabels
  <2>7. CASE Connect
    BY <2>7 DEF Connect
  <2>8. CASE SetConnected
    BY <2>8 DEF SetConnected
  <2>9. CASE StartWriter
    <3>1. /\ reader = "spawn" /\ reader' = "read" /\ writer = "none"
          /\ game # "closed" /\ leftAt \notin {"read", "done"}
          /\ "write" \in threads' /\ writer' = "front"
          /\ UNCHANGED <<connected, queue, game, joining, leftAt>>
      BY <2>0, <2>9 DEF StartWriter, StageInv
    <3>2. OnInv'
      BY <3>1
    <3>3. game = "join" => leftAt \in {"connect", "flag", "spawn"}
      BY <3>1, <2>0 DEF TypeOK, ReaderLabels
    <3> QED
      BY <3>1, <3>2, <3>3
  <2>10. CASE ReadPart \/ ReadRest \/ ReadFails
    BY <2>10 DEF ReadPart, ReadRest, ReadFails, NextRead
  <2>11. CASE Front \/ WriteFrame \/ Pop
    BY <2>0, <2>11 DEF Front, WriteFrame, Pop, StageInv
  <2>12. CASE LinkBreaks \/ UNCHANGED vars
    BY <2>12 DEF LinkBreaks, vars
  <2>13. CASE PushEmpty
    <3>1. queue' # <<>>
      BY <2>13, <2>0, FrameFacts, AppendFacts DEF PushEmpty, TypeOK
    <3> QED
      BY <2>13, <3>1 DEF PushEmpty
  <2> QED
    BY <2>1, <2>2, <2>3, <2>4, <2>5, <2>6, <2>7, <2>8, <2>9, <2>10, <2>11,
       <2>12, <2>13 DEF Next, GameStep, ReaderStep, WriterStep
<1> QED
  BY <1>1, <1>2, Invariance, PTL DEF Spec

\* No worker that closeConnection knows of uses the session after it has
\* returned.
THEOREM NobodyLeft == Spec => []NoOrphans
<1>1. LeaveInv => NoOrphans
  BY DEF LeaveInv, JoinInv
<1> QED
  BY AllJoined, <1>1, PTL

\* While the session stays off, closeConnection waits for no worker that waits
\* for a frame.
THEOREM WriterWoken == Spec => []NobodyWaits
<1>1. LeaveInv => NobodyWaits
  BY DEF LeaveInv, JoinInv, NobodyWaits
<1> QED
  BY AllJoined, <1>1, PTL

\* Only a player who left before the connection was reported finds the session
\* turned on again.
THEOREM OnlyEarlyTurnsOn == Spec => []StaysOff
<1>1. IInv /\ LeaveInv => StaysOff
  BY DEF IInv, TypeOK, ReaderLabels, LeaveInv, OnInv, Leaving, StaysOff
<1> QED
  BY AllJoined, Invariance, <1>1, PTL
=============================================================================
