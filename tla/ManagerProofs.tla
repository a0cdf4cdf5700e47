--------------------------- MODULE ManagerProofs ---------------------------
(***************************************************************************)
(* Theorems about Manager, for any number of clients, events and joins.    *)
(***************************************************************************)
EXTENDS ManagerInv, TLAPS

-----------------------------------------------------------------------------
(***************************************************************************)
(* Goroutine names.                                                        *)
(***************************************************************************)

\* Every goroutine is the serveWS, the reader or the writer of its owner, and
\* no other goroutine; NoProc is none of them.
LEMMA ProcFacts ==
  /\ \A p \in Procs : Owner(p) \in Clients /\ p # NoProc
  /\ \A p \in Procs :
       p = Server(Owner(p)) \/ p = Reader(Owner(p)) \/ p = Writer(Owner(p))
  /\ \A c \in Clients : /\ Server(c) \in Procs /\ Owner(Server(c)) = c
                         /\ Reader(c) \in Procs /\ Owner(Reader(c)) = c
                         /\ Writer(c) \in Procs /\ Owner(Writer(c)) = c
  /\ \A c, d \in Clients : /\ Server(c) # Reader(d)
                            /\ Server(c) # Writer(d)
                            /\ Reader(c) # Writer(d)
BY DEF Procs, Roles, Owner, Server, Reader, Writer, NoProc

-----------------------------------------------------------------------------
(***************************************************************************)
(* Type correctness.                                                       *)
(***************************************************************************)

LEMMA TypeInit == Init => TypeOK
BY DEF Init, TypeOK, Labels, Kinds, NoOut, Out, NoFrame, Frame, NoNews, Heard

\* What a write does to told: nothing, or the message in hand becomes the
\* writer's client's news of the message's source.
LEMMA WrittenEffect ==
  ASSUME TypeOK, NEW c \in Clients, Written(c)
  PROVE  \/ told' = told
         \/ /\ writing[c].src \in Clients
            /\ told' = [told EXCEPT ![c][writing[c].src] =
                          Heard(writing[c].kind, writing[c].n,
                                @.left \/ writing[c].kind = "exit")]
BY DEF Written, TypeOK

\* The news of a write, client by client.
LEMMA WrittenNews ==
  ASSUME TypeOK, NEW c \in Clients, Written(c), NEW x \in Clients, NEW a \in Clients
  PROVE  \/ told'[x][a] = told[x][a]
         \/ /\ x = c /\ writing[c].src = a
            /\ told'[x][a].kind = writing[c].kind
            /\ told'[x][a].n = writing[c].n
            /\ told'[x][a].left = (told[x][a].left \/ writing[c].kind = "exit")
<1>1. CASE told' = told
  BY <1>1
<1>2. CASE told' # told
  <2> DEFINE b == writing[c].src
             l == told[c][b].left \/ writing[c].kind = "exit"
             h == Heard(writing[c].kind, writing[c].n, l)
  <2>1. b \in Clients /\ told' = [told EXCEPT ![c][b] = h]
    BY <1>2, WrittenEffect
  <2>2. told \in [Clients -> [Clients -> [kind : Kinds, n : Nat, left : BOOLEAN]]]
    BY DEF TypeOK
  <2>3. h.kind = writing[c].kind /\ h.n = writing[c].n /\ h.left = l
    <3> HIDE DEF l
    <3> QED
      BY DEF Heard
  <2> HIDE DEF h
  <2>4. \/ told'[x][a] = told[x][a]
        \/ x = c /\ a = b /\ told'[x][a] = h
    BY <2>1, <2>2
  <2> QED
    BY <2>3, <2>4
<1> QED
  BY <1>1, <1>2

\* Starting a walk keeps the types of what it sets.
LEMMA WalkTypes ==
  ASSUME TypeOK, NEW p \in Procs, NEW k \in Kinds, NEW n \in Nat,
         NEW t \in Clients \cup {NoClient}, StartWalk(p, Out(k, n, t))
  PROVE  /\ out' \in [Procs -> [kind : Kinds, n : Nat, to : Clients \cup {NoClient}]]
         /\ todo' \in [Procs -> SUBSET Clients]
         /\ pc' \in [Procs -> Labels]
<1>1. Out(k, n, t) \in [kind : Kinds, n : Nat, to : Clients \cup {NoClient}]
  BY DEF Out
<1>2. Recipients(Out(k, n, t), Owner(p)) \in SUBSET Clients
  BY DEF Recipients, TypeOK
<1> QED
  BY <1>1, <1>2 DEF StartWalk, TypeOK, Labels

LEMMA TypeNext == TypeOK /\ [Next]_vars => TypeOK'
<1> SUFFICES ASSUME TypeOK, [Next]_vars PROVE TypeOK'
  OBVIOUS
<1> USE DEF TypeOK
<1>1. ASSUME NEW p \in Procs, NEW x \in Clients, NextPeer(p, x) PROVE TypeOK'
  BY <1>1 DEF NextPeer, Labels
<1>2. ASSUME NEW p \in Procs, Deliver(p) PROVE TypeOK'
  BY <1>2, ProcFacts DEF Deliver, Labels, Frame
<1>3. ASSUME NEW p \in Procs, WalkDone(p) PROVE TypeOK'
  <2>1. NoOut \in [kind : Kinds, n : Nat, to : Clients \cup {NoClient}]
    BY DEF NoOut, Out, Kinds
  <2>2. pc' \in [Procs -> Labels] /\ lock' \in Procs \cup {NoProc}
    BY <1>3 DEF WalkDone, Labels
  <2> QED
    BY <1>3, <2>1, <2>2 DEF WalkDone
<1>4. ASSUME NEW p \in Procs, Lock(p) PROVE TypeOK'
  BY <1>4 DEF Lock, Labels
<1>5. ASSUME NEW p \in Procs, RemoveClient(p) PROVE TypeOK'
  <2> DEFINE o == Out("exit", 0, NoClient)
  <2>1. o \in [kind : Kinds, n : Nat, to : Clients \cup {NoClient}]
    BY DEF Out, Kinds
  <2>2. Recipients(o, Owner(p)) \ {Owner(p)} \in SUBSET Clients
    BY DEF Recipients
  <2>3. CASE Owner(p) \in clients
    <3> DEFINE R == Recipients(o, Owner(p)) \ {Owner(p)}
               c == Owner(p)
    <3>0. todo' = [q \in Procs |-> IF q = p THEN R ELSE todo[q] \ {c}]
      BY <1>5, <2>3 DEF RemoveClient
    <3>1. todo' \in [Procs -> SUBSET Clients]
      <4> HIDE DEF R
      <4>1. \A q \in Procs : todo[q] \ {c} \in SUBSET Clients
        OBVIOUS
      <4>2. R \in SUBSET Clients
        BY <2>2 DEF R
      <4> QED
        BY <3>0, <4>1, <4>2
    <3>3. /\ conn' = [conn EXCEPT ![c] = "closed"]
          /\ exits' = [exits EXCEPT ![c] = @ + 1]
          /\ c \in Clients
      BY <1>5, <2>3, ProcFacts DEF RemoveClient
    <3>2. out' \in [Procs -> [kind : Kinds, n : Nat,
           to : Clients \cup {NoClient}]]
      BY ZenonT(40), <1>5, <2>1, <2>3 DEF RemoveClient
    <3>4. /\ clients' \subseteq Clients
          /\ pc' \in [Procs -> Labels]
          /\ UNCHANGED <<lock, dst, writing, told, sent, last, color, up>>
      BY <1>5, <2>3 DEF RemoveClient, Labels
    <3>5. conn' \in [Clients -> {"none", "open", "mixed", "broken", "closed"}]
      BY <3>3
    <3>6. exits' \in [Clients -> Nat]
      BY <3>3
    <3> QED
      BY <3>1, <3>2, <3>4, <3>5, <3>6
  <2>4. CASE Owner(p) \notin clients
    BY <1>5, <2>4 DEF RemoveClient, Labels
  <2> QED
    BY <2>3, <2>4
<1>6. ASSUME NEW c \in Clients, AddClient(c) PROVE TypeOK'
  <2>1. todo' \in [Procs -> SUBSET Clients]
    BY <1>6 DEF AddClient
  <2> QED
    BY <1>6, <2>1 DEF AddClient, Labels
<1>7. ASSUME NEW c \in Clients, Announce(c) PROVE TypeOK'
  BY <1>7, ProcFacts, WalkTypes DEF Announce, Kinds
<1>8. ASSUME NEW c \in Clients, DebugWritten(c) PROVE TypeOK'
  BY <1>8 DEF DebugWritten, Labels
<1>9. ASSUME NEW c \in Clients, Tick(c) PROVE TypeOK'
  BY <1>9 DEF Tick, Labels, Frame, Kinds
<1>10. ASSUME NEW c \in Clients, Written(c) PROVE TypeOK'
  <2>1. told' \in [Clients -> [Clients -> [kind : Kinds, n : Nat, left : BOOLEAN]]]
    <3>1. \A b \in BOOLEAN : Heard(writing[c].kind, writing[c].n, b)
                               \in [kind : Kinds, n : Nat, left : BOOLEAN]
      BY DEF Heard
    <3>2. CASE told' # told
      <4> DEFINE a == writing[c].src
                 h == Heard(writing[c].kind, writing[c].n,
                            told[c][a].left \/ writing[c].kind = "exit")
      <4>1. a \in Clients /\ told' = [told EXCEPT ![c][a] = h]
        BY <1>10, <3>2, WrittenEffect
      <4>2. h \in [kind : Kinds, n : Nat, left : BOOLEAN]
        BY <3>1
      <4> QED
        BY ONLY <4>1, <4>2, TypeOK DEF TypeOK
    <3> QED
      BY <3>2
  <2> QED
    BY <1>10, <2>1 DEF Written, Labels, Frame, Kinds, NoFrame
<1>11. ASSUME NEW c \in Clients, WriteFails(c) PROVE TypeOK'
  BY <1>11 DEF WriteFails, Labels, Frame, Kinds, NoFrame
<1>12. ASSUME NEW c \in Clients, Upgrade(c) PROVE TypeOK'
  BY <1>12 DEF Upgrade, Labels
<1>13. ASSUME NEW c \in Clients, NEW k \in EventKinds, BroadcastEvent(c, k)
       PROVE TypeOK'
  <2>1. k \in Kinds /\ sent[c] + 1 \in Nat
    BY <1>13 DEF BroadcastEvent, Kinds
  <2>2. /\ sent' \in [Clients -> Nat]
        /\ last' \in [Clients -> Nat]
        /\ color' \in [Clients -> Nat]
    BY <1>13, <2>1 DEF BroadcastEvent, ReadEvent
  <2>3. StartWalk(Reader(c), Out(k, sent[c] + 1, NoClient))
    BY <1>13 DEF BroadcastEvent
  <2> QED
    BY <1>13, <2>1, <2>2, <2>3, ProcFacts, WalkTypes DEF BroadcastEvent
<1>14. ASSUME NEW c \in Clients, NEW t \in Clients, PrivateText(c, t)
       PROVE TypeOK'
  <2>1. "private" \in Kinds /\ sent[c] + 1 \in Nat
    BY DEF Kinds
  <2>2. sent' \in [Clients -> Nat]
    BY <1>14, <2>1 DEF PrivateText, ReadEvent
  <2>3. StartWalk(Reader(c), Out("private", sent[c] + 1, t))
    BY <1>14 DEF PrivateText
  <2> QED
    BY <1>14, <2>1, <2>2, <2>3, ProcFacts, WalkTypes DEF PrivateText
<1>15. ASSUME NEW c \in Clients, DebugEvent(c) PROVE TypeOK'
  <2>1. sent' \in [Clients -> Nat]
    BY <1>15 DEF DebugEvent, ReadEvent
  <2> QED
    BY <1>15, <2>1 DEF DebugEvent, Labels
<1>16. ASSUME NEW c \in Clients, IgnoredEvent(c) PROVE TypeOK'
  BY <1>16 DEF IgnoredEvent, ReadEvent
<1>17. ASSUME NEW c \in Clients, ReadFails(c) PROVE TypeOK'
  BY <1>17 DEF ReadFails, Labels
<1>18. ASSUME NEW c \in Clients, Disconnect(c) \/ MixFrames(c)
       PROVE  TypeOK'
  BY <1>18 DEF Disconnect, MixFrames
<1>19. CASE Crash
  BY <1>19 DEF Crash
<1>20. CASE UNCHANGED vars
  BY <1>20 DEF vars
<1> QED
  BY <1>1, <1>2, <1>3, <1>4, <1>5, <1>6, <1>7, <1>8, <1>9, <1>10, <1>11, <1>12,
     <1>13, <1>14, <1>15, <1>16, <1>17, <1>18, <1>19, <1>20
     DEF Next, Shared, ServerStep, WriterStep, Environment

\* Every variable of the server keeps the type of the Go value it stands for.
THEOREM TypeCorrect == Spec => []TypeOK
BY TypeInit, TypeNext, PTL DEF Spec

-----------------------------------------------------------------------------
(***************************************************************************)
(* What the steps that concern several goroutines do to each of them.      *)
(***************************************************************************)

\* A delivery moves its goroutine on, occupies the addressee's writer with the
\* message, and leaves every other goroutine where it is.
LEMMA DeliverEffect ==
  ASSUME TypeOK, RoleInv, WalkInv, NEW p \in Procs, Deliver(p)
  PROVE  /\ pc[p] = "send" /\ dst[p] \in Clients
         /\ p # Writer(dst[p]) /\ pc[Writer(dst[p])] = "select"
         /\ pc'[p] = "iter" /\ pc'[Writer(dst[p])] = "write"
         /\ \A q \in Procs \ {p, Writer(dst[p])} : pc'[q] = pc[q]
         /\ writing[dst[p]] = NoFrame
         /\ writing'[dst[p]].kind = out[p].kind
         /\ writing'[dst[p]].src = Owner(p)
         /\ writing'[dst[p]].n = out[p].n
         /\ \A x \in Clients \ {dst[p]} : writing'[x] = writing[x]
         /\ out' = out /\ todo' = todo /\ told' = told
         /\ dst'[p] = NoClient
         /\ \A q \in Procs \ {p} : dst'[q] = dst[q]
<1>1. /\ pc[p] = "send" /\ dst[p] \in Clients
      /\ p # Writer(dst[p]) /\ pc[Writer(dst[p])] = "select"
      /\ writing[dst[p]] = NoFrame
  BY ProcFacts DEF Deliver, WalkInv
<1>2. /\ pc'[p] = "iter" /\ pc'[Writer(dst[p])] = "write"
      /\ \A q \in Procs \ {p, Writer(dst[p])} : pc'[q] = pc[q]
  BY <1>1, ProcFacts DEF Deliver, TypeOK
<1>3. /\ writing'[dst[p]] = Frame(out[p].kind, Owner(p), out[p].n)
      /\ \A x \in Clients \ {dst[p]} : writing'[x] = writing[x]
  BY <1>1, ProcFacts DEF Deliver, TypeOK
<1> QED
  BY <1>1, <1>2, <1>3 DEF Deliver, Frame, TypeOK

\* A message is delivered off its goroutine's walk; nobody else is served.
LEMMA DeliverDue ==
  ASSUME TypeOK, RoleInv, WalkInv, NEW p \in Procs, Deliver(p)
  PROVE  /\ \A q \in Procs : Walking(q)' <=> Walking(q)
         /\ \E x \in Clients :
              /\ x = dst[p] /\ Due(p, x) /\ ~Due(p, x)'
              /\ \A q \in Procs, y \in Clients :
                   (q # p \/ y # x) => (Due(q, y)' <=> Due(q, y))
<1>1. PICK x \in Clients : x = dst[p]
  BY DeliverEffect
<1>2. /\ x \notin todo[p] /\ todo' = todo /\ dst'[p] = NoClient
      /\ \A q \in Procs \ {p} : dst'[q] = dst[q]
  BY <1>1, DeliverEffect DEF WalkInv
<1>3. \A q \in Procs, y \in Clients : (q # p \/ y # x) => (Due(q,
       y)' <=> Due(q, y))
  BY <1>1, <1>2, ClientAssumption DEF Due
<1>4. Due(p, x) /\ ~Due(p, x)'
  BY <1>1, <1>2, ClientAssumption DEF Due
<1>5. \A q \in Procs : Walking(q)' <=> Walking(q)
  BY DeliverEffect DEF Walking
<1> QED
  BY <1>1, <1>3, <1>4, <1>5

\* What is broadcast tells who broadcasts it and how far its owner has come.
LEMMA SenderKinds ==
  ASSUME TypeOK, RoleInv, NEW p \in Procs, Walking(p)
  PROVE  \/ /\ p = Server(Owner(p)) /\ Walking(Server(Owner(p)))
            /\ out[p].kind = "init" /\ out[p].n = 0
         \/ /\ p = Reader(Owner(p)) /\ pc[Server(Owner(p))] = "done"
            /\ \/ out[p].kind \in {"pos", "color", "text", "private"}
               \/ out[p].kind = "exit" /\ out[p].n = 0
         \/ /\ p = Writer(Owner(p)) /\ pc[Server(Owner(p))] = "done"
            /\ out[p].kind = "exit" /\ out[p].n = 0
<1>1. CASE p = Server(Owner(p))
  BY <1>1, ProcFacts DEF RoleInv, Out
<1>2. CASE p = Reader(Owner(p))
  BY <1>2, ProcFacts DEF RoleInv, Walking, Out
<1>3. CASE p = Writer(Owner(p))
  BY <1>3, ProcFacts DEF RoleInv, Walking, Out
<1> QED
  BY <1>1, <1>2, <1>3, ProcFacts

\* The end of a walk moves its goroutine on and at most starts the owner's
\* reader and writer.
LEMMA WalkDoneEffect ==
  ASSUME TypeOK, RoleInv, NEW p \in Procs, WalkDone(p)
  PROVE  /\ pc[p] = "iter" /\ pc'[p] \in {"done", "read"} /\ out'[p] = NoOut
         /\ \A q \in Procs \ {p} :
              /\ out'[q] = out[q]
              /\ \/ pc'[q] = pc[q]
                 \/ pc[q] = "idle" /\ pc'[q] \in {"read", "select"}
<1> USE ProcFacts DEF TypeOK, RoleInv, Walking
<1>1. /\ pc[p] = "iter" /\ out'[p] = NoOut
      /\ \A q \in Procs \ {p} : out'[q] = out[q]
  BY DEF WalkDone
<1>2. CASE out[p].kind = "init"
  <2>1. p = Server(Owner(p))
    BY <1>1, <1>2, SenderKinds
  <2>2. pc[Reader(Owner(p))] = "idle" /\ pc[Writer(Owner(p))] = "idle"
    BY <1>1, <2>1
  <2>3. pc' = [pc EXCEPT ![p] = "done", ![Reader(Owner(p))] = "read",
                         ![Writer(Owner(p))] = "select"]
    BY <1>2 DEF WalkDone
  <2> QED
    BY <1>1, <2>1, <2>2, <2>3
<1>3. CASE out[p].kind # "init"
  <2>1. \/ pc' = [pc EXCEPT ![p] = "read"]
        \/ pc' = [pc EXCEPT ![p] = "done"]
    BY <1>3 DEF WalkDone
  <2> QED
    BY <1>1, <2>1
<1> QED
  BY <1>2, <1>3

\* removeClient takes the client off every walk, and starts at most the walk
\* that announces its exit to the remaining clients.
LEMMA RemoveEffect ==
  ASSUME TypeOK, NEW p \in Procs, RemoveClient(p)
  PROVE  /\ pc[p] = "remove" /\ dst' = dst /\ clients' \subseteq clients
         /\ UNCHANGED <<writing, told, sent, last, color>>
         /\ \A q \in Procs \ {p} : /\ pc'[q] = pc[q] /\ out'[q] = out[q]
                                  /\ todo'[q] \subseteq todo[q]
                                  /\ todo[q] \cap clients' \subseteq todo'[q]
         /\ \A x \in Clients : conn'[x] = "open" => conn[x] = "open"
         /\ \A q \in Procs : todo'[q] \subseteq todo[q] \cup clients
         /\ \/ /\ pc'[p] = "done" /\ out'[p] = out[p] /\ todo'[p] = todo[p]
            \/ /\ pc'[p] = "iter" /\ out'[p] = Out("exit", 0, NoClient)
               /\ todo'[p] \subseteq clients
<1>1. CASE Owner(p) \in clients
  <2>1. todo' = [q \in Procs |->
                   IF q = p THEN Recipients(Out("exit", 0, NoClient), Owner(p))
                                 \ {Owner(p)}
                            ELSE todo[q] \ {Owner(p)}]
    BY <1>1 DEF RemoveClient
  <2>2. /\ todo'[p] \subseteq clients
        /\ clients' = clients \ {Owner(p)}
        /\ \A q \in Procs \ {p} : todo'[q] = todo[q] \ {Owner(p)}
    BY <1>1, <2>1 DEF Recipients, RemoveClient
  <2>3. /\ pc' = [pc EXCEPT ![p] = "iter"]
        /\ out' = [out EXCEPT ![p] = Out("exit", 0, NoClient)]
        /\ conn' = [conn EXCEPT ![Owner(p)] = "closed"]
        /\ pc[p] = "remove" /\ UNCHANGED <<dst, writing, told, sent, last, color>>
    BY <1>1 DEF RemoveClient
  <2>4. \A x \in Clients : conn'[x] = "open" => conn[x] = "open"
    BY <2>3 DEF TypeOK
  <2>5. /\ pc'[p] = "iter" /\ out'[p] = Out("exit", 0, NoClient)
        /\ \A q \in Procs \ {p} : pc'[q] = pc[q] /\ out'[q] = out[q]
    BY <2>3 DEF TypeOK
  <2> QED
    BY <2>2, <2>3, <2>4, <2>5
<1>2. CASE Owner(p) \notin clients
  BY <1>2 DEF RemoveClient, TypeOK
<1> QED
  BY <1>1, <1>2

\* Every step keeps each goroutine where its role allows it.
LEMMA RoleNext == TypeOK /\ RoleInv /\ [Next]_vars => RoleInv'
<1> SUFFICES ASSUME TypeOK, RoleInv, [Next]_vars PROVE RoleInv'
  OBVIOUS
<1> USE ProcFacts, ClientAssumption DEF TypeOK, RoleInv, Walking
<1>1. ASSUME NEW p \in Procs, NEW x \in Clients, NextPeer(p, x) PROVE RoleInv'
  BY <1>1 DEF NextPeer
<1>2. ASSUME NEW p \in Procs, Deliver(p) PROVE RoleInv'
  BY <1>2 DEF Deliver, Frame
<1>3. ASSUME NEW p \in Procs, WalkDone(p) PROVE RoleInv'
  BY <1>3 DEF WalkDone, NoOut, Out
<1>4. ASSUME NEW p \in Procs, Lock(p) PROVE RoleInv'
  BY <1>4 DEF Lock
<1>5. ASSUME NEW p \in Procs, RemoveClient(p) PROVE RoleInv'
  BY <1>5 DEF RemoveClient, Recipients, Out
<1>6. ASSUME NEW c \in Clients, AddClient(c) PROVE RoleInv'
  BY <1>6 DEF AddClient, WalksFor
<1>7. ASSUME NEW c \in Clients, Announce(c) PROVE RoleInv'
  BY <1>7 DEF Announce, StartWalk, Recipients, Out
<1>8. ASSUME NEW c \in Clients, DebugWritten(c) PROVE RoleInv'
  BY <1>8 DEF DebugWritten
<1>9. ASSUME NEW c \in Clients, Tick(c) PROVE RoleInv'
  BY <1>9 DEF Tick, Frame
<1>10. ASSUME NEW c \in Clients, Written(c) PROVE RoleInv'
  BY <1>10 DEF Written, NoFrame, Frame, Heard
<1>11. ASSUME NEW c \in Clients, WriteFails(c) PROVE RoleInv'
  BY <1>11 DEF WriteFails, NoFrame, Frame
<1>12. ASSUME NEW c \in Clients, Upgrade(c) PROVE RoleInv'
  BY <1>12 DEF Upgrade
<1>13. ASSUME NEW c \in Clients, NEW k \in EventKinds, BroadcastEvent(c, k)
        PROVE  RoleInv'
  BY <1>13 DEF BroadcastEvent, ReadEvent, StartWalk, Recipients, Out
<1>14. ASSUME NEW c \in Clients, NEW t \in Clients, PrivateText(c, t)
        PROVE  RoleInv'
  BY <1>14 DEF PrivateText, ReadEvent, StartWalk, Recipients, Out
<1>15. ASSUME NEW c \in Clients, DebugEvent(c) PROVE RoleInv'
  BY <1>15 DEF DebugEvent, ReadEvent
<1>16. ASSUME NEW c \in Clients, IgnoredEvent(c) PROVE RoleInv'
  BY <1>16 DEF IgnoredEvent, ReadEvent
<1>17. ASSUME NEW c \in Clients, ReadFails(c) PROVE RoleInv'
  BY <1>17 DEF ReadFails
<1>18. ASSUME NEW c \in Clients, Disconnect(c) \/ MixFrames(c)
       PROVE  RoleInv'
  BY <1>18 DEF Disconnect, MixFrames
<1>19. CASE Crash
  BY <1>19 DEF Crash
<1>20. CASE UNCHANGED vars
  BY <1>20 DEF vars
<1> QED
  BY <1>1, <1>2, <1>3, <1>4, <1>5, <1>6, <1>7, <1>8, <1>9, <1>10, <1>11,
     <1>12, <1>13, <1>14, <1>15, <1>16, <1>17, <1>18, <1>19, <1>20 DEF Next,
     Shared, ServerStep, WriterStep, Environment

\* Every step keeps destinations and held messages where they belong.
LEMMA WalkNext ==
  TypeOK /\ RoleInv /\ WalkInv /\ JoinInv /\ [Next]_vars => WalkInv'
<1> SUFFICES ASSUME TypeOK, RoleInv, WalkInv, JoinInv, [Next]_vars
        PROVE  WalkInv'
  OBVIOUS
<1> USE ProcFacts, ClientAssumption DEF TypeOK, RoleInv, WalkInv, JoinInv,
       Walking, Due
<1>1. ASSUME NEW p \in Procs, NEW x \in Clients, NextPeer(p, x) PROVE WalkInv'
  BY <1>1 DEF NextPeer
<1>2. ASSUME NEW p \in Procs, Deliver(p) PROVE WalkInv'
  BY <1>2 DEF Deliver, Frame
<1>3. ASSUME NEW p \in Procs, WalkDone(p) PROVE WalkInv'
  <2>1. dst' = dst /\ todo' = todo /\ writing' = writing /\ todo[p] = {}
    BY <1>3 DEF WalkDone
  <2>2. \A q \in Procs : /\ (pc'[q] = "send") <=> (pc[q] = "send")
                         /\ pc'[q] \notin {"iter", "send"} => todo[q] = {}
    BY <1>3, <2>1, WalkDoneEffect
  <2>3. \A c \in Clients : pc'[Writer(c)] # "write" => pc[Writer(c)] # "write"
    BY <1>3, WalkDoneEffect
  <2> QED
    BY <2>1, <2>2, <2>3
<1>4. ASSUME NEW p \in Procs, Lock(p) PROVE WalkInv'
  BY <1>4 DEF Lock
<1>5. ASSUME NEW p \in Procs, RemoveClient(p) PROVE WalkInv'
  <2>1. /\ dst' = dst /\ writing' = writing
        /\ \A q \in Procs \ {p} : pc'[q] = pc[q] /\ todo'[q] \subseteq todo[q]
        /\ pc[p] = "remove" /\ dst[p] = NoClient /\ todo[p] = {}
    BY <1>5, RemoveEffect
  <2>2. \/ pc'[p] = "done" /\ todo'[p] = {}
        \/ pc'[p] = "iter" /\ todo'[p] \subseteq clients
    BY <1>5, <2>1, RemoveEffect
  <2>3. \A q \in Procs :
          /\ pc'[q] = "send" => dst'[q] \in Clients
          /\ pc'[q] # "send" => dst'[q] = NoClient
          /\ pc'[q] \notin {"iter", "send"} => todo'[q] = {}
          /\ dst'[q] \notin todo'[q]
    BY <2>1, <2>2
  <2>4. \A c \in Clients : pc'[Writer(c)] # "write" => writing'[c] = NoFrame
    BY <2>1
  <2> QED
    BY <2>3, <2>4
<1>6. ASSUME NEW c \in Clients, AddClient(c) PROVE WalkInv'
  BY <1>6 DEF AddClient, WalksFor
<1>7. ASSUME NEW c \in Clients, Announce(c) PROVE WalkInv'
  BY <1>7 DEF Announce, StartWalk, Recipients, Out
<1>8. ASSUME NEW c \in Clients, DebugWritten(c) PROVE WalkInv'
  BY <1>8 DEF DebugWritten
<1>9. ASSUME NEW c \in Clients, Tick(c) PROVE WalkInv'
  BY <1>9 DEF Tick, Frame
<1>10. ASSUME NEW c \in Clients, Written(c) PROVE WalkInv'
  BY <1>10 DEF Written, NoFrame, Frame, Heard
<1>11. ASSUME NEW c \in Clients, WriteFails(c) PROVE WalkInv'
  BY <1>11 DEF WriteFails, NoFrame, Frame
<1>12. ASSUME NEW c \in Clients, Upgrade(c) PROVE WalkInv'
  BY <1>12 DEF Upgrade
<1>13. ASSUME NEW c \in Clients, NEW k \in EventKinds, BroadcastEvent(c, k)
        PROVE  WalkInv'
  BY <1>13 DEF BroadcastEvent, ReadEvent, StartWalk, Recipients, Out
<1>14. ASSUME NEW c \in Clients, NEW t \in Clients, PrivateText(c, t)
        PROVE  WalkInv'
  BY <1>14 DEF PrivateText, ReadEvent, StartWalk, Recipients, Out
<1>15. ASSUME NEW c \in Clients, DebugEvent(c) PROVE WalkInv'
  BY <1>15 DEF DebugEvent, ReadEvent
<1>16. ASSUME NEW c \in Clients, IgnoredEvent(c) PROVE WalkInv'
  BY <1>16 DEF IgnoredEvent, ReadEvent
<1>17. ASSUME NEW c \in Clients, ReadFails(c) PROVE WalkInv'
  BY <1>17 DEF ReadFails
<1>18. ASSUME NEW c \in Clients, Disconnect(c) \/ MixFrames(c)
       PROVE  WalkInv'
  BY <1>18 DEF Disconnect, MixFrames
<1>19. CASE Crash
  BY <1>19 DEF Crash
<1>20. CASE UNCHANGED vars
  BY <1>20 DEF vars
<1> QED
  BY <1>1, <1>2, <1>3, <1>4, <1>5, <1>6, <1>7, <1>8, <1>9, <1>10, <1>11,
     <1>12, <1>13, <1>14, <1>15, <1>16, <1>17, <1>18, <1>19, <1>20 DEF Next,
     Shared, ServerStep, WriterStep, Environment

\* Every step keeps the clients addClient has yet to store off the walks.
LEMMA JoinNext ==
  TypeOK /\ RoleInv /\ WalkInv /\ JoinInv /\ [Next]_vars => JoinInv'
<1> SUFFICES ASSUME TypeOK, RoleInv, WalkInv, JoinInv, [Next]_vars
        PROVE  JoinInv'
  OBVIOUS
<1> USE ProcFacts, ClientAssumption DEF TypeOK, RoleInv, WalkInv, JoinInv,
       Walking, Due
<1>1. ASSUME NEW p \in Procs, NEW x \in Clients, NextPeer(p, x) PROVE JoinInv'
  BY <1>1 DEF NextPeer
<1>2. ASSUME NEW p \in Procs, Deliver(p) PROVE JoinInv'
  BY <1>2 DEF Deliver, Frame
<1>3. ASSUME NEW p \in Procs, WalkDone(p) PROVE JoinInv'
  BY <1>3 DEF WalkDone, NoOut, Out
<1>4. ASSUME NEW p \in Procs, Lock(p) PROVE JoinInv'
  BY <1>4 DEF Lock
<1>5. ASSUME NEW p \in Procs, RemoveClient(p) PROVE JoinInv'
  <2>1. \A x \in Clients : pc'[Server(x)] = pc[Server(x)]
    BY <1>5, RemoveEffect
  <2> QED
    BY <1>5, <2>1, RemoveEffect
<1>6. ASSUME NEW c \in Clients, AddClient(c) PROVE JoinInv'
  BY <1>6 DEF AddClient, WalksFor
<1>7. ASSUME NEW c \in Clients, Announce(c) PROVE JoinInv'
  BY <1>7 DEF Announce, StartWalk, Recipients, Out
<1>8. ASSUME NEW c \in Clients, DebugWritten(c) PROVE JoinInv'
  BY <1>8 DEF DebugWritten
<1>9. ASSUME NEW c \in Clients, Tick(c) PROVE JoinInv'
  BY <1>9 DEF Tick, Frame
<1>10. ASSUME NEW c \in Clients, Written(c) PROVE JoinInv'
  BY <1>10 DEF Written, NoFrame, Frame, Heard
<1>11. ASSUME NEW c \in Clients, WriteFails(c) PROVE JoinInv'
  BY <1>11 DEF WriteFails, NoFrame, Frame
<1>12. ASSUME NEW c \in Clients, Upgrade(c) PROVE JoinInv'
  BY <1>12 DEF Upgrade
<1>13. ASSUME NEW c \in Clients, NEW k \in EventKinds, BroadcastEvent(c, k)
        PROVE  JoinInv'
  BY <1>13 DEF BroadcastEvent, ReadEvent, StartWalk, Recipients, Out
<1>14. ASSUME NEW c \in Clients, NEW t \in Clients, PrivateText(c, t)
        PROVE  JoinInv'
  BY <1>14 DEF PrivateText, ReadEvent, StartWalk, Recipients, Out
<1>15. ASSUME NEW c \in Clients, DebugEvent(c) PROVE JoinInv'
  BY <1>15 DEF DebugEvent, ReadEvent
<1>16. ASSUME NEW c \in Clients, IgnoredEvent(c) PROVE JoinInv'
  BY <1>16 DEF IgnoredEvent, ReadEvent
<1>17. ASSUME NEW c \in Clients, ReadFails(c) PROVE JoinInv'
  BY <1>17 DEF ReadFails
<1>18. ASSUME NEW c \in Clients, Disconnect(c) \/ MixFrames(c)
       PROVE  JoinInv'
  BY <1>18 DEF Disconnect, MixFrames
<1>19. CASE Crash
  BY <1>19 DEF Crash
<1>20. CASE UNCHANGED vars
  BY <1>20 DEF vars
<1> QED
  BY <1>1, <1>2, <1>3, <1>4, <1>5, <1>6, <1>7, <1>8, <1>9, <1>10, <1>11,
     <1>12, <1>13, <1>14, <1>15, <1>16, <1>17, <1>18, <1>19, <1>20 DEF Next,
     Shared, ServerStep, WriterStep, Environment

\* A walk that starts is for nobody but its recipients.
LEMMA StartedFor ==
  ASSUME TypeOK, WalkInv, WaitInv, NEW p \in Procs, ~Walking(p), NEW o,
         StartWalk(p, o), dst' = dst,
         o \in [kind : Kinds, n : Nat, to : Clients \cup {NoClient}]
  PROVE  \A q \in Procs, x \in Clients : Due(q, x)' => IsFor(out'[q], Owner(q), x)
<1>1. /\ out'[p] = o /\ todo'[p] = Recipients(o, Owner(p))
      /\ \A q \in Procs \ {p} : out'[q] = out[q] /\ todo'[q] = todo[q]
  BY DEF StartWalk, TypeOK
<1>2. dst'[p] = NoClient
  BY DEF WalkInv, Walking
<1>3. \A x \in Clients : Due(p, x)' => IsFor(out'[p], Owner(p), x)
  BY <1>1, <1>2, ClientAssumption DEF Due, Recipients
<1>4. ASSUME NEW q \in Procs \ {p}, NEW x \in Clients, Due(q, x)'
      PROVE  IsFor(out'[q], Owner(q), x)
  BY <1>1, <1>4 DEF Due, WaitInv
<1> QED
  BY <1>3, <1>4

\* Every step keeps the walks to their recipients, and the writers of the
\* clients that were announced.
LEMMA WaitNext ==
  TypeOK /\ RoleInv /\ WalkInv /\ WaitInv /\ [Next]_vars => WaitInv'
<1> SUFFICES ASSUME TypeOK, RoleInv, WalkInv, WaitInv, [Next]_vars
        PROVE  WaitInv'
  OBVIOUS
<1> DEFINE For == \A q \in Procs, x \in Clients :
                    Due(q, x) => IsFor(out[q], Owner(q), x)
           Started == \A c \in Clients :
                        pc[Server(c)] = "done" => pc[Writer(c)] # "idle"
<1>0. For /\ Started /\ (For' /\ Started' => WaitInv')
  BY DEF WaitInv
<1> USE ProcFacts, ClientAssumption
<1>1. ASSUME NEW p \in Procs, NEW x \in Clients, NextPeer(p, x) PROVE WaitInv'
  <2>1. out' = out /\ \A q \in Procs, y \in Clients : Due(q, y)' => Due(q, y)
    BY <1>1 DEF NextPeer, Due, TypeOK
  <2>2. Started'
    BY <1>0, <1>1 DEF NextPeer, TypeOK
  <2> QED
    BY <1>0, <2>1, <2>2
<1>2. ASSUME NEW p \in Procs, Deliver(p) PROVE WaitInv'
  <2>1. out' = out /\ \A q \in Procs, y \in Clients : Due(q, y)' => Due(q, y)
    BY <1>2, DeliverEffect, DeliverDue
  <2>2. \A c \in Clients : /\ pc'[Server(c)] = "done" => pc[Server(c)] = "done"
                           /\ pc'[Writer(c)] = "idle" => pc[Writer(c)] = "idle"
    BY <1>2, DeliverEffect
  <2> QED
    BY <1>0, <2>1, <2>2
<1>3. ASSUME NEW p \in Procs, WalkDone(p) PROVE WaitInv'
  <2>1. /\ todo' = todo /\ dst' = dst /\ todo[p] = {} /\ pc[p] = "iter"
        /\ \A q \in Procs \ {p} : out'[q] = out[q]
    BY <1>3, WalkDoneEffect DEF WalkDone
  <2>2. \A x \in Clients : ~Due(p, x)'
    BY <2>1 DEF Due, WalkInv
  <2>3. For'
    BY <1>0, <2>1, <2>2 DEF Due
  <2>4. Started'
    <3>1. CASE out[p].kind = "init"
      <4>1. p = Server(Owner(p)) /\ pc' = [pc EXCEPT ![p] = "done",
              ![Reader(Owner(p))] = "read", ![Writer(Owner(p))] = "select"]
        BY <1>3, <2>1, <3>1, SenderKinds DEF WalkDone, Walking
      <4> QED
        BY <1>0, <4>1 DEF TypeOK
    <3>2. CASE out[p].kind # "init"
      <4>1. p # Server(Owner(p))
        BY <2>1, <3>2 DEF RoleInv, Walking, Out
      <4>2. pc' = [pc EXCEPT ![p] = "read"] \/ pc' = [pc EXCEPT ![p] = "done"]
        BY <1>3, <3>2 DEF WalkDone
      <4>3. /\ \A c \in Clients : p # Server(c)
            /\ pc'[p] # "idle" /\ \A q \in Procs \ {p} : pc'[q] = pc[q]
        BY <4>1, <4>2 DEF TypeOK
      <4>4. ASSUME NEW c \in Clients, pc'[Server(c)] = "done"
            PROVE  pc'[Writer(c)] # "idle"
        BY <1>0, <4>3, <4>4
      <4> QED
        BY <4>4
    <3> QED
      BY <3>1, <3>2
  <2> QED
    BY <1>0, <2>3, <2>4
<1>4. ASSUME NEW p \in Procs, Lock(p) PROVE WaitInv'
  BY <1>0, <1>4 DEF Lock, Due, TypeOK
<1>5. ASSUME NEW p \in Procs, RemoveClient(p) PROVE WaitInv'
  <2>1. /\ pc[p] = "remove" /\ dst' = dst
        /\ \A q \in Procs \ {p} : /\ pc'[q] = pc[q] /\ out'[q] = out[q]
                                  /\ todo'[q] \subseteq todo[q]
    BY <1>5, RemoveEffect
  <2>2. pc'[p] # "idle" /\ p # Server(Owner(p)) /\ dst[p] = NoClient
    BY <1>5, <2>1, RemoveEffect DEF RoleInv, WalkInv
  <2>3. Started'
    BY <1>0, <2>1, <2>2
  <2>4. \A x \in Clients : Due(p, x)' => IsFor(out'[p], Owner(p), x)
    <3>1. CASE Owner(p) \in clients
      <4> DEFINE o == Out("exit", 0, NoClient)
      <4>1. /\ out' = [out EXCEPT ![p] = o]
            /\ todo' = [q \in Procs |->
                          IF q = p THEN Recipients(o, Owner(p)) \ {Owner(p)}
                                   ELSE todo[q] \ {Owner(p)}]
        BY <1>5, <3>1 DEF RemoveClient
      <4>2. /\ out'[p] = o
            /\ todo'[p] = Recipients(o, Owner(p)) \ {Owner(p)}
        BY <4>1 DEF TypeOK
      <4> QED
        BY <2>1, <2>2, <4>2 DEF Due, Recipients
    <3>2. CASE Owner(p) \notin clients
      BY <1>0, <1>5, <3>2 DEF RemoveClient, Due
    <3> QED
      BY <3>1, <3>2
  <2>5. For'
    BY <1>0, <2>1, <2>4 DEF Due
  <2> QED
    BY <1>0, <2>3, <2>5
<1>6. ASSUME NEW c \in Clients, AddClient(c) PROVE WaitInv'
  <2>1. PICK W \in SUBSET WalksFor(c) :
          todo' = [q \in Procs |-> IF q \in W THEN todo[q] \cup {c} ELSE todo[q]]
    BY <1>6 DEF AddClient
  <2>2. out' = out /\ dst' = dst /\ pc' = [pc EXCEPT ![Server(c)] = "announce"]
    BY <1>6 DEF AddClient
  <2>3. For'
    BY <1>0, <2>1, <2>2 DEF Due, WalksFor
  <2> QED
    BY <1>0, <2>2, <2>3 DEF TypeOK
<1>7. ASSUME NEW c \in Clients, Announce(c) PROVE WaitInv'
  <2>1. For'
    BY <1>7, StartedFor DEF Announce, Walking, Out, Kinds
  <2> QED
    BY <1>0, <1>7, <2>1 DEF Announce, StartWalk, TypeOK
<1>8. ASSUME NEW c \in Clients, DebugWritten(c) PROVE WaitInv'
  BY <1>0, <1>8 DEF DebugWritten, Due, TypeOK
<1>9. ASSUME NEW c \in Clients, Tick(c) PROVE WaitInv'
  BY <1>0, <1>9 DEF Tick, Due, TypeOK
<1>10. ASSUME NEW c \in Clients, Written(c) PROVE WaitInv'
  BY <1>0, <1>10 DEF Written, Due, TypeOK
<1>11. ASSUME NEW c \in Clients, WriteFails(c) PROVE WaitInv'
  BY <1>0, <1>11 DEF WriteFails, Due, TypeOK
<1>12. ASSUME NEW c \in Clients, Upgrade(c) PROVE WaitInv'
  BY <1>0, <1>12 DEF Upgrade, Due, TypeOK
<1>13. ASSUME NEW c \in Clients, NEW k \in EventKinds, BroadcastEvent(c, k)
        PROVE  WaitInv'
  <2>1. k \in Kinds /\ sent[c] + 1 \in Nat /\ pc[Reader(c)] = "read"
    BY <1>13 DEF BroadcastEvent, ReadEvent, Kinds, TypeOK
  <2>2. For'
    BY <1>13, <2>1, StartedFor DEF BroadcastEvent, Walking, Out
  <2> QED
    BY <1>0, <1>13, <2>2 DEF BroadcastEvent, StartWalk, TypeOK
<1>14. ASSUME NEW c \in Clients, NEW t \in Clients, PrivateText(c, t)
        PROVE  WaitInv'
  <2>1. "private" \in Kinds /\ sent[c] + 1 \in Nat /\ pc[Reader(c)] = "read"
    BY <1>14 DEF PrivateText, ReadEvent, Kinds, TypeOK
  <2>2. For'
    BY <1>14, <2>1, StartedFor DEF PrivateText, Walking, Out
  <2> QED
    BY <1>0, <1>14, <2>2 DEF PrivateText, StartWalk, TypeOK
<1>15. ASSUME NEW c \in Clients, DebugEvent(c) PROVE WaitInv'
  BY <1>0, <1>15 DEF DebugEvent, ReadEvent, Due, TypeOK
<1>16. ASSUME NEW c \in Clients, IgnoredEvent(c) PROVE WaitInv'
  BY <1>0, <1>16 DEF IgnoredEvent, ReadEvent, Due
<1>17. ASSUME NEW c \in Clients, ReadFails(c) PROVE WaitInv'
  BY <1>0, <1>17 DEF ReadFails, Due, TypeOK
<1>18. ASSUME NEW c \in Clients, Disconnect(c) \/ MixFrames(c)
       PROVE  WaitInv'
  BY <1>0, <1>18 DEF Disconnect, MixFrames, Due
<1>19. CASE Crash
  BY <1>0, <1>19 DEF Crash, Due
<1>20. CASE UNCHANGED vars
  BY <1>0, <1>20 DEF vars, Due
<1> QED
  BY <1>1, <1>2, <1>3, <1>4, <1>5, <1>6, <1>7, <1>8, <1>9, <1>10, <1>11,
     <1>12, <1>13, <1>14, <1>15, <1>16, <1>17, <1>18, <1>19, <1>20 DEF Next,
     Shared, ServerStep, WriterStep, Environment

\* Every step keeps a client whose exit was notified off the map.
LEMMA ExitNext == TypeOK /\ RoleInv /\ ExitInv /\ [Next]_vars => ExitInv'
<1> SUFFICES ASSUME TypeOK, RoleInv, ExitInv, [Next]_vars PROVE ExitInv'
  OBVIOUS
<1> USE ProcFacts, ClientAssumption DEF TypeOK, RoleInv, ExitInv
<1>1. ASSUME NEW p \in Procs, NEW x \in Clients, NextPeer(p, x) PROVE ExitInv'
  BY <1>1 DEF NextPeer
<1>2. ASSUME NEW p \in Procs, Deliver(p) PROVE ExitInv'
  BY <1>2 DEF Deliver, Frame
<1>3. ASSUME NEW p \in Procs, WalkDone(p) PROVE ExitInv'
  BY <1>3 DEF WalkDone, NoOut, Out
<1>4. ASSUME NEW p \in Procs, Lock(p) PROVE ExitInv'
  BY <1>4 DEF Lock
<1>5. ASSUME NEW p \in Procs, RemoveClient(p) PROVE ExitInv'
  <2>1. /\ pc[p] = "remove" /\ p # Server(Owner(p))
        /\ \A x \in Clients : pc'[Server(x)] = pc[Server(x)]
    BY <1>5 DEF RemoveClient
  <2>2. pc[Server(Owner(p))] = "done"
    BY <2>1
  <2>3. CASE Owner(p) \in clients
    <3>1. exits' = [exits EXCEPT ![Owner(p)] = @ + 1] /\ clients' = clients \ {Owner(p)}
      BY <1>5, <2>3 DEF RemoveClient
    <3>2. exits[Owner(p)] = 0
      BY <2>3
    <3> QED
      BY <2>1, <2>2, <3>1, <3>2
  <2>4. CASE Owner(p) \notin clients
    BY <1>5, <2>1, <2>4 DEF RemoveClient
  <2> QED
    BY <2>3, <2>4
<1>6. ASSUME NEW c \in Clients, AddClient(c) PROVE ExitInv'
  BY <1>6 DEF AddClient, WalksFor
<1>7. ASSUME NEW c \in Clients, Announce(c) PROVE ExitInv'
  BY <1>7 DEF Announce, StartWalk, Recipients, Out
<1>8. ASSUME NEW c \in Clients, DebugWritten(c) PROVE ExitInv'
  BY <1>8 DEF DebugWritten
<1>9. ASSUME NEW c \in Clients, Tick(c) PROVE ExitInv'
  BY <1>9 DEF Tick, Frame
<1>10. ASSUME NEW c \in Clients, Written(c) PROVE ExitInv'
  BY <1>10 DEF Written, NoFrame, Frame, Heard
<1>11. ASSUME NEW c \in Clients, WriteFails(c) PROVE ExitInv'
  BY <1>11 DEF WriteFails, NoFrame, Frame
<1>12. ASSUME NEW c \in Clients, Upgrade(c) PROVE ExitInv'
  BY <1>12 DEF Upgrade
<1>13. ASSUME NEW c \in Clients, NEW k \in EventKinds, BroadcastEvent(c, k)
        PROVE  ExitInv'
  BY <1>13 DEF BroadcastEvent, ReadEvent, StartWalk, Recipients, Out
<1>14. ASSUME NEW c \in Clients, NEW t \in Clients, PrivateText(c, t)
        PROVE  ExitInv'
  BY <1>14 DEF PrivateText, ReadEvent, StartWalk, Recipients, Out
<1>15. ASSUME NEW c \in Clients, DebugEvent(c) PROVE ExitInv'
  BY <1>15 DEF DebugEvent, ReadEvent
<1>16. ASSUME NEW c \in Clients, IgnoredEvent(c) PROVE ExitInv'
  BY <1>16 DEF IgnoredEvent, ReadEvent
<1>17. ASSUME NEW c \in Clients, ReadFails(c) PROVE ExitInv'
  BY <1>17 DEF ReadFails
<1>18. ASSUME NEW c \in Clients, Disconnect(c) \/ MixFrames(c)
       PROVE  ExitInv'
  BY <1>18 DEF Disconnect, MixFrames
<1>19. CASE Crash
  BY <1>19 DEF Crash
<1>20. CASE UNCHANGED vars
  BY <1>20 DEF vars
<1> QED
  BY <1>1, <1>2, <1>3, <1>4, <1>5, <1>6, <1>7, <1>8, <1>9, <1>10, <1>11,
     <1>12, <1>13, <1>14, <1>15, <1>16, <1>17, <1>18, <1>19, <1>20 DEF Next,
     Shared, ServerStep, WriterStep, Environment

\* Every step keeps the mutex with the goroutine in the critical section.
LEMMA MutexNext == TypeOK /\ RoleInv /\ MutexInv /\ [Next]_vars => MutexInv'
<1> SUFFICES ASSUME TypeOK, RoleInv, MutexInv, [Next]_vars PROVE MutexInv'
  OBVIOUS
<1> USE ProcFacts, ClientAssumption DEF TypeOK, RoleInv, MutexInv,
       InCritical, Walking
<1>1. ASSUME NEW p \in Procs, NEW x \in Clients, NextPeer(p, x) PROVE MutexInv'
  BY <1>1 DEF NextPeer
<1>2. ASSUME NEW p \in Procs, Deliver(p) PROVE MutexInv'
  BY <1>2 DEF Deliver, Frame
<1>3. ASSUME NEW p \in Procs, WalkDone(p) PROVE MutexInv'
  <2>1. ~InCritical(p)'
    BY <1>3, WalkDoneEffect
  <2>2. \A q \in Procs \ {p} : InCritical(q)' <=> InCritical(q)
    BY <1>3, WalkDoneEffect
  <2>3. CASE out[p].kind = "exit"
    <3>1. lock = p /\ lock' = NoProc
      BY <1>3, <2>3 DEF WalkDone
    <3> QED
      BY <2>1, <2>2, <3>1
  <2>4. CASE out[p].kind # "exit"
    <3>1. lock # p /\ lock' = lock
      BY <1>3, <2>4 DEF WalkDone
    <3> QED
      BY <2>1, <2>2, <3>1
  <2> QED
    BY <2>3, <2>4
<1>4. ASSUME NEW p \in Procs, Lock(p) PROVE MutexInv'
  BY <1>4 DEF Lock
<1>5. ASSUME NEW p \in Procs, RemoveClient(p) PROVE MutexInv'
  <2>1. lock = p
    BY <1>5 DEF RemoveClient
  <2>2. CASE Owner(p) \in clients
    <3>1. /\ out' = [out EXCEPT ![p] = Out("exit", 0, NoClient)]
          /\ pc' = [pc EXCEPT ![p] = "iter"]
          /\ lock' = lock
      BY <1>5, <2>2 DEF RemoveClient
    <3>2. out'[p].kind = "exit"
      BY <3>1 DEF Out
    <3> QED
      BY <2>1, <3>1, <3>2
  <2>3. CASE Owner(p) \notin clients
    BY <1>5, <2>1, <2>3 DEF RemoveClient
  <2> QED
    BY <2>2, <2>3
<1>6. ASSUME NEW c \in Clients, AddClient(c) PROVE MutexInv'
  BY <1>6 DEF AddClient, WalksFor
<1>7. ASSUME NEW c \in Clients, Announce(c) PROVE MutexInv'
  BY <1>7 DEF Announce, StartWalk, Recipients, Out
<1>8. ASSUME NEW c \in Clients, DebugWritten(c) PROVE MutexInv'
  BY <1>8 DEF DebugWritten
<1>9. ASSUME NEW c \in Clients, Tick(c) PROVE MutexInv'
  BY <1>9 DEF Tick, Frame
<1>10. ASSUME NEW c \in Clients, Written(c) PROVE MutexInv'
  BY <1>10 DEF Written, NoFrame, Frame, Heard
<1>11. ASSUME NEW c \in Clients, WriteFails(c) PROVE MutexInv'
  BY <1>11 DEF WriteFails, NoFrame, Frame
<1>12. ASSUME NEW c \in Clients, Upgrade(c) PROVE MutexInv'
  BY <1>12 DEF Upgrade
<1>13. ASSUME NEW c \in Clients, NEW k \in EventKinds, BroadcastEvent(c, k)
        PROVE  MutexInv'
  BY <1>13 DEF BroadcastEvent, ReadEvent, StartWalk, Recipients, Out
<1>14. ASSUME NEW c \in Clients, NEW t \in Clients, PrivateText(c, t)
        PROVE  MutexInv'
  BY <1>14 DEF PrivateText, ReadEvent, StartWalk, Recipients, Out
<1>15. ASSUME NEW c \in Clients, DebugEvent(c) PROVE MutexInv'
  BY <1>15 DEF DebugEvent, ReadEvent
<1>16. ASSUME NEW c \in Clients, IgnoredEvent(c) PROVE MutexInv'
  BY <1>16 DEF IgnoredEvent, ReadEvent
<1>17. ASSUME NEW c \in Clients, ReadFails(c) PROVE MutexInv'
  BY <1>17 DEF ReadFails
<1>18. ASSUME NEW c \in Clients, Disconnect(c) \/ MixFrames(c)
       PROVE  MutexInv'
  BY <1>18 DEF Disconnect, MixFrames
<1>19. CASE Crash
  BY <1>19 DEF Crash
<1>20. CASE UNCHANGED vars
  BY <1>20 DEF vars
<1> QED
  BY <1>1, <1>2, <1>3, <1>4, <1>5, <1>6, <1>7, <1>8, <1>9, <1>10, <1>11,
     <1>12, <1>13, <1>14, <1>15, <1>16, <1>17, <1>18, <1>19, <1>20 DEF Next,
     Shared, ServerStep, WriterStep, Environment

\* Every step keeps the news of a client behind its announcement.
LEMMA NewsNext ==
  TypeOK /\ RoleInv /\ WalkInv /\ NewsInv /\ [Next]_vars => NewsInv'
<1> SUFFICES ASSUME TypeOK, RoleInv, WalkInv, NewsInv, [Next]_vars
        PROVE  NewsInv'
  OBVIOUS
<1> USE ProcFacts, ClientAssumption DEF TypeOK, RoleInv, NewsInv, Walking
<1>1. ASSUME NEW p \in Procs, NEW x \in Clients, NextPeer(p, x) PROVE NewsInv'
  BY <1>1 DEF NextPeer
<1>2. ASSUME NEW p \in Procs, Deliver(p) PROVE NewsInv'
  <2>1. \A a \in Clients : /\ (pc'[Server(a)] = "done") <=> (pc[Server(a)] = "done")
                           /\ Walking(Server(a))' <=> Walking(Server(a))
    BY <1>2, DeliverEffect
  <2>2. \/ pc[Server(Owner(p))] = "done"
        \/ Walking(Server(Owner(p))) /\ out[p].kind = "init"
    BY <1>2, DeliverEffect, SenderKinds
  <2>3. told' = told
    BY <1>2 DEF Deliver
  <2>4. ASSUME NEW x \in Clients, NEW a \in Clients, writing'[x].src = a
        PROVE  \/ pc'[Server(a)] = "done"
               \/ Walking(Server(a))' /\ writing'[x].kind = "init"
    <3>1. CASE x = dst[p]
      BY <1>2, <2>1, <2>2, <2>4, <3>1, DeliverEffect
    <3>2. CASE x # dst[p]
      <4>1. writing'[x] = writing[x]
        BY <1>2, <3>2, DeliverEffect
      <4> QED
        BY <2>1, <2>4, <4>1
    <3> QED
      BY <3>1, <3>2
  <2>5. \A x, a \in Clients : told'[x][a].kind # "none" =>
          \/ pc'[Server(a)] = "done"
          \/ Walking(Server(a))' /\ told'[x][a].kind = "init"
    BY <2>1, <2>3
  <2> QED
    BY ONLY <2>4, <2>5 DEF NewsInv, Walking
<1>3. ASSUME NEW p \in Procs, WalkDone(p) PROVE NewsInv'
  BY <1>3 DEF WalkDone, NoOut, Out
<1>4. ASSUME NEW p \in Procs, Lock(p) PROVE NewsInv'
  BY <1>4 DEF Lock
<1>5. ASSUME NEW p \in Procs, RemoveClient(p) PROVE NewsInv'
  BY <1>5 DEF RemoveClient, Recipients, Out
<1>6. ASSUME NEW c \in Clients, AddClient(c) PROVE NewsInv'
  BY <1>6 DEF AddClient, WalksFor
<1>7. ASSUME NEW c \in Clients, Announce(c) PROVE NewsInv'
  BY <1>7 DEF Announce, StartWalk, Recipients, Out
<1>8. ASSUME NEW c \in Clients, DebugWritten(c) PROVE NewsInv'
  BY <1>8 DEF DebugWritten
<1>9. ASSUME NEW c \in Clients, Tick(c) PROVE NewsInv'
  BY <1>9 DEF Tick, Frame
<1>10. ASSUME NEW c \in Clients, Written(c) PROVE NewsInv'
  BY <1>10 DEF Written, NoFrame, Frame, Heard
<1>11. ASSUME NEW c \in Clients, WriteFails(c) PROVE NewsInv'
  BY <1>11 DEF WriteFails, NoFrame, Frame
<1>12. ASSUME NEW c \in Clients, Upgrade(c) PROVE NewsInv'
  BY <1>12 DEF Upgrade
<1>13. ASSUME NEW c \in Clients, NEW k \in EventKinds, BroadcastEvent(c, k)
        PROVE  NewsInv'
  BY <1>13 DEF BroadcastEvent, ReadEvent, StartWalk, Recipients, Out
<1>14. ASSUME NEW c \in Clients, NEW t \in Clients, PrivateText(c, t)
        PROVE  NewsInv'
  BY <1>14 DEF PrivateText, ReadEvent, StartWalk, Recipients, Out
<1>15. ASSUME NEW c \in Clients, DebugEvent(c) PROVE NewsInv'
  BY <1>15 DEF DebugEvent, ReadEvent
<1>16. ASSUME NEW c \in Clients, IgnoredEvent(c) PROVE NewsInv'
  BY <1>16 DEF IgnoredEvent, ReadEvent
<1>17. ASSUME NEW c \in Clients, ReadFails(c) PROVE NewsInv'
  BY <1>17 DEF ReadFails
<1>18. ASSUME NEW c \in Clients, Disconnect(c) \/ MixFrames(c)
       PROVE  NewsInv'
  BY <1>18 DEF Disconnect, MixFrames
<1>19. CASE Crash
  BY <1>19 DEF Crash
<1>20. CASE UNCHANGED vars
  BY <1>20 DEF vars
<1> QED
  BY <1>1, <1>2, <1>3, <1>4, <1>5, <1>6, <1>7, <1>8, <1>9, <1>10, <1>11,
     <1>12, <1>13, <1>14, <1>15, <1>16, <1>17, <1>18, <1>19, <1>20 DEF Next,
     Shared, ServerStep, WriterStep, Environment

\* Every step leaves a client without a writer untold.
LEMMA FreshNext ==
  TypeOK /\ RoleInv /\ WalkInv /\ FreshInv /\ [Next]_vars => FreshInv'
<1> SUFFICES ASSUME TypeOK, RoleInv, WalkInv, FreshInv, [Next]_vars
        PROVE  FreshInv'
  OBVIOUS
<1> USE ProcFacts, ClientAssumption DEF TypeOK, RoleInv, WalkInv, FreshInv,
       Walking
<1>1. ASSUME NEW p \in Procs, NEW x \in Clients, NextPeer(p, x) PROVE FreshInv'
  BY <1>1 DEF NextPeer
<1>2. ASSUME NEW p \in Procs, Deliver(p) PROVE FreshInv'
  <2>1. told' = told
    BY <1>2 DEF Deliver
  <2>2. \A x \in Clients : pc'[Writer(x)] = "idle" => pc[Writer(x)] = "idle"
    BY <1>2, DeliverEffect
  <2> QED
    BY <2>1, <2>2
<1>3. ASSUME NEW p \in Procs, WalkDone(p) PROVE FreshInv'
  BY ZenonT(40), <1>3 DEF WalkDone, NoOut, Out
<1>4. ASSUME NEW p \in Procs, Lock(p) PROVE FreshInv'
  BY <1>4 DEF Lock
<1>5. ASSUME NEW p \in Procs, RemoveClient(p) PROVE FreshInv'
  BY ZenonT(40), <1>5 DEF RemoveClient, Recipients, Out
<1>6. ASSUME NEW c \in Clients, AddClient(c) PROVE FreshInv'
  BY <1>6 DEF AddClient, WalksFor
<1>7. ASSUME NEW c \in Clients, Announce(c) PROVE FreshInv'
  BY <1>7 DEF Announce, StartWalk, Recipients, Out
<1>8. ASSUME NEW c \in Clients, DebugWritten(c) PROVE FreshInv'
  BY <1>8 DEF DebugWritten
<1>9. ASSUME NEW c \in Clients, Tick(c) PROVE FreshInv'
  BY <1>9 DEF Tick, Frame
<1>10. ASSUME NEW c \in Clients, Written(c) PROVE FreshInv'
  <2> SUFFICES ASSUME NEW x \in Clients, pc'[Writer(x)] = "idle", NEW a \in Clients
               PROVE  told'[x][a] = NoNews
    BY DEF FreshInv
  <2>1. x # c /\ pc[Writer(x)] = "idle"
    BY <1>10 DEF Written
  <2> QED
    BY <1>10, <2>1, WrittenNews DEF FreshInv
<1>11. ASSUME NEW c \in Clients, WriteFails(c) PROVE FreshInv'
  BY <1>11 DEF WriteFails, NoFrame, Frame
<1>12. ASSUME NEW c \in Clients, Upgrade(c) PROVE FreshInv'
  BY <1>12 DEF Upgrade
<1>13. ASSUME NEW c \in Clients, NEW k \in EventKinds, BroadcastEvent(c, k)
        PROVE  FreshInv'
  BY <1>13 DEF BroadcastEvent, ReadEvent, StartWalk, Recipients, Out
<1>14. ASSUME NEW c \in Clients, NEW t \in Clients, PrivateText(c, t)
        PROVE  FreshInv'
  BY <1>14 DEF PrivateText, ReadEvent, StartWalk, Recipients, Out
<1>15. ASSUME NEW c \in Clients, DebugEvent(c) PROVE FreshInv'
  BY <1>15 DEF DebugEvent, ReadEvent
<1>16. ASSUME NEW c \in Clients, IgnoredEvent(c) PROVE FreshInv'
  BY <1>16 DEF IgnoredEvent, ReadEvent
<1>17. ASSUME NEW c \in Clients, ReadFails(c) PROVE FreshInv'
  BY <1>17 DEF ReadFails
<1>18. ASSUME NEW c \in Clients, Disconnect(c) \/ MixFrames(c)
       PROVE  FreshInv'
  BY <1>18 DEF Disconnect, MixFrames
<1>19. CASE Crash
  BY <1>19 DEF Crash
<1>20. CASE UNCHANGED vars
  BY <1>20 DEF vars
<1> QED
  BY <1>1, <1>2, <1>3, <1>4, <1>5, <1>6, <1>7, <1>8, <1>9, <1>10, <1>11,
     <1>12, <1>13, <1>14, <1>15, <1>16, <1>17, <1>18, <1>19, <1>20 DEF Next,
     Shared, ServerStep, WriterStep, Environment

\* Every step keeps the numbers of messages within those routed.
LEMMA NumberNext ==
  TypeOK /\ RoleInv /\ WalkInv /\ NumberInv /\ LatestInv /\ [Next]_vars
         => NumberInv'
<1> SUFFICES ASSUME TypeOK, RoleInv, WalkInv, NumberInv, LatestInv, [Next]_vars
        PROVE  NumberInv'
  OBVIOUS
<1> USE ProcFacts, ClientAssumption DEF TypeOK, RoleInv, NumberInv,
       LatestInv, Walking
<1>1. ASSUME NEW p \in Procs, NEW x \in Clients, NextPeer(p, x)
        PROVE  NumberInv'
  BY <1>1 DEF NextPeer
<1>2. ASSUME NEW p \in Procs, Deliver(p) PROVE NumberInv'
  <2>1. \A a \in Clients : (pc'[Server(a)] = "done") <=> (pc[Server(a)] = "done")
    BY <1>2, DeliverEffect
  <2>2. out[p].n <= sent[Owner(p)]
    <3>1. Walking(p) /\ sent[Owner(p)] \in Nat
      BY <1>2, DeliverEffect
    <3>2. CASE out[p].n = 0
      BY <3>1, <3>2
    <3>3. CASE p = Reader(Owner(p)) /\ out[p].kind # "exit"
      <4>1. Owner(p) \in Clients
        OBVIOUS
      <4>2. out[Reader(Owner(p))].n = sent[Owner(p)]
        BY ONLY <3>1, <3>3, <4>1, LatestInv DEF LatestInv
      <4> QED
        BY ONLY <3>1, <3>3, <4>2
    <3> QED
      BY <3>1, <3>2, <3>3, SenderKinds
  <2>3. UNCHANGED <<last, sent, told>>
    BY <1>2 DEF Deliver
  <2>4. ASSUME NEW x \in Clients, NEW a \in Clients, writing'[x].src = a
        PROVE  writing'[x].n <= sent[a]
    <3>1. CASE x = dst[p]
      BY <1>2, <2>2, <2>4, <3>1, DeliverEffect
    <3>2. CASE x # dst[p]
      <4>1. writing'[x] = writing[x]
        BY <1>2, <3>2, DeliverEffect
      <4> QED
        BY <2>4, <4>1
    <3> QED
      BY <3>1, <3>2
  <2> QED
    BY <2>1, <2>3, <2>4
<1>3. ASSUME NEW p \in Procs, WalkDone(p) PROVE NumberInv'
  BY <1>3 DEF WalkDone, NoOut, Out
<1>4. ASSUME NEW p \in Procs, Lock(p) PROVE NumberInv'
  BY <1>4 DEF Lock
<1>5. ASSUME NEW p \in Procs, RemoveClient(p) PROVE NumberInv'
  BY <1>5 DEF RemoveClient, Recipients, Out
<1>6. ASSUME NEW c \in Clients, AddClient(c) PROVE NumberInv'
  BY <1>6 DEF AddClient, WalksFor
<1>7. ASSUME NEW c \in Clients, Announce(c) PROVE NumberInv'
  BY <1>7 DEF Announce, StartWalk, Recipients, Out
<1>8. ASSUME NEW c \in Clients, DebugWritten(c) PROVE NumberInv'
  BY <1>8 DEF DebugWritten
<1>9. ASSUME NEW c \in Clients, Tick(c) PROVE NumberInv'
  BY <1>9 DEF Tick, Frame
<1>10. ASSUME NEW c \in Clients, Written(c) PROVE NumberInv'
  BY <1>10 DEF Written, NoFrame, Frame, Heard
<1>11. ASSUME NEW c \in Clients, WriteFails(c) PROVE NumberInv'
  BY <1>11 DEF WriteFails, NoFrame, Frame
<1>12. ASSUME NEW c \in Clients, Upgrade(c) PROVE NumberInv'
  BY <1>12 DEF Upgrade
<1>13. ASSUME NEW c \in Clients, NEW k \in EventKinds, BroadcastEvent(c, k)
        PROVE  NumberInv'
  BY <1>13 DEF BroadcastEvent, ReadEvent, StartWalk, Recipients, Out
<1>14. ASSUME NEW c \in Clients, NEW t \in Clients, PrivateText(c, t)
        PROVE  NumberInv'
  BY <1>14 DEF PrivateText, ReadEvent, StartWalk, Recipients, Out
<1>15. ASSUME NEW c \in Clients, DebugEvent(c) PROVE NumberInv'
  BY <1>15 DEF DebugEvent, ReadEvent
<1>16. ASSUME NEW c \in Clients, IgnoredEvent(c) PROVE NumberInv'
  BY <1>16 DEF IgnoredEvent, ReadEvent
<1>17. ASSUME NEW c \in Clients, ReadFails(c) PROVE NumberInv'
  BY <1>17 DEF ReadFails
<1>18. ASSUME NEW c \in Clients, Disconnect(c) \/ MixFrames(c)
       PROVE  NumberInv'
  BY <1>18 DEF Disconnect, MixFrames
<1>19. CASE Crash
  BY <1>19 DEF Crash
<1>20. CASE UNCHANGED vars
  BY <1>20 DEF vars
<1> QED
  BY <1>1, <1>2, <1>3, <1>4, <1>5, <1>6, <1>7, <1>8, <1>9, <1>10, <1>11,
     <1>12, <1>13, <1>14, <1>15, <1>16, <1>17, <1>18, <1>19, <1>20 DEF Next,
     Shared, ServerStep, WriterStep, Environment

\* Every step keeps a reader's broadcast its client's latest event.
LEMMA LatestNext ==
  TypeOK /\ RoleInv /\ WalkInv /\ LatestInv /\ [Next]_vars => LatestInv'
<1> SUFFICES ASSUME TypeOK, RoleInv, WalkInv, LatestInv, [Next]_vars
        PROVE  LatestInv'
  OBVIOUS
<1> USE ProcFacts, ClientAssumption DEF TypeOK, RoleInv, LatestInv, Walking
<1>1. ASSUME NEW p \in Procs, NEW x \in Clients, NextPeer(p, x)
        PROVE  LatestInv'
  BY <1>1 DEF NextPeer
<1>2. ASSUME NEW p \in Procs, Deliver(p) PROVE LatestInv'
  BY <1>2 DEF Deliver, Frame
<1>3. ASSUME NEW p \in Procs, WalkDone(p) PROVE LatestInv'
  BY <1>3 DEF WalkDone, NoOut, Out
<1>4. ASSUME NEW p \in Procs, Lock(p) PROVE LatestInv'
  BY <1>4 DEF Lock
<1>5. ASSUME NEW p \in Procs, RemoveClient(p) PROVE LatestInv'
  <2>1. UNCHANGED <<sent, last>>
    BY <1>5, RemoveEffect
  <2>2. \A a \in Clients :
          (Walking(Reader(a))' /\ out'[Reader(a)].kind # "exit") =>
            Walking(Reader(a)) /\ out'[Reader(a)] = out[Reader(a)]
    BY <1>5, RemoveEffect DEF Out
  <2> QED
    BY ONLY <2>1, <2>2, LatestInv DEF LatestInv
<1>6. ASSUME NEW c \in Clients, AddClient(c) PROVE LatestInv'
  BY <1>6 DEF AddClient, WalksFor
<1>7. ASSUME NEW c \in Clients, Announce(c) PROVE LatestInv'
  BY <1>7 DEF Announce, StartWalk, Recipients, Out
<1>8. ASSUME NEW c \in Clients, DebugWritten(c) PROVE LatestInv'
  BY <1>8 DEF DebugWritten
<1>9. ASSUME NEW c \in Clients, Tick(c) PROVE LatestInv'
  BY <1>9 DEF Tick, Frame
<1>10. ASSUME NEW c \in Clients, Written(c) PROVE LatestInv'
  BY <1>10 DEF Written, NoFrame, Frame, Heard
<1>11. ASSUME NEW c \in Clients, WriteFails(c) PROVE LatestInv'
  BY <1>11 DEF WriteFails, NoFrame, Frame
<1>12. ASSUME NEW c \in Clients, Upgrade(c) PROVE LatestInv'
  BY <1>12 DEF Upgrade
<1>13. ASSUME NEW c \in Clients, NEW k \in EventKinds, BroadcastEvent(c, k)
        PROVE  LatestInv'
  BY <1>13 DEF BroadcastEvent, ReadEvent, StartWalk, Recipients, Out
<1>14. ASSUME NEW c \in Clients, NEW t \in Clients, PrivateText(c, t)
        PROVE  LatestInv'
  BY <1>14 DEF PrivateText, ReadEvent, StartWalk, Recipients, Out
<1>15. ASSUME NEW c \in Clients, DebugEvent(c) PROVE LatestInv'
  BY <1>15 DEF DebugEvent, ReadEvent
<1>16. ASSUME NEW c \in Clients, IgnoredEvent(c) PROVE LatestInv'
  BY <1>16 DEF IgnoredEvent, ReadEvent
<1>17. ASSUME NEW c \in Clients, ReadFails(c) PROVE LatestInv'
  BY <1>17 DEF ReadFails
<1>18. ASSUME NEW c \in Clients, Disconnect(c) \/ MixFrames(c)
       PROVE  LatestInv'
  BY <1>18 DEF Disconnect, MixFrames
<1>19. CASE Crash
  BY <1>19 DEF Crash
<1>20. CASE UNCHANGED vars
  BY <1>20 DEF vars
<1> QED
  BY <1>1, <1>2, <1>3, <1>4, <1>5, <1>6, <1>7, <1>8, <1>9, <1>10, <1>11,
     <1>12, <1>13, <1>14, <1>15, <1>16, <1>17, <1>18, <1>19, <1>20 DEF Next,
     Shared, ServerStep, WriterStep, Environment

\* Every step keeps what is due newer than what is held or delivered.
LEMMA OrderNext ==
  TypeOK /\ RoleInv /\ WalkInv /\ JoinInv /\ NewsInv /\ FreshInv
         /\ NumberInv /\ LatestInv /\ OrderInv /\ [Next]_vars => OrderInv'
<1> SUFFICES ASSUME TypeOK, RoleInv, WalkInv, JoinInv, NewsInv, FreshInv,
       NumberInv, LatestInv, OrderInv, [Next]_vars
        PROVE  OrderInv'
  OBVIOUS
<1> USE ProcFacts, ClientAssumption
<1>1. ASSUME NEW p \in Procs, NEW x \in Clients, NextPeer(p, x) PROVE OrderInv'
  BY <1>1 DEF NextPeer, TypeOK, OrderInv, OrderOf, Due, Gone
<1>2. ASSUME NEW p \in Procs, Deliver(p) PROVE OrderInv'
  <2>1. PICK x \in Clients : x = dst[p]
    BY <1>2, DeliverEffect
  <2>2. UNCHANGED <<told, sent, out, todo>> /\ Walking(p) /\ x \notin todo[p]
    BY <1>2, <2>1 DEF Deliver, WalkInv, Walking
  <2>3. \A q \in Procs, y \in Clients : Due(q, y)' => Due(q, y)
    BY <1>2, <2>2, DeliverEffect DEF Due
  <2>4. Due(p, x) /\ ~Due(p, x)'
    BY <1>2, <2>1, <2>2, DeliverEffect DEF Due
  <2>5. ASSUME NEW y \in Clients, NEW a \in Clients, y # x
        PROVE  OrderOf(y, a)'
    <3>1. writing'[y] = writing[y]
      BY <1>2, <2>1, <2>5, DeliverEffect
    <3> QED
      BY <2>2, <2>3, <3>1 DEF OrderInv, OrderOf
  <2>6. ASSUME NEW a \in Clients, a # Owner(p)
        PROVE  OrderOf(x, a)'
    <3>1. writing'[x].src # a
      BY <1>2, <2>1, <2>6, DeliverEffect
    <3> QED
      BY <2>2, <2>3, <3>1 DEF OrderInv, OrderOf
  <2>7. ASSUME NEW a \in Clients, a = Owner(p)
        PROVE  OrderOf(x, a)'
    <3>1. /\ writing'[x].kind = out[p].kind /\ writing'[x].n = out[p].n
          /\ OrderOf(x, a)
      BY <1>2, <2>1, <2>7, DeliverEffect DEF OrderInv
    <3>2. CASE p = Server(a) /\ out[p].n = 0
      <4>1. ~Due(Reader(a), x)
        BY <2>2, <3>2 DEF RoleInv, WalkInv, Due, Walking
      <4>2. told[x][a].kind = "none"
        BY <2>4, <3>1, <3>2 DEF OrderOf
      <4> QED
        BY <2>2, <2>3, <2>4, <3>1, <3>2, <4>1, <4>2 DEF OrderOf, Gone
    <3>3. CASE pc[Server(a)] = "done" /\ out[p].kind = "exit"
      <4>1. ~Due(Server(a), x)
        BY <3>3 DEF WalkInv, Due, Walking
      <4> QED
        BY <2>2, <2>3, <3>1, <3>3, <4>1 DEF OrderOf
    <3>4. CASE p = Reader(a) /\ pc[Server(a)] = "done" /\ out[p].kind # "exit"
      <4>1. ~Due(Server(a), x)
        BY <3>4 DEF WalkInv, Due, Walking
      <4>2. out[p].n = sent[a]
        BY <2>2, <3>4 DEF LatestInv
      <4> QED
        BY <2>2, <2>3, <2>4, <3>1, <3>4, <4>1, <4>2 DEF OrderOf
    <3> QED
      BY <2>2, <2>7, <3>2, <3>3, <3>4, SenderKinds
  <2> QED
    BY <2>5, <2>6, <2>7 DEF OrderInv
<1>3. ASSUME NEW p \in Procs, WalkDone(p) PROVE OrderInv'
  <2>1. UNCHANGED <<told, sent, writing, todo, dst>> /\ todo[p] = {} /\ dst[p] = NoClient
    BY <1>3 DEF WalkDone, WalkInv
  <2>2. \A q \in Procs \ {p} : out'[q] = out[q]
    BY <1>3, WalkDoneEffect
  <2>3. \A q \in Procs, x \in Clients : Due(q, x)' => Due(q, x) /\ out'[q] = out[q]
    BY <2>1, <2>2 DEF Due
  <2> QED
    BY <2>1, <2>3 DEF OrderInv, OrderOf
<1>4. ASSUME NEW p \in Procs, Lock(p) PROVE OrderInv'
  BY <1>4 DEF Lock, TypeOK, OrderInv, OrderOf, Due, Gone
<1>5. ASSUME NEW p \in Procs, RemoveClient(p) PROVE OrderInv'
  <2>1. ~Walking(p)
    BY <1>5, RemoveEffect DEF Walking
  <2>2. \A q \in Procs, x \in Clients :
          (Due(q, x)' /\ out'[q].kind # "exit") => Due(q, x) /\ out'[q] = out[q]
    BY <1>5, RemoveEffect DEF Due, Out
  <2>3. \A a \in Clients : p # Server(a)
    BY <1>5, RemoveEffect DEF RoleInv
  <2>4. \A a, x \in Clients : Due(Server(a), x)' => Due(Server(a), x)
    BY <1>5, <2>3, RemoveEffect DEF Due
  <2>5. UNCHANGED <<told, sent, writing>>
    BY <1>5, RemoveEffect
  <2> QED
    BY <2>2, <2>4, <2>5 DEF OrderInv, OrderOf
<1>6. ASSUME NEW c \in Clients, AddClient(c) PROVE OrderInv'
  <2>1. /\ UNCHANGED <<told, sent, writing, out, dst>>
        /\ \A q \in Procs, x \in Clients \ {c} : Due(q, x)' => Due(q, x)
    BY <1>6 DEF AddClient, Due, TypeOK
  <2>2. pc[Writer(c)] = "idle"
    BY <1>6 DEF AddClient, RoleInv
  <2>3. \A a \in Clients : told[c][a].kind = "none" /\ writing[c].src # a
    BY <2>2 DEF FreshInv, WalkInv, NoNews, Heard, NoFrame, Frame
  <2> QED
    BY <2>1, <2>3 DEF OrderInv, OrderOf, Gone
<1>7. ASSUME NEW c \in Clients, Announce(c) PROVE OrderInv'
  <2>1. /\ UNCHANGED <<told, sent, writing, dst>> /\ pc[Server(c)] = "announce"
        /\ \A q \in Procs \ {Server(c)} : out'[q] = out[q] /\ todo'[q] = todo[q]
    BY <1>7 DEF Announce, StartWalk, TypeOK
  <2>2. \A x \in Clients : told[x][c].kind = "none" /\ writing[x].src # c
    BY <2>1 DEF NewsInv, Walking
  <2>3. \A q \in Procs \ {Server(c)}, x \in Clients : Due(q, x)' <=> Due(q, x)
    BY <2>1 DEF Due
  <2> QED
    BY <2>1, <2>2, <2>3 DEF OrderInv, OrderOf, Gone
<1>8. ASSUME NEW c \in Clients, DebugWritten(c) PROVE OrderInv'
  BY <1>8 DEF DebugWritten, TypeOK, OrderInv, OrderOf, Due, Gone
<1>9. ASSUME NEW c \in Clients, Tick(c) PROVE OrderInv'
  BY <1>9 DEF Tick, Frame, WalkInv, TypeOK, OrderInv, OrderOf, Due, Gone
<1>10. ASSUME NEW c \in Clients, Written(c) PROVE OrderInv'
  BY <1>10 DEF Written, NoFrame, Frame, Heard, TypeOK, OrderInv, OrderOf, Due,
     Gone
<1>11. ASSUME NEW c \in Clients, WriteFails(c) PROVE OrderInv'
  BY <1>11 DEF WriteFails, NoFrame, Frame, TypeOK, OrderInv, OrderOf, Due, Gone
<1>12. ASSUME NEW c \in Clients, Upgrade(c) PROVE OrderInv'
  BY <1>12 DEF Upgrade, TypeOK, OrderInv, OrderOf, Due, Gone
<1>13. ASSUME NEW c \in Clients, NEW k \in EventKinds, BroadcastEvent(c, k)
        PROVE  OrderInv'
  BY <1>13 DEF BroadcastEvent, ReadEvent, StartWalk, Recipients, Out,
     WalkInv, NumberInv, TypeOK, OrderInv, OrderOf, Due, Gone
<1>14. ASSUME NEW c \in Clients, NEW t \in Clients, PrivateText(c, t)
        PROVE  OrderInv'
  BY <1>14 DEF PrivateText, ReadEvent, StartWalk, Recipients, Out, WalkInv,
     NumberInv, TypeOK, OrderInv, OrderOf, Due, Gone
<1>15. ASSUME NEW c \in Clients, DebugEvent(c) PROVE OrderInv'
  BY <1>15 DEF DebugEvent, ReadEvent, NumberInv, TypeOK, OrderInv, OrderOf,
     Due, Gone
<1>16. ASSUME NEW c \in Clients, IgnoredEvent(c) PROVE OrderInv'
  BY <1>16 DEF IgnoredEvent, ReadEvent, NumberInv, TypeOK, OrderInv,
     OrderOf, Due, Gone
<1>17. ASSUME NEW c \in Clients, ReadFails(c) PROVE OrderInv'
  BY <1>17 DEF ReadFails, TypeOK, OrderInv, OrderOf, Due, Gone
<1>18. ASSUME NEW c \in Clients, Disconnect(c) \/ MixFrames(c)
       PROVE  OrderInv'
  BY <1>18 DEF Disconnect, MixFrames, TypeOK, OrderInv, OrderOf, Due, Gone
<1>19. CASE Crash
  BY <1>19 DEF Crash, TypeOK, OrderInv, OrderOf, Due, Gone
<1>20. CASE UNCHANGED vars
  BY <1>20 DEF vars, TypeOK, OrderInv, OrderOf, Due, Gone
<1> QED
  BY <1>1, <1>2, <1>3, <1>4, <1>5, <1>6, <1>7, <1>8, <1>9, <1>10, <1>11,
     <1>12, <1>13, <1>14, <1>15, <1>16, <1>17, <1>18, <1>19, <1>20 DEF Next,
     Shared, ServerStep, WriterStep, Environment

\* Every step keeps the healthy peers up to date or about to be.
LEMMA PeerNext ==
  TypeOK /\ RoleInv /\ WalkInv /\ JoinInv /\ FreshInv /\ NumberInv
         /\ LatestInv /\ PeerInv /\ [Next]_vars => PeerInv'
<1> SUFFICES ASSUME TypeOK, RoleInv, WalkInv, JoinInv, FreshInv, NumberInv,
       LatestInv, PeerInv, [Next]_vars
        PROVE  PeerInv'
  OBVIOUS
<1> USE ProcFacts, ClientAssumption
<1>1. ASSUME NEW p \in Procs, NEW x \in Clients, NextPeer(p, x) PROVE PeerInv'
  BY <1>1 DEF NextPeer, WalkInv, TypeOK, PeerInv, Updated, Walking, Due, Gone
<1>2. ASSUME NEW p \in Procs, Deliver(p) PROVE PeerInv'
  <2>1. PICK x \in Clients :
          /\ x = dst[p] /\ Due(p, x) /\ ~Due(p, x)'
          /\ \A q \in Procs, y \in Clients :
               (q # p \/ y # x) => (Due(q, y)' <=> Due(q, y))
    BY <1>2, DeliverDue
  <2>2. /\ UNCHANGED <<told, sent, last, out, clients, conn>> /\ Walking(p)
        /\ \A q \in Procs : Walking(q)' <=> Walking(q)
    BY <1>2, DeliverDue DEF Deliver, Walking
  <2>3. ASSUME NEW y \in Clients, NEW a \in Clients, Updated(y, a), y # x
        PROVE  Updated(y, a)'
    <3>1. writing'[y] = writing[y]
      BY <1>2, <2>1, <2>3, DeliverEffect
    <3> QED
      BY <2>1, <2>2, <2>3, <3>1 DEF Updated
  <2>4. ASSUME NEW a \in Clients, Updated(x, a), a # Owner(p)
        PROVE  Updated(x, a)'
    <3>1. writing'[x].src # a /\ writing[x].src # a /\ Reader(a) # p
      BY <1>2, <2>1, <2>4, DeliverEffect DEF NoFrame, Frame
    <3> QED
      BY <2>1, <2>2, <2>4, <3>1 DEF Updated
  <2>5. ASSUME NEW a \in Clients, a = Owner(p)
        PROVE  Updated(x, a)'
    <3>1. writing'[x].src = a /\ writing'[x].kind = out[p].kind /\ writing'[x].n = out[p].n
      BY <1>2, <2>1, <2>5, DeliverEffect
    <3>2. last[a] \in Nat /\ sent[a] \in Nat
      BY DEF TypeOK
    <3>3. out[p].kind = "exit" \/ out[p].n >= last[a]
      <4>1. CASE p = Server(a) /\ out[p].n = 0
        BY <2>2, <3>2, <4>1 DEF NumberInv, Walking
      <4>2. CASE p = Reader(a) /\ out[p].kind # "exit"
        BY <2>2, <3>2, <4>2 DEF NumberInv, LatestInv
      <4> QED
        BY <2>2, <2>5, <4>1, <4>2, SenderKinds
    <3> QED
      BY <2>2, <3>1, <3>3 DEF Updated
  <2> QED
    BY <2>2, <2>3, <2>4, <2>5 DEF PeerInv
<1>3. ASSUME NEW p \in Procs, WalkDone(p) PROVE PeerInv'
  <2>1. /\ UNCHANGED <<told, last, writing, todo, dst, clients, conn>>
        /\ todo[p] = {} /\ dst[p] = NoClient
    BY <1>3 DEF WalkDone, WalkInv
  <2>2. \A q \in Procs \ {p} : out'[q] = out[q] /\ (Walking(q)' <=> Walking(q))
    BY <1>3, WalkDoneEffect DEF Walking
  <2>3. \A q \in Procs, x \in Clients : Due(q, x) => q # p /\ Due(q, x)'
    BY <2>1 DEF Due
  <2> QED
    BY <2>1, <2>2, <2>3 DEF PeerInv, Updated
<1>4. ASSUME NEW p \in Procs, Lock(p) PROVE PeerInv'
  BY <1>4 DEF Lock, TypeOK, PeerInv, Updated, Walking, Due, Gone
<1>5. ASSUME NEW p \in Procs, RemoveClient(p) PROVE PeerInv'
  <2>1. \A q \in Procs, x \in clients' : Walking(q) /\ Due(q, x) =>
          Walking(q)' /\ Due(q, x)' /\ out'[q] = out[q]
    BY <1>5, RemoveEffect DEF Due, Walking
  <2>2. /\ UNCHANGED <<told, last, writing>> /\ clients' \subseteq clients
        /\ \A x \in Clients : conn'[x] = "open" => conn[x] = "open"
    BY <1>5, RemoveEffect
  <2> QED
    BY <2>1, <2>2 DEF PeerInv, Updated
<1>6. ASSUME NEW c \in Clients, AddClient(c) PROVE PeerInv'
  <2>1. /\ UNCHANGED <<told, last, writing, out, dst, conn>>
        /\ clients' = clients \cup {c}
        /\ \A q \in Procs, x \in Clients : Due(q, x) => Due(q, x)'
        /\ \A q \in Procs : Walking(q)' <=> Walking(q)
    BY <1>6 DEF AddClient, Due, Walking, TypeOK
  <2>2. pc[Writer(c)] = "idle"
    BY <1>6 DEF AddClient, RoleInv
  <2>3. \A a \in Clients : told[c][a].kind = "none" /\ writing[c].src # a
    BY <2>2 DEF FreshInv, WalkInv, NoNews, Heard, NoFrame, Frame
  <2>4. \A a \in Clients : Updated(c, a)'
    BY <2>1, <2>3 DEF Updated, Gone
  <2>5. \A x, a \in Clients : Updated(x, a) => Updated(x, a)'
    BY <2>1 DEF Updated
  <2> QED
    BY <2>1, <2>4, <2>5 DEF PeerInv
<1>7. ASSUME NEW c \in Clients, Announce(c) PROVE PeerInv'
  BY <1>7 DEF Announce, StartWalk, Recipients, Out, RoleInv, TypeOK,
     PeerInv, Updated, Walking, Due, Gone
<1>8. ASSUME NEW c \in Clients, DebugWritten(c) PROVE PeerInv'
  BY <1>8 DEF DebugWritten, TypeOK, PeerInv, Updated, Walking, Due, Gone
<1>9. ASSUME NEW c \in Clients, Tick(c) PROVE PeerInv'
  <2>1. writing[c].src = NoClient /\ writing'[c].src = NoClient
    BY <1>9 DEF Tick, WalkInv, NoFrame, Frame, TypeOK
  <2>2. /\ UNCHANGED <<told, last, out, todo, dst, clients, conn>>
        /\ \A q \in Procs : Walking(q)' <=> Walking(q)
        /\ \A x \in Clients \ {c} : writing'[x] = writing[x]
    BY <1>9 DEF Tick, TypeOK, Walking
  <2>3. \A x, a \in Clients : Updated(x, a) => Updated(x, a)'
    BY <2>1, <2>2 DEF Updated, Due
  <2> QED
    BY <2>2, <2>3 DEF PeerInv
<1>10. ASSUME NEW c \in Clients, Written(c) PROVE PeerInv'
  BY <1>10 DEF Written, NoFrame, Frame, Heard, TypeOK, PeerInv, Updated,
     Walking, Due, Gone
<1>11. ASSUME NEW c \in Clients, WriteFails(c) PROVE PeerInv'
  BY <1>11 DEF WriteFails, NoFrame, Frame, TypeOK, PeerInv, Updated,
     Walking, Due, Gone
<1>12. ASSUME NEW c \in Clients, Upgrade(c) PROVE PeerInv'
  BY <1>12 DEF Upgrade, JoinInv, RoleInv, TypeOK, PeerInv, Updated, Walking,
     Due, Gone
<1>13. ASSUME NEW c \in Clients, NEW k \in EventKinds, BroadcastEvent(c, k)
        PROVE  PeerInv'
  <2>1. /\ UNCHANGED <<told, writing, dst, clients, conn>>
        /\ \A a \in Clients \ {c} : last'[a] = last[a]
        /\ \A q \in Procs \ {Reader(c)} :
             todo'[q] = todo[q] /\ out'[q] = out[q] /\ pc'[q] = pc[q]
    BY <1>13 DEF BroadcastEvent, ReadEvent, StartWalk, TypeOK
  <2>2. /\ pc'[Reader(c)] = "iter" /\ out'[Reader(c)].kind = k
        /\ todo'[Reader(c)] = {x \in clients : UUID[x] # UUID[c]}
        /\ k \notin {"private", "exit"}
    BY <1>13 DEF BroadcastEvent, StartWalk, Recipients, IsFor, Out, TypeOK
  <2>3. \A x \in clients : UUID[x] # UUID[c] => Updated(x, c)'
    BY <2>2 DEF Updated, Due, Walking
  <2>4. \A x \in Clients, a \in Clients \ {c} : Updated(x, a) => Updated(x, a)'
    BY <2>1 DEF Updated, Due, Walking
  <2> QED
    BY <2>1, <2>3, <2>4 DEF PeerInv
<1>14. ASSUME NEW c \in Clients, NEW t \in Clients, PrivateText(c, t)
        PROVE  PeerInv'
  BY <1>14 DEF PrivateText, ReadEvent, StartWalk, Recipients, Out,
     NumberInv, WalkInv, TypeOK, PeerInv, Updated, Walking, Due, Gone
<1>15. ASSUME NEW c \in Clients, DebugEvent(c) PROVE PeerInv'
  BY <1>15 DEF DebugEvent, ReadEvent, TypeOK, PeerInv, Updated, Walking,
     Due, Gone
<1>16. ASSUME NEW c \in Clients, IgnoredEvent(c) PROVE PeerInv'
  BY <1>16 DEF IgnoredEvent, ReadEvent, TypeOK, PeerInv, Updated, Walking,
     Due, Gone
<1>17. ASSUME NEW c \in Clients, ReadFails(c) PROVE PeerInv'
  BY <1>17 DEF ReadFails, TypeOK, PeerInv, Updated, Walking, Due, Gone
<1>18. ASSUME NEW c \in Clients, Disconnect(c) \/ MixFrames(c)
       PROVE  PeerInv'
  BY <1>18 DEF Disconnect, MixFrames, TypeOK, PeerInv, Updated, Walking, Due, Gone
<1>19. CASE Crash
  BY <1>19 DEF Crash, TypeOK, PeerInv, Updated, Walking, Due, Gone
<1>20. CASE UNCHANGED vars
  BY <1>20 DEF vars, TypeOK, PeerInv, Updated, Walking, Due, Gone
<1> QED
  BY <1>1, <1>2, <1>3, <1>4, <1>5, <1>6, <1>7, <1>8, <1>9, <1>10, <1>11,
     <1>12, <1>13, <1>14, <1>15, <1>16, <1>17, <1>18, <1>19, <1>20 DEF Next,
     Shared, ServerStep, WriterStep, Environment

\* Every step keeps the color messages no newer than the client's color.
LEMMA ColorNext ==
  TypeOK /\ RoleInv /\ WalkInv /\ ColorInv /\ NumberInv /\ LatestInv
         /\ [Next]_vars => ColorInv'
<1> SUFFICES ASSUME TypeOK, RoleInv, WalkInv, ColorInv, NumberInv,
       LatestInv, [Next]_vars
        PROVE  ColorInv'
  OBVIOUS
<1> USE ProcFacts, ClientAssumption
<1>1. ASSUME NEW p \in Procs, NEW x \in Clients, NextPeer(p, x) PROVE ColorInv'
  BY <1>1 DEF NextPeer, TypeOK, ColorInv, ColorOf, Walking, Due
<1>2. ASSUME NEW p \in Procs, Deliver(p) PROVE ColorInv'
  <2>1. PICK x \in Clients :
          /\ x = dst[p] /\ Due(p, x) /\ ~Due(p, x)'
          /\ \A q \in Procs, y \in Clients :
               (q # p \/ y # x) => (Due(q, y)' <=> Due(q, y))
    BY <1>2, DeliverDue
  <2>2. /\ UNCHANGED <<told, color, last, out>> /\ Walking(p)
        /\ \A q \in Procs : Walking(q)' <=> Walking(q)
        /\ \A q \in Procs, y \in Clients : Due(q, y)' => Due(q, y)
    BY <1>2, <2>1, DeliverDue DEF Deliver, Walking
  <2>3. ASSUME NEW y \in Clients, NEW a \in Clients, y # x \/ a # Owner(p)
        PROVE  ColorOf(y, a)'
    <3>1. writing'[y] = writing[y] \/ writing'[y].src # a
      BY <1>2, <2>1, <2>3, DeliverEffect
    <3> QED
      BY <2>2, <2>3, <3>1 DEF ColorOf, ColorInv
  <2>4. ASSUME NEW a \in Clients, a = Owner(p)
        PROVE  ColorOf(x, a)'
    <3>1. writing'[x].kind = out[p].kind /\ writing'[x].n = out[p].n /\ ColorOf(x, a)
      BY <1>2, <2>1, <2>4, DeliverEffect DEF ColorInv
    <3>2. out[p].kind = "color" => p = Reader(a)
      BY <2>2, <2>4, SenderKinds
    <3>3. color[a] \in Nat
      BY DEF TypeOK
    <3> QED
      BY <2>1, <2>2, <3>1, <3>2, <3>3 DEF ColorOf
  <2> QED
    BY <2>2, <2>3, <2>4 DEF ColorInv
<1>3. ASSUME NEW p \in Procs, WalkDone(p) PROVE ColorInv'
  BY <1>3 DEF WalkDone, NoOut, Out, TypeOK, ColorInv, ColorOf, Walking, Due
<1>4. ASSUME NEW p \in Procs, Lock(p) PROVE ColorInv'
  BY <1>4 DEF Lock, TypeOK, ColorInv, ColorOf, Walking, Due
<1>5. ASSUME NEW p \in Procs, RemoveClient(p) PROVE ColorInv'
  <2>1. \A q \in Procs, x \in Clients :
          (Walking(q)' /\ out'[q].kind = "color") =>
            Walking(q) /\ out'[q] = out[q] /\ (Due(q, x)' => Due(q, x))
    BY <1>5, RemoveEffect DEF Due, Walking, Out
  <2>2. UNCHANGED <<told, color, last, writing>>
    BY <1>5, RemoveEffect
  <2> QED
    BY <2>1, <2>2 DEF ColorInv, ColorOf
<1>6. ASSUME NEW c \in Clients, AddClient(c) PROVE ColorInv'
  <2>1. /\ UNCHANGED <<told, color, last, writing, out, dst>>
        /\ \A q \in Procs : Walking(q)' <=> Walking(q)
    BY <1>6 DEF AddClient, Walking, TypeOK
  <2>2. \A q \in Procs, x \in Clients :
          Due(q, x)' => Due(q, x) \/ (x = c /\ IsFor(out[q], Owner(q), c))
    <3>1. PICK W \in SUBSET WalksFor(c) :
            todo' = [q \in Procs |-> IF q \in W THEN todo[q] \cup {c} ELSE todo[q]]
      BY <1>6 DEF AddClient
    <3>2. \A q \in W : IsFor(out[q], Owner(q), c)
      BY <3>1 DEF WalksFor
    <3>3. \A q \in Procs, x \in Clients :
            x \in todo'[q] => x \in todo[q] \/ (x = c /\ q \in W)
      BY <3>1
    <3>4. dst' = dst
      BY <2>1
    <3> QED
      BY <3>2, <3>3, <3>4 DEF Due
  <2>3. ASSUME NEW x \in Clients, NEW a \in Clients, ColorOf(x, a)
        PROVE  ColorOf(x, a)'
    <3>1. CASE out[Reader(a)].to = NoClient
      BY <2>1, <2>2, <2>3, <3>1 DEF ColorOf, IsFor
    <3>2. CASE out[Reader(a)].to # NoClient
      BY <2>1, <2>3, <3>2 DEF ColorOf
    <3> QED
      BY <3>1, <3>2
  <2> QED
    BY <2>1, <2>3 DEF ColorInv
<1>7. ASSUME NEW c \in Clients, Announce(c) PROVE ColorInv'
  BY <1>7 DEF Announce, StartWalk, Recipients, Out, TypeOK, ColorInv,
     ColorOf, Walking, Due
<1>8. ASSUME NEW c \in Clients, DebugWritten(c) PROVE ColorInv'
  BY <1>8 DEF DebugWritten, TypeOK, ColorInv, ColorOf, Walking, Due
<1>9. ASSUME NEW c \in Clients, Tick(c) PROVE ColorInv'
  BY <1>9 DEF Tick, Frame, TypeOK, ColorInv, ColorOf, Walking, Due
<1>10. ASSUME NEW c \in Clients, Written(c) PROVE ColorInv'
  BY <1>10 DEF Written, NoFrame, Frame, Heard, TypeOK, ColorInv, ColorOf,
     Walking, Due
<1>11. ASSUME NEW c \in Clients, WriteFails(c) PROVE ColorInv'
  BY <1>11 DEF WriteFails, NoFrame, Frame, TypeOK, ColorInv, ColorOf,
     Walking, Due
<1>12. ASSUME NEW c \in Clients, Upgrade(c) PROVE ColorInv'
  BY <1>12 DEF Upgrade, TypeOK, ColorInv, ColorOf, Walking, Due
<1>13. ASSUME NEW c \in Clients, NEW k \in EventKinds, BroadcastEvent(c, k)
        PROVE  ColorInv'
  <2>1. /\ UNCHANGED <<told, writing>> /\ dst' = dst
        /\ \A a \in Clients \ {c} : last'[a] = last[a] /\ color'[a] = color[a]
        /\ \A q \in Procs \ {Reader(c)} :
             todo'[q] = todo[q] /\ out'[q] = out[q] /\ pc'[q] = pc[q]
    BY <1>13 DEF BroadcastEvent, ReadEvent, StartWalk, TypeOK
  <2>2. /\ out'[Reader(c)] = Out(k, sent[c] + 1, NoClient) /\ pc[Reader(c)] = "read"
        /\ todo'[Reader(c)] = {x \in clients : UUID[x] # UUID[c]}
    BY <1>13 DEF BroadcastEvent, ReadEvent, StartWalk, Recipients, IsFor,
       Out, TypeOK
  <2>3. /\ last'[c] = sent[c] + 1
        /\ color'[c] = IF k = "color" THEN sent[c] + 1 ELSE color[c]
    BY <1>13 DEF BroadcastEvent, TypeOK
  <2>4. /\ color[c] \in Nat /\ last[c] \in Nat /\ sent[c] \in Nat
        /\ color[c] <= last[c] /\ last[c] <= sent[c]
    BY DEF TypeOK, ColorInv, NumberInv
  <2>5. \A x \in Clients, a \in Clients \ {c} : ColorOf(x, a)'
    BY <2>1 DEF ColorOf, ColorInv, Due, Walking
  <2>6. ASSUME NEW x \in Clients PROVE ColorOf(x, c)'
    <3>1. /\ dst[Reader(c)] = NoClient /\ ColorOf(x, c)
          /\ told[x][c].n \in Nat /\ writing[x].n \in Nat
      BY <2>2 DEF WalkInv, ColorInv, TypeOK
    <3> QED
      BY <2>1, <2>2, <2>3, <2>4, <3>1 DEF ColorOf, Due, Out
  <2> QED
    BY <2>1, <2>3, <2>4, <2>5, <2>6 DEF ColorInv
<1>14. ASSUME NEW c \in Clients, NEW t \in Clients, PrivateText(c, t)
        PROVE  ColorInv'
  BY <1>14 DEF PrivateText, ReadEvent, StartWalk, Recipients, Out, WalkInv,
     TypeOK, ColorInv, ColorOf, Walking, Due
<1>15. ASSUME NEW c \in Clients, DebugEvent(c) PROVE ColorInv'
  BY <1>15 DEF DebugEvent, ReadEvent, TypeOK, ColorInv, ColorOf, Walking, Due
<1>16. ASSUME NEW c \in Clients, IgnoredEvent(c) PROVE ColorInv'
  BY <1>16 DEF IgnoredEvent, ReadEvent, TypeOK, ColorInv, ColorOf, Walking, Due
<1>17. ASSUME NEW c \in Clients, ReadFails(c) PROVE ColorInv'
  BY <1>17 DEF ReadFails, TypeOK, ColorInv, ColorOf, Walking, Due
<1>18. ASSUME NEW c \in Clients, Disconnect(c) \/ MixFrames(c)
       PROVE  ColorInv'
  BY <1>18 DEF Disconnect, MixFrames, TypeOK, ColorInv, ColorOf, Walking, Due
<1>19. CASE Crash
  BY <1>19 DEF Crash, TypeOK, ColorInv, ColorOf, Walking, Due
<1>20. CASE UNCHANGED vars
  BY <1>20 DEF vars, TypeOK, ColorInv, ColorOf, Walking, Due
<1> QED
  BY <1>1, <1>2, <1>3, <1>4, <1>5, <1>6, <1>7, <1>8, <1>9, <1>10, <1>11,
     <1>12, <1>13, <1>14, <1>15, <1>16, <1>17, <1>18, <1>19, <1>20 DEF Next,
     Shared, ServerStep, WriterStep, Environment

-----------------------------------------------------------------------------
(***************************************************************************)
(* The inductive invariant and what follows from it.                       *)
(***************************************************************************)

\* The inductive invariant holds initially.
LEMMA InvInit == Init => IInv
<1> SUFFICES ASSUME Init PROVE IInv
  OBVIOUS
<1> USE ProcFacts, ClientAssumption
<1>1. TypeOK
  BY TypeInit
<1>2. RoleInv /\ WalkInv /\ JoinInv /\ WaitInv
  BY DEF Init, RoleInv, WalkInv, JoinInv, WaitInv, Walking, Due
<1>3. ExitInv /\ MutexInv
  BY DEF Init, ExitInv, MutexInv, InCritical, Walking
<1>4. NewsInv /\ FreshInv /\ NumberInv
  BY DEF Init, NewsInv, FreshInv, NumberInv, NoNews, Heard, NoFrame, Frame
<1>5. LatestInv /\ OrderInv
  BY DEF Init, LatestInv, OrderInv, OrderOf, Walking, Due, NoFrame, Frame
<1>6. PeerInv /\ ColorInv
  BY DEF Init, PeerInv, ColorInv, ColorOf, Walking, NoNews, Heard, NoFrame, Frame
<1> QED
  BY <1>1, <1>2, <1>3, <1>4, <1>5, <1>6 DEF IInv

\* Every step preserves the inductive invariant.
LEMMA InvNext == IInv /\ [Next]_vars => IInv'
BY TypeNext, RoleNext, WalkNext, JoinNext, WaitNext, ExitNext, MutexNext,
   NewsNext, FreshNext, NumberNext, LatestNext, OrderNext, PeerNext, ColorNext DEF IInv

\* The inductive invariant holds in every reachable state.
THEOREM Invariance == Spec => []IInv
BY InvInit, InvNext, PTL DEF Spec

\* The reader and the writer of a client both end in removeClient, and its
\* peers are notified of its exit at most once.
THEOREM ExitNotifiedOnce == Spec => []ExitOnce
<1>1. ASSUME IInv PROVE ExitOnce
  <2>1. \A c \in Clients : exits[c] = 0 \/ exits[c] = 1
    BY <1>1 DEF IInv, ExitInv
  <2> QED
    BY <2>1 DEF ExitOnce
<1> QED
  BY Invariance, <1>1, PTL

\* addClient and removeClient exclude each other, the notification that
\* removeClient makes with the mutex held included.
THEOREM MutualExclusion ==
  Spec => [](\A p, q \in Procs : InCritical(p) /\ InCritical(q) => p = q)
<1>1. IInv => \A p, q \in Procs : InCritical(p) /\ InCritical(q) => p = q
  BY DEF IInv, MutexInv
<1> QED
  BY Invariance, <1>1, PTL

\* While nobody is leaving, nobody waits for somebody who waits in turn: with
\* any number of clients, a broadcast that waits does so at a writer that will
\* take the message, at a client that is being announced or at one that left;
\* the announcement of the only such client waits at no client like it; and the
\* mutex is held only by an addClient, which is about to give it back.
THEOREM NobodyStuck == Spec => []NoCircularWait
<1>1. ASSUME IInv, Calm PROVE NoCircularWait
  <2> USE <1>1, ProcFacts, ClientAssumption DEF IInv
  <2>1. ASSUME NEW p \in Procs, pc[p] = "send"
        PROVE  dst[p] \notin Joining =>
                 Responsive(dst[p]) \/ HasLeft(dst[p])
    <3>1. dst[p] \in Clients /\ Due(p, dst[p])
      BY <2>1 DEF WalkInv, Due
    <3>2. CASE dst[p] \in Joining
      BY <3>1, <3>2
    <3>3. CASE dst[p] \notin Joining
      <4>1. pc[Server(dst[p])] = "done"
        BY <3>1, <3>3 DEF Joining, JoinInv
      <4>2. pc[Writer(dst[p])] \in {"select", "write", "iter", "send",
                                    "lock", "remove", "done"}
        BY <3>1, <4>1 DEF WaitInv, RoleInv
      <4>3. pc[Writer(dst[p])] \notin {"lock", "remove", "iter", "send"}
        BY <3>1 DEF Calm, RoleInv, Walking, Out
      <4> QED
        BY <3>1, <4>2, <4>3 DEF Responsive, HasLeft
    <3> QED
      BY <3>2, <3>3
  <2>2. ASSUME NEW c \in Clients, Joining = {c}, pc[Server(c)] = "send"
        PROVE  Responsive(dst[Server(c)]) \/ HasLeft(dst[Server(c)])
    <3>1. dst[Server(c)] \in Clients /\ Due(Server(c), dst[Server(c)])
      BY <2>2 DEF WalkInv, Due
    <3>2. IsFor(Out("init", 0, NoClient), c, dst[Server(c)])
      BY <2>2, <3>1 DEF WaitInv, RoleInv, Walking
    <3>3. dst[Server(c)] \notin Joining
      BY <2>2, <3>2 DEF IsFor, Out
    <3> QED
      BY <2>1, <2>2, <3>3
  <2>3. ASSUME lock # NoProc PROVE pc[lock] = "insert"
    <3>1. lock \in Procs /\ InCritical(lock)
      BY <2>3 DEF TypeOK, MutexInv
    <3>2. pc[lock] # "remove" /\ (Walking(lock) => out[lock].kind # "exit")
      BY <3>1 DEF Calm, RoleInv, Out
    <3> QED
      BY <3>1, <3>2 DEF InCritical
  <2> QED
    BY <2>1, <2>2, <2>3 DEF NoCircularWait
<1>2. IInv => NoCircularWait
  BY <1>1 DEF NoCircularWait
<1> QED
  BY Invariance, <1>2, PTL

\* Nobody is sent an event or the exit of a client before serveWS has finished
\* announcing that client.
THEOREM AnnouncementFirst == Spec => []AnnouncedFirst
<1>1. IInv => AnnouncedFirst
  BY DEF IInv, NewsInv, AnnouncedFirst
<1> QED
  BY Invariance, <1>1, PTL

\* A broadcast skips no healthy registered peer that has heard of its sender.
THEOREM NobodySkipped == Spec => []PeersUpToDate
<1>1. IInv => PeersUpToDate
  BY DEF IInv, PeerInv, Updated, PeersUpToDate, Holds, Walking, Gone
<1> QED
  BY Invariance, <1>1, PTL

\* A healthy peer's latest news of an idle client, when it is a color, is the
\* color the server keeps for that client.
THEOREM ColorsAgree == Spec => []ColorAgreed
<1>1. ASSUME IInv PROVE ColorAgreed
  <2> SUFFICES ASSUME NEW x \in Clients, NEW a \in Clients,
                      x \in clients, conn[x] = "open",
                             told[x][a].kind = "color",
                      ~Walking(Reader(a)), ~Holds(x, a)
               PROVE  told[x][a].n = color[a]
    BY DEF ColorAgreed, Walking
  <2>1. told[x][a].n \in Nat /\ color[a] \in Nat /\ last[a] \in Nat
    BY <1>1 DEF IInv, TypeOK
  <2>2. told[x][a].n <= color[a] /\ color[a] <= last[a] /\ UUID[x] # UUID[a]
    BY <1>1 DEF IInv, ColorInv, ColorOf
  <2>3. told[x][a].n >= last[a]
    BY <1>1, <2>2 DEF IInv, PeerInv, Updated, Holds, Gone
  <2> QED
    BY <2>1, <2>2, <2>3
<1> QED
  BY Invariance, <1>1, PTL

\* A peer is never sent an event of a client after a later one, nor the
\* announcement of a client after one of its events.
THEOREM DeliveryInOrder == Spec => InOrder
<1> DEFINE Kept(x, a) ==
      \/ told'[x][a] = told[x][a]
      \/ {told[x][a].kind, told'[x][a].kind} \cap {"none", "exit"} # {}
      \/ told'[x][a].n > told[x][a].n
<1>1. ASSUME IInv, NEW c \in Clients, Written(c), NEW x \in Clients,
       NEW a \in Clients
      PROVE  Kept(x, a)
  <2>1. CASE told'[x][a] = told[x][a]
    BY <2>1
  <2>2. CASE told'[x][a] # told[x][a]
    <3>1. x = c /\ writing[c].src = a
      BY <1>1, <2>2, WrittenNews DEF IInv
    <3>2. told'[x][a].kind = writing[c].kind /\ told'[x][a].n = writing[c].n
      BY <1>1, <2>2, WrittenNews DEF IInv
    <3>3. OrderOf(x, a)
      BY <1>1 DEF IInv, OrderInv
    <3>4. CASE writing[c].kind = "exit"
      BY <3>2, <3>4
    <3>5. CASE Gone(told[x][a].kind)
      BY <3>5 DEF Gone
    <3>6. CASE told[x][a].n < writing[c].n
      <4>1. told[x][a].n \in Nat /\ writing[c].n \in Nat
        BY <1>1 DEF IInv, TypeOK
      <4> QED
        BY <3>2, <3>6, <4>1
    <3> QED
      BY <3>1, <3>3, <3>4, <3>5, <3>6 DEF OrderOf
  <2> QED
    BY <2>1, <2>2
<1>2. ASSUME IInv, [Next]_vars, NEW x \in Clients, NEW a \in Clients
      PROVE  Kept(x, a)
  <2>1. CASE \E c \in Clients : Written(c)
    BY <1>1, <1>2, <2>1
  <2>2. CASE ~\E c \in Clients : Written(c)
    <3>1. ASSUME NEW c \in Clients, Environment(c) PROVE told' = told
      BY <3>1 DEF Environment, Upgrade, ReadEvent, BroadcastEvent, PrivateText,
         DebugEvent, IgnoredEvent, ReadFails, Disconnect
    <3>2. ASSUME NEW p \in Procs, Shared(p) PROVE told' = told
      BY <3>2 DEF Shared, NextPeer, Deliver, WalkDone, Lock, RemoveClient
    <3>4. ASSUME NEW c \in Clients,
                 ServerStep(c) \/ DebugWritten(c) \/ WriterStep(c)
          PROVE  told' = told
      BY <2>2, <3>4 DEF ServerStep, AddClient, Announce, DebugWritten,
         WriterStep, Tick, WriteFails
    <3>3. CASE Crash \/ (\E c \in Clients : MixFrames(c)) \/ UNCHANGED vars
      BY <3>3 DEF Crash, MixFrames, vars
    <3> QED
      BY <1>2, <3>1, <3>2, <3>3, <3>4 DEF Next
  <2> QED
    BY <2>1, <2>2
<1>3. IInv /\ [Next]_vars => [\A x, a \in Clients : Kept(x, a)]_vars
  BY <1>2
<1> QED
  BY Invariance, <1>3, PTL DEF Spec, InOrder
=============================================================================
