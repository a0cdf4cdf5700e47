----------------------------- MODULE RosterProofs -----------------------------
(***************************************************************************)
(* Manager implements Roster, for any number of clients, events and joins. *)
(***************************************************************************)
EXTENDS ManagerProofs

EventKind == {"pos", "color", "text", "private"}

\* What p broadcasts is an announcement, an event that was routed, or the exit
\* of a client that was removed.
OutOf(p) ==
  \/ out[p].kind = "init" /\ out[p].n = 0
  \/ out[p].kind \in EventKind /\ out[p].n \in 1..sent[Owner(p)]
  \/ out[p].kind = "exit" /\ out[p].n = 0 /\ exits[Owner(p)] # 0

\* So is what x's writer holds of a, and the announcement is held only for a
\* peer that has heard nothing of a.
HeldOf(x, a) ==
  \/ writing[x].kind = "init" /\ writing[x].n = 0 /\ told[x][a] = NoNews
  \/ writing[x].kind \in EventKind /\ writing[x].n \in 1..sent[a]
  \/ writing[x].kind = "exit" /\ writing[x].n = 0 /\ exits[a] # 0

\* Nobody was told the exit of a client that was not removed.
ToldOf(x, a) == /\ told[x][a].kind = "none" => told[x][a] = NoNews
                /\ told[x][a].left => exits[a] # 0

HeldInv == /\ \A p \in Procs : Walking(p) => OutOf(p)
           /\ \A x, a \in Clients : /\ writing[x].src = a => HeldOf(x, a)
                                    /\ ToldOf(x, a)

-----------------------------------------------------------------------------
(***************************************************************************)
(* The invariant.                                                          *)
(***************************************************************************)

LEMMA HeldInit == Init => HeldInv
BY ClientAssumption
   DEF Init, HeldInv, Walking, NoFrame, Frame, NoNews, Heard, ToldOf

\* A step that writes nothing, starts no walk and takes back no event or exit
\* keeps the invariant.
LEMMA HeldStays ==
  ASSUME IInv, HeldInv, UNCHANGED <<writing, told>>, sent' \in [Clients -> Nat],
         exits' \in [Clients -> Nat],
         \A a \in Clients : sent'[a] >= sent[a] /\ (exits[a] # 0 => exits'[a] # 0),
         \A p \in Procs : Walking(p)' => \/ Walking(p) /\ out'[p] = out[p]
                                         \/ OutOf(p)'
  PROVE  HeldInv'
<1> USE DEF IInv, TypeOK
<1>1. ASSUME NEW p \in Procs, Walking(p)' PROVE OutOf(p)'
  BY <1>1, ProcFacts DEF HeldInv, OutOf
<1>2. ASSUME NEW x \in Clients, NEW a \in Clients, writing'[x].src = a
      PROVE  HeldOf(x, a)'
  <2>1. writing[x].src = a /\ HeldOf(x, a)
    BY <1>2 DEF HeldInv
  <2> QED
    BY <2>1 DEF HeldOf
<1>3. ASSUME NEW x \in Clients, NEW a \in Clients PROVE ToldOf(x, a)'
  <2>1. ToldOf(x, a)
    BY DEF HeldInv
  <2> QED
    BY <2>1 DEF ToldOf
<1> QED
  BY ONLY <1>1, <1>2, <1>3 DEF HeldInv

\* The walk that a reader starts for an event broadcasts an event just routed.
LEMMA EventWalk ==
  ASSUME IInv, NEW c \in Clients, NEW k \in EventKind, NEW t \in Clients \cup {NoClient},
         StartWalk(Reader(c), Out(k, sent[c] + 1, t)),
         sent' = [sent EXCEPT ![c] = @ + 1]
  PROVE  /\ OutOf(Reader(c))'
         /\ \A p \in Procs : Walking(p)' => \/ Walking(p) /\ out'[p] = out[p]
                                            \/ OutOf(p)'
<1> USE ProcFacts DEF IInv, TypeOK
<1>1. out'[Reader(c)].kind = k /\ out'[Reader(c)].n = sent[c] + 1
  BY DEF StartWalk, Out
<1>2. sent'[c] = sent[c] + 1 /\ sent[c] + 1 \in 1..(sent[c] + 1)
  OBVIOUS
<1>3. OutOf(Reader(c))'
  BY <1>1, <1>2 DEF OutOf
<1>4. \A p \in Procs \ {Reader(c)} : pc'[p] = pc[p] /\ out'[p] = out[p]
  BY DEF StartWalk
<1> QED
  BY <1>3, <1>4 DEF Walking

\* What is delivered is held by the addressee's writer.
LEMMA HeldDeliver ==
  ASSUME IInv, HeldInv, NEW p \in Procs, Deliver(p)
  PROVE  HeldInv'
<1> USE DEF IInv
<1>1. PICK x \in Clients : x = dst[p]
  BY DeliverEffect
<1>2. /\ Walking(p) /\ Due(p, x) /\ Owner(p) \in Clients
      /\ out' = out /\ UNCHANGED <<told, sent, exits>>
      /\ \A q \in Procs : Walking(q)' <=> Walking(q)
  BY <1>1, DeliverEffect, DeliverDue, ProcFacts DEF Deliver, Walking, Due
<1>3. /\ writing'[x].kind = out[p].kind /\ writing'[x].src = Owner(p)
      /\ writing'[x].n = out[p].n
      /\ \A y \in Clients \ {x} : writing'[y] = writing[y]
  BY <1>1, DeliverEffect
<1>4. OutOf(p)
  BY <1>2 DEF HeldInv
<1>5. out[p].kind = "init" => told[x][Owner(p)] = NoNews
  <2> SUFFICES ASSUME out[p].kind = "init" PROVE told[x][Owner(p)] = NoNews
    OBVIOUS
  <2>1. p = Server(Owner(p))
    BY <1>2, SenderKinds
  <2>2. told[x][Owner(p)].kind = "none"
    BY <1>2, <2>1 DEF OrderInv, OrderOf
  <2> QED
    BY <1>2, <2>2 DEF HeldInv, ToldOf
<1>6. HeldOf(x, Owner(p))'
  BY <1>2, <1>3, <1>4, <1>5 DEF HeldOf, OutOf
<1>7. ASSUME NEW q \in Procs, Walking(q)' PROVE OutOf(q)'
  BY <1>2, <1>7 DEF HeldInv, OutOf
<1>8. ASSUME NEW y \in Clients, NEW a \in Clients, writing'[y].src = a
      PROVE  HeldOf(y, a)'
  <2>1. CASE y = x
    BY <1>3, <1>6, <1>8, <2>1
  <2>2. CASE y # x
    <3>1. writing[y].src = a /\ HeldOf(y, a) /\ writing'[y] = writing[y]
      BY <1>3, <1>8, <2>2 DEF HeldInv
    <3> QED
      BY <1>2, <3>1 DEF HeldOf
  <2> QED
    BY <2>1, <2>2
<1>9. ASSUME NEW y \in Clients, NEW a \in Clients PROVE ToldOf(y, a)'
  <2>1. ToldOf(y, a)
    BY DEF HeldInv
  <2> QED
    BY <1>2, <2>1 DEF ToldOf
<1> QED
  BY ONLY <1>7, <1>8, <1>9 DEF HeldInv

\* What is written becomes news of the kind it was held as.
LEMMA HeldWritten ==
  ASSUME IInv, HeldInv, NEW c \in Clients, Written(c)
  PROVE  HeldInv'
<1> USE DEF IInv, TypeOK
<1>1. /\ writing'[c] = NoFrame /\ \A x \in Clients \ {c} : writing'[x] = writing[x]
      /\ out' = out /\ UNCHANGED <<sent, exits>>
      /\ \A p \in Procs : Walking(p)' <=> Walking(p)
  BY ProcFacts DEF Written, Walking
<1>2. \A x, a \in Clients :
        x # c \/ a # writing[c].src => told'[x][a] = told[x][a]
  BY WrittenNews
<1>3. ASSUME NEW p \in Procs, Walking(p)' PROVE OutOf(p)'
  BY <1>1, <1>3 DEF HeldInv, OutOf
<1>4. ASSUME NEW x \in Clients, NEW a \in Clients, writing'[x].src = a
      PROVE  HeldOf(x, a)'
  <2>1. x # c
    BY <1>1, <1>4, ClientAssumption DEF NoFrame, Frame
  <2>2. writing[x].src = a /\ HeldOf(x, a) /\ writing'[x] = writing[x]
        /\ told'[x][a] = told[x][a]
    BY <1>1, <1>2, <1>4, <2>1 DEF HeldInv
  <2> QED
    BY <1>1, <2>2 DEF HeldOf
<1>5. ASSUME NEW x \in Clients, NEW a \in Clients PROVE ToldOf(x, a)'
  <2>1. CASE told'[x][a] = told[x][a]
    BY <1>1, <2>1 DEF HeldInv, ToldOf
  <2>2. CASE told'[x][a] # told[x][a]
    <3>1. /\ x = c /\ a = writing[c].src
          /\ told'[x][a].kind = writing[c].kind
          /\ told'[x][a].left = (told[x][a].left \/ writing[c].kind = "exit")
      BY <2>2, WrittenNews
    <3>2. HeldOf(x, a) /\ ToldOf(x, a)
      BY <3>1 DEF HeldInv
    <3>3. told'[x][a].kind # "none"
      BY <3>1, <3>2 DEF HeldOf, EventKind
    <3>4. told'[x][a].left => exits[a] # 0
      BY <3>1, <3>2 DEF HeldOf, ToldOf, EventKind
    <3> QED
      BY <1>1, <3>3, <3>4 DEF ToldOf
  <2> QED
    BY <2>1, <2>2
<1> QED
  BY ONLY <1>3, <1>4, <1>5 DEF HeldInv

\* The first removeClient of a client starts the walk that tells its exit.
LEMMA HeldRemove ==
  ASSUME IInv, HeldInv, NEW p \in Procs, RemoveClient(p)
  PROVE  HeldInv'
<1> USE ProcFacts DEF IInv, TypeOK
<1>1. UNCHANGED <<writing, told, sent>>
  BY DEF RemoveClient
<1>2. CASE Owner(p) \in clients
  <2>1. /\ out' = [out EXCEPT ![p] = Out("exit", 0, NoClient)]
        /\ exits' = [exits EXCEPT ![Owner(p)] = @ + 1]
        /\ pc' = [pc EXCEPT ![p] = "iter"]
    BY <1>2 DEF RemoveClient
  <2>2. out'[p].kind = "exit" /\ out'[p].n = 0 /\ exits'[Owner(p)] # 0
    BY <2>1 DEF Out
  <2>3. \A q \in Procs \ {p} : pc'[q] = pc[q] /\ out'[q] = out[q]
    BY <2>1
  <2>4. \A q \in Procs : Walking(q)' => \/ Walking(q) /\ out'[q] = out[q]
                                        \/ OutOf(q)'
    BY <2>2, <2>3 DEF Walking, OutOf
  <2>5. /\ exits' \in [Clients -> Nat]
        /\ \A a \in Clients : exits[a] # 0 => exits'[a] # 0
    BY <2>1
  <2> QED
    BY <1>1, <2>4, <2>5, HeldStays
<1>3. CASE Owner(p) \notin clients
  <2>1. /\ UNCHANGED <<out, exits>> /\ pc' = [pc EXCEPT ![p] = "done"]
    BY <1>3 DEF RemoveClient
  <2>2. \A q \in Procs : Walking(q)' => Walking(q) /\ out'[q] = out[q]
    BY <2>1 DEF Walking
  <2> QED
    BY <1>1, <2>1, <2>2, HeldStays
<1> QED
  BY <1>2, <1>3

\* Every step keeps the invariant.
LEMMA HeldNext == IInv /\ HeldInv /\ [Next]_vars => HeldInv'
<1> SUFFICES ASSUME IInv, HeldInv, [Next]_vars PROVE HeldInv'
  OBVIOUS
<1> USE ProcFacts DEF IInv, TypeOK
<1>1. ASSUME NEW p \in Procs, NEW x \in Clients, NextPeer(p, x) PROVE HeldInv'
  BY <1>1, HeldStays DEF NextPeer, Walking
<1>2. ASSUME NEW p \in Procs, Deliver(p) PROVE HeldInv'
  BY <1>2, HeldDeliver
<1>3. ASSUME NEW p \in Procs, WalkDone(p) PROVE HeldInv'
  <2>1. /\ UNCHANGED <<writing, told, sent, exits>>
        /\ \A q \in Procs : Walking(q)' => Walking(q) /\ out'[q] = out[q]
    BY <1>3, WalkDoneEffect DEF WalkDone, Walking
  <2> QED
    BY <2>1, HeldStays
<1>4. ASSUME NEW p \in Procs, Lock(p) PROVE HeldInv'
  BY <1>4, HeldStays DEF Lock, Walking
<1>5. ASSUME NEW p \in Procs, RemoveClient(p) PROVE HeldInv'
  BY <1>5, HeldRemove
<1>6. ASSUME NEW c \in Clients, AddClient(c) PROVE HeldInv'
  BY <1>6, HeldStays DEF AddClient, Walking
<1>7. ASSUME NEW c \in Clients, Announce(c) PROVE HeldInv'
  <2>1. /\ UNCHANGED <<writing, told, sent, exits>>
        /\ out'[Server(c)].kind = "init" /\ out'[Server(c)].n = 0
        /\ \A q \in Procs \ {Server(c)} : pc'[q] = pc[q] /\ out'[q] = out[q]
    BY <1>7 DEF Announce, StartWalk, Out
  <2>2. \A q \in Procs : Walking(q)' => \/ Walking(q) /\ out'[q] = out[q]
                                        \/ OutOf(q)'
    BY <2>1 DEF Walking, OutOf
  <2> QED
    BY <2>1, <2>2, HeldStays
<1>8. ASSUME NEW c \in Clients, DebugWritten(c) PROVE HeldInv'
  BY <1>8, HeldStays DEF DebugWritten, Walking
<1>9. ASSUME NEW c \in Clients, Tick(c) \/ WriteFails(c) PROVE HeldInv'
  <2>1. /\ UNCHANGED <<out, told, sent, exits>>
        /\ writing'[c].src = NoClient
        /\ \A x \in Clients \ {c} : writing'[x] = writing[x]
        /\ \A q \in Procs : Walking(q)' <=> Walking(q)
    BY <1>9 DEF Tick, WriteFails, Frame, NoFrame, Walking
  <2>2. ASSUME NEW x \in Clients, NEW a \in Clients, writing'[x].src = a
        PROVE  HeldOf(x, a)'
    <3>1. x # c /\ writing'[x] = writing[x] /\ HeldOf(x, a)
      BY <2>1, <2>2, ClientAssumption DEF HeldInv
    <3> QED
      BY <2>1, <3>1 DEF HeldOf
  <2>3. ASSUME NEW x \in Clients, NEW a \in Clients PROVE ToldOf(x, a)'
    BY <2>1 DEF HeldInv, ToldOf
  <2>4. ASSUME NEW q \in Procs, Walking(q)' PROVE OutOf(q)'
    BY <2>1, <2>4 DEF HeldInv, OutOf
  <2> QED
    BY ONLY <2>2, <2>3, <2>4 DEF HeldInv
<1>10. ASSUME NEW c \in Clients, Written(c) PROVE HeldInv'
  BY <1>10, HeldWritten
<1>11. ASSUME NEW c \in Clients, Upgrade(c) PROVE HeldInv'
  BY <1>11, HeldStays DEF Upgrade, Walking
<1>12. ASSUME NEW c \in Clients, NEW k \in EventKinds, BroadcastEvent(c, k)
       PROVE  HeldInv'
  <2>1. /\ k \in EventKind /\ StartWalk(Reader(c), Out(k, sent[c] + 1, NoClient))
        /\ sent' = [sent EXCEPT ![c] = @ + 1]
        /\ UNCHANGED <<writing, told, exits>>
    BY <1>12 DEF BroadcastEvent, ReadEvent, EventKind
  <2>2. \A p \in Procs : Walking(p)' => \/ Walking(p) /\ out'[p] = out[p]
                                        \/ OutOf(p)'
    BY <2>1, EventWalk
  <2> QED
    BY <2>1, <2>2, HeldStays
<1>13. ASSUME NEW c \in Clients, NEW t \in Clients, PrivateText(c, t)
       PROVE  HeldInv'
  <2>1. /\ StartWalk(Reader(c), Out("private", sent[c] + 1, t))
        /\ sent' = [sent EXCEPT ![c] = @ + 1]
        /\ UNCHANGED <<writing, told, exits>>
    BY <1>13 DEF PrivateText, ReadEvent
  <2>2. \A p \in Procs : Walking(p)' => \/ Walking(p) /\ out'[p] = out[p]
                                        \/ OutOf(p)'
    BY <2>1, EventWalk DEF EventKind
  <2> QED
    BY <2>1, <2>2, HeldStays
<1>14. ASSUME NEW c \in Clients, DebugEvent(c) \/ IgnoredEvent(c) PROVE HeldInv'
  <2>1. /\ UNCHANGED <<writing, told, exits>>
        /\ sent' = [sent EXCEPT ![c] = @ + 1]
        /\ \A q \in Procs : Walking(q)' => Walking(q) /\ out'[q] = out[q]
    BY <1>14 DEF DebugEvent, IgnoredEvent, ReadEvent, Walking
  <2> QED
    BY <2>1, HeldStays
<1>15. ASSUME NEW c \in Clients, ReadFails(c) \/ Disconnect(c) \/ MixFrames(c)
       PROVE  HeldInv'
  BY <1>15, HeldStays DEF ReadFails, Disconnect, MixFrames, Walking
<1>16. CASE Crash \/ UNCHANGED vars
  BY <1>16, HeldStays DEF Crash, vars, Walking
<1> QED
  BY <1>1, <1>2, <1>3, <1>4, <1>5, <1>6, <1>7, <1>8, <1>9, <1>10, <1>11,
     <1>12, <1>13, <1>14, <1>15, <1>16 DEF Next, Shared, ServerStep,
     WriterStep, Environment

-----------------------------------------------------------------------------
(***************************************************************************)
(* Nobody is told the same exit twice.                                     *)
(***************************************************************************)

Exiting(p) == Walking(p) /\ out[p].kind = "exit"

HoldsExit(x, a) == writing[x].src = a /\ writing[x].kind = "exit"

\* Whoever is still due the exit of a holds none and was told none, and whoever
\* holds it was told none.
ByeOf(x, a) ==
  /\ \A p \in Procs : (Owner(p) = a /\ Exiting(p) /\ Due(p, x)) =>
       ~told[x][a].left /\ ~HoldsExit(x, a)
  /\ HoldsExit(x, a) => ~told[x][a].left

ByeInv == \A x, a \in Clients : ByeOf(x, a)

LEMMA ByeInit == Init => ByeInv
BY ClientAssumption
   DEF Init, ByeInv, ByeOf, Exiting, HoldsExit, Walking, NoFrame, Frame

\* A step that writes nothing and brings nobody on the walk of an exit keeps
\* the invariant.
LEMMA ByeStays ==
  ASSUME ByeInv, UNCHANGED <<writing, told>>,
         \A p \in Procs, x \in Clients :
           Exiting(p)' /\ Due(p, x)' => Exiting(p) /\ Due(p, x)
  PROVE  ByeInv'
BY DEF ByeInv, ByeOf, HoldsExit

LEMMA ByeDeliver ==
  ASSUME IInv, ByeInv, NEW p \in Procs, Deliver(p)
  PROVE  ByeInv'
<1> USE DEF IInv, TypeOK
<1>1. PICK x \in Clients : x = dst[p]
  BY DeliverEffect
<1>2. /\ Walking(p) /\ Due(p, x) /\ Owner(p) \in Clients
      /\ out' = out /\ told' = told /\ todo' = todo
      /\ dst' = [dst EXCEPT ![p] = NoClient]
      /\ \A q \in Procs : Walking(q)' <=> Walking(q)
  BY <1>1, DeliverEffect, DeliverDue, ProcFacts DEF Deliver, Walking, Due
<1>3. /\ writing'[x].kind = out[p].kind /\ writing'[x].src = Owner(p)
      /\ \A y \in Clients \ {x} : writing'[y] = writing[y]
  BY <1>1, DeliverEffect
<1>4. ~Due(p, x)'
  BY <1>1, <1>2, ClientAssumption DEF Due, WalkInv
<1>5. \A q \in Procs, y \in Clients : Due(q, y)' => Due(q, y)
  BY <1>2, ClientAssumption DEF Due
<1>6. \A q \in Procs : Exiting(q)' <=> Exiting(q)
  BY <1>2 DEF Exiting
<1>7. ASSUME NEW q \in Procs, Exiting(q), Exiting(p) PROVE q = p
  BY <1>7 DEF MutexInv, InCritical, Exiting
<1>8. ASSUME NEW y \in Clients, NEW a \in Clients PROVE ByeOf(y, a)'
  <2>1. ByeOf(y, a)
    BY DEF ByeInv
  <2>2. CASE y = x /\ a = Owner(p) /\ out[p].kind = "exit"
    <3>1. Exiting(p) /\ ~told[x][a].left
      BY <1>2, <2>1, <2>2 DEF ByeOf, Exiting
    <3>2. \A q \in Procs : ~(Exiting(q)' /\ Due(q, y)')
      BY <1>4, <1>6, <1>7, <2>2, <3>1
    <3> QED
      BY <1>2, <2>2, <3>1, <3>2 DEF ByeOf
  <2>3. CASE ~(y = x /\ a = Owner(p) /\ out[p].kind = "exit")
    <3>1. HoldsExit(y, a)' => HoldsExit(y, a)
      BY <1>3, <2>3 DEF HoldsExit
    <3> QED
      BY <1>2, <1>5, <1>6, <2>1, <3>1 DEF ByeOf
  <2> QED
    BY <2>2, <2>3
<1> QED
  BY ONLY <1>8 DEF ByeInv

LEMMA ByeWritten ==
  ASSUME IInv, ByeInv, NEW c \in Clients, Written(c)
  PROVE  ByeInv'
<1> USE DEF IInv
<1>1. /\ writing'[c] = NoFrame /\ \A x \in Clients \ {c} : writing'[x] = writing[x]
      /\ out' = out /\ todo' = todo /\ dst' = dst
      /\ \A p \in Procs : Walking(p)' <=> Walking(p)
  BY ProcFacts DEF Written, Walking, TypeOK
<1>2. ASSUME NEW x \in Clients, NEW a \in Clients PROVE ByeOf(x, a)'
  <2>1. ByeOf(x, a)
    BY DEF ByeInv
  <2>2. HoldsExit(x, a)' => HoldsExit(x, a) /\ x # c
    BY <1>1, ClientAssumption DEF HoldsExit, NoFrame, Frame
  <2>3. \A p \in Procs : Exiting(p)' /\ Due(p, x)' => Exiting(p) /\ Due(p, x)
    BY <1>1 DEF Exiting, Due
  <2>4. told'[x][a].left => told[x][a].left \/ (x = c /\ HoldsExit(x, a))
    <3>1. CASE told'[x][a] = told[x][a]
      BY <3>1
    <3>2. CASE told'[x][a] # told[x][a]
      <4>1. /\ x = c /\ writing[x].src = a
            /\ told'[x][a].left = (told[x][a].left \/ writing[x].kind = "exit")
        BY <3>2, WrittenNews
      <4>2. told'[x][a].left => told[x][a].left \/ writing[x].kind = "exit"
        BY ONLY <4>1, Zenon
      <4> QED
        BY <4>1, <4>2 DEF HoldsExit
    <3> QED
      BY <3>1, <3>2
  <2>5. CASE x = c /\ HoldsExit(x, a)
    BY <2>1, <2>2, <2>3, <2>5 DEF ByeOf
  <2>6. CASE ~(x = c /\ HoldsExit(x, a))
    BY <2>1, <2>2, <2>3, <2>4, <2>6 DEF ByeOf
  <2> QED
    BY <2>5, <2>6
<1> QED
  BY ONLY <1>2 DEF ByeInv

\* Before the first removeClient of a client nobody held or was told its exit.
LEMMA ByeRemove ==
  ASSUME IInv, HeldInv, ByeInv, NEW p \in Procs, RemoveClient(p)
  PROVE  ByeInv'
<1> USE ProcFacts DEF IInv, TypeOK
<1> DEFINE c == Owner(p)
<1>1. UNCHANGED <<writing, told, dst>> /\ c \in Clients
  BY DEF RemoveClient
<1>2. CASE c \in clients
  <2>1. /\ out' = [out EXCEPT ![p] = Out("exit", 0, NoClient)]
        /\ pc' = [pc EXCEPT ![p] = "iter"]
        /\ \A q \in Procs \ {p} : todo'[q] = todo[q] \ {c}
    BY <1>2 DEF RemoveClient
  <2>2. exits[c] = 0
    BY <1>2 DEF ExitInv
  <2>3. \A x \in Clients : ~told[x][c].left /\ ~HoldsExit(x, c)
    BY <2>2 DEF HeldInv, ToldOf, HeldOf, HoldsExit, EventKind
  <2>4. ASSUME NEW x \in Clients, NEW a \in Clients PROVE ByeOf(x, a)'
    <3>1. HoldsExit(x, a)' <=> HoldsExit(x, a)
      BY <1>1 DEF HoldsExit
    <3>2. CASE a = c
      BY <1>1, <2>3, <3>1, <3>2 DEF ByeOf
    <3>3. CASE a # c
      <4>1. \A q \in Procs : Owner(q) = a =>
              (Exiting(q)' /\ Due(q, x)' => Exiting(q) /\ Due(q, x))
        BY <1>1, <2>1, <3>3 DEF Exiting, Walking, Due
      <4> QED
        BY <1>1, <3>1, <4>1 DEF ByeInv, ByeOf
    <3> QED
      BY <3>2, <3>3
  <2> QED
    BY ONLY <2>4 DEF ByeInv
<1>3. CASE c \notin clients
  <2>1. UNCHANGED <<out, todo>> /\ pc' = [pc EXCEPT ![p] = "done"]
    BY <1>3 DEF RemoveClient
  <2> QED
    BY <1>1, <2>1, ByeStays DEF Exiting, Walking, Due
<1> QED
  BY <1>2, <1>3

\* A client that addClient adds to a walk was told nothing.
LEMMA ByeAdd ==
  ASSUME IInv, ByeInv, NEW c \in Clients, AddClient(c)
  PROVE  ByeInv'
<1> USE ProcFacts DEF IInv, TypeOK
<1>1. /\ UNCHANGED <<writing, told, dst, out>>
      /\ pc[Server(c)] = "insert" /\ pc' = [pc EXCEPT ![Server(c)] = "announce"]
      /\ \A q \in Procs, x \in Clients : x \in todo'[q] => x \in todo[q] \/ x = c
  BY DEF AddClient
<1>2. \A a \in Clients : ~told[c][a].left /\ ~HoldsExit(c, a)
  <2>1. pc[Writer(c)] = "idle"
    BY <1>1 DEF RoleInv
  <2>2. writing[c] = NoFrame
    BY <2>1 DEF WalkInv
  <2>3. ASSUME NEW a \in Clients PROVE ~told[c][a].left
    <3>1. told[c][a] = NoNews
      BY <2>1 DEF FreshInv
    <3> QED
      BY ONLY <3>1 DEF NoNews, Heard
  <2>4. ASSUME NEW a \in Clients PROVE ~HoldsExit(c, a)
    BY ONLY <2>2 DEF HoldsExit, NoFrame, Frame
  <2> QED
    BY <2>3, <2>4
<1>3. ASSUME NEW x \in Clients, NEW a \in Clients PROVE ByeOf(x, a)'
  <2>1. HoldsExit(x, a)' <=> HoldsExit(x, a)
    BY <1>1 DEF HoldsExit
  <2>2. CASE x = c
    BY <1>1, <1>2, <2>1, <2>2 DEF ByeOf
  <2>3. CASE x # c
    <3>1. \A q \in Procs : Exiting(q)' /\ Due(q, x)' => Exiting(q) /\ Due(q, x)
      BY <1>1, <2>3 DEF Exiting, Walking, Due
    <3> QED
      BY <1>1, <2>1, <3>1 DEF ByeInv, ByeOf
  <2> QED
    BY <2>2, <2>3
<1> QED
  BY ONLY <1>3 DEF ByeInv

\* Every step keeps the invariant.
LEMMA ByeNext == IInv /\ HeldInv /\ ByeInv /\ [Next]_vars => ByeInv'
<1> SUFFICES ASSUME IInv, HeldInv, ByeInv, [Next]_vars PROVE ByeInv'
  OBVIOUS
<1> USE ProcFacts DEF IInv, TypeOK
<1>1. ASSUME NEW p \in Procs, NEW x \in Clients, NextPeer(p, x) PROVE ByeInv'
  BY <1>1, ByeStays DEF NextPeer, Exiting, Walking, Due
<1>2. ASSUME NEW p \in Procs, Deliver(p) PROVE ByeInv'
  BY <1>2, ByeDeliver
<1>3. ASSUME NEW p \in Procs, WalkDone(p) PROVE ByeInv'
  <2>1. /\ UNCHANGED <<writing, told, todo, dst>>
        /\ \A q \in Procs : Walking(q)' => Walking(q) /\ out'[q] = out[q]
    BY <1>3, WalkDoneEffect DEF WalkDone, Walking
  <2> QED
    BY <2>1, ByeStays DEF Exiting, Due
<1>4. ASSUME NEW p \in Procs, Lock(p) PROVE ByeInv'
  BY <1>4, ByeStays DEF Lock, Exiting, Walking, Due
<1>5. ASSUME NEW p \in Procs, RemoveClient(p) PROVE ByeInv'
  BY <1>5, ByeRemove
<1>6. ASSUME NEW c \in Clients, AddClient(c) PROVE ByeInv'
  BY <1>6, ByeAdd
<1>7. ASSUME NEW p \in Procs, NEW o \in [kind : Kinds, n : Nat, to : Clients \cup {NoClient}],
             o.kind # "exit", StartWalk(p, o), UNCHANGED <<writing, told, dst>>
      PROVE  ByeInv'
  <2>1. \A q \in Procs \ {p} : /\ pc'[q] = pc[q] /\ out'[q] = out[q]
                              /\ todo'[q] = todo[q] /\ dst'[q] = dst[q]
    BY <1>7 DEF StartWalk
  <2>2. out'[p].kind # "exit"
    BY <1>7 DEF StartWalk
  <2> QED
    BY <1>7, <2>1, <2>2, ByeStays DEF Exiting, Walking, Due
<1>8. ASSUME NEW c \in Clients, Announce(c) PROVE ByeInv'
  <2>1. Out("init", 0, NoClient) \in [kind : Kinds, n : Nat, to : Clients \cup {NoClient}]
    BY DEF Out, Kinds
  <2> QED
    BY <1>7, <1>8, <2>1 DEF Announce, Out
<1>9. ASSUME NEW c \in Clients, NEW k \in EventKinds, BroadcastEvent(c, k)
      PROVE  ByeInv'
  <2>1. k \in {"pos", "color", "text"} /\ sent[c] + 1 \in Nat
    BY <1>9 DEF BroadcastEvent
  <2>2. Out(k, sent[c] + 1, NoClient) \in [kind : Kinds, n : Nat, to : Clients \cup {NoClient}]
    BY <2>1 DEF Out, Kinds
  <2> QED
    BY <1>7, <1>9, <2>1, <2>2 DEF BroadcastEvent, Out
<1>10. ASSUME NEW c \in Clients, NEW t \in Clients, PrivateText(c, t) PROVE ByeInv'
  <2>1. Out("private", sent[c] + 1, t) \in [kind : Kinds, n : Nat, to : Clients \cup {NoClient}]
    BY DEF Out, Kinds
  <2> QED
    BY <1>7, <1>10, <2>1 DEF PrivateText, Out
<1>11. ASSUME NEW c \in Clients, Tick(c) \/ WriteFails(c) PROVE ByeInv'
  <2>1. /\ UNCHANGED <<out, told, todo, dst>>
        /\ writing'[c].src = NoClient
        /\ \A x \in Clients \ {c} : writing'[x] = writing[x]
        /\ \A q \in Procs : Walking(q)' <=> Walking(q)
    BY <1>11 DEF Tick, WriteFails, Frame, NoFrame, Walking
  <2>2. \A x, a \in Clients : HoldsExit(x, a)' => HoldsExit(x, a)
    BY <2>1, ClientAssumption DEF HoldsExit
  <2>3. \A q \in Procs, x \in Clients :
          Exiting(q)' /\ Due(q, x)' => Exiting(q) /\ Due(q, x)
    BY <2>1 DEF Exiting, Due
  <2> QED
    BY <2>1, <2>2, <2>3 DEF ByeInv, ByeOf
<1>12. ASSUME NEW c \in Clients, Written(c) PROVE ByeInv'
  BY <1>12, ByeWritten
<1>13. ASSUME NEW c \in Clients,
              \/ Upgrade(c) \/ DebugEvent(c) \/ DebugWritten(c) \/ IgnoredEvent(c)
              \/ ReadFails(c) \/ Disconnect(c) \/ MixFrames(c)
       PROVE  ByeInv'
  BY <1>13, ByeStays DEF Upgrade, DebugEvent, DebugWritten, IgnoredEvent,
     ReadEvent, ReadFails, Disconnect, MixFrames, Exiting, Walking, Due
<1>14. CASE Crash \/ UNCHANGED vars
  BY <1>14, ByeStays DEF Crash, vars, Exiting, Walking, Due
<1> QED
  BY <1>1, <1>2, <1>3, <1>4, <1>5, <1>6, <1>8, <1>9, <1>10, <1>11, <1>12,
     <1>13, <1>14 DEF Next, Shared, ServerStep, WriterStep, Environment

-----------------------------------------------------------------------------
(***************************************************************************)
(* The simulation.                                                         *)
(***************************************************************************)

LEMMA RosterInit == Init => Players!Init
BY ProcFacts DEF Init, Players!Init, Stage, Walking, Players!Unheard,
   Players!Heard, NoNews, Heard

\* While serveWS keeps its part of its walk and nobody is removed, no client
\* changes its stage.
LEMMA StageStays ==
  ASSUME exits' = exits,
         \A a \in Clients : /\ (pc'[Server(a)] = "done") <=> (pc[Server(a)] = "done")
                            /\ Walking(Server(a))' <=> Walking(Server(a))
  PROVE  [a \in Clients |-> Stage(a)]' = [a \in Clients |-> Stage(a)]
BY DEF Stage

\* One client changes its stage when its serveWS moves on or it is removed.
LEMMA StageMoves ==
  ASSUME NEW c \in Clients, UNCHANGED <<sent, told>>,
         \A a \in Clients \ {c} : Stage(a)' = Stage(a),
         \/ Stage(c) = "out" /\ Stage(c)' = "announcing"
         \/ Stage(c) = "announcing" /\ Stage(c)' = "in"
         \/ Stage(c) = "in" /\ Stage(c)' = "gone"
  PROVE  Players!Move(c)
BY DEF Players!Move

\* A client whose events are routed was announced.
LEMMA StageKnown ==
  ASSUME IInv, NEW a \in Clients, pc[Server(a)] = "done" \/ exits[a] # 0
  PROVE  Stage(a) \in {"in", "gone"}
BY ProcFacts DEF Stage, IInv, TypeOK

LEMMA ActStep ==
  ASSUME IInv, NEW c \in Clients, pc[Reader(c)] = "read",
         sent' = [sent EXCEPT ![c] = @ + 1], UNCHANGED <<told, exits>>,
         \A a \in Clients : pc'[Server(a)] = pc[Server(a)]
  PROVE  Players!Act(c)
<1>1. pc[Server(c)] = "done"
  BY DEF IInv, RoleInv
<1>2. Stage(c) \in {"in", "gone"}
  BY <1>1, StageKnown
<1>3. [a \in Clients |-> Stage(a)]' = [a \in Clients |-> Stage(a)]
  BY StageStays DEF Walking
<1> QED
  BY <1>2, <1>3 DEF Players!Act

\* What a writer writes may follow what its client was told before.
LEMMA TellStep ==
  ASSUME IInv, HeldInv, ByeInv, NEW c \in Clients, NEW a \in Clients,
         writing[c].src = a, Written(c),
         told' = [told EXCEPT ![c][a] =
                    Heard(writing[c].kind, writing[c].n,
                          @.left \/ writing[c].kind = "exit")]
  PROVE  Players!Tell(c, a)
<1> DEFINE m == [kind |-> writing[c].kind, n |-> writing[c].n]
<1> USE DEF IInv, TypeOK
<1>1. UNCHANGED <<sent, exits>> /\ \A b \in Clients : pc'[Server(b)] = pc[Server(b)]
  BY ProcFacts DEF Written
<1>2. [b \in Clients |-> Stage(b)]' = [b \in Clients |-> Stage(b)]
  BY <1>1, StageStays DEF Walking
<1>3. m.kind = writing[c].kind /\ m.n = writing[c].n /\ sent[a] \in Nat
      /\ m = [kind |-> m.kind, n |-> m.n]
      /\ told' = [told EXCEPT ![c][a] =
                    Players!Heard(m.kind, m.n, @.left \/ m.kind = "exit")]
  BY DEF Heard, Players!Heard
<1>4. HeldOf(c, a) /\ ToldOf(c, a) /\ OrderOf(c, a)
  BY DEF HeldInv, OrderInv
<1>5. \/ pc[Server(a)] = "done"
      \/ Walking(Server(a)) /\ writing[c].kind = "init"
  BY DEF NewsInv
<1>6. CASE writing[c].kind = "init"
  <2>1. m.n = 0 /\ told[c][a] = NoNews
    BY <1>3, <1>4, <1>6 DEF HeldOf, EventKind
  <2>2. Stage(a) # "out"
    BY <1>5 DEF Stage
  <2>3. Players!MayFollow(m, c, a)
    BY <1>3, <1>6, <2>1, <2>2 DEF Players!MayFollow, Players!Unheard, Players!Heard, NoNews, Heard
  <2>4. m \in [kind : {"init", "pos", "color", "text", "private", "exit"},
               n : 0..sent[a]]
    BY <1>3, <1>6, <2>1
  <2> QED
    BY <1>1, <1>2, <1>3, <2>3, <2>4 DEF Players!Tell
<1>7. CASE writing[c].kind = "exit"
  <2>1. m.n = 0 /\ exits[a] # 0
    BY <1>3, <1>4, <1>7 DEF HeldOf, EventKind
  <2>2. Stage(a) = "gone"
    BY <2>1 DEF Stage
  <2>3. ~told[c][a].left
    BY <1>7 DEF ByeInv, ByeOf, HoldsExit
  <2>5. Players!MayFollow(m, c, a)
    BY <1>3, <1>7, <2>1, <2>2, <2>3 DEF Players!MayFollow
  <2>4. m \in [kind : {"init", "pos", "color", "text", "private", "exit"},
               n : 0..sent[a]]
    BY <1>3, <1>7, <2>1
  <2> QED
    BY <1>1, <1>2, <1>3, <2>4, <2>5 DEF Players!Tell
<1>8. CASE writing[c].kind \in EventKind
  <2>1. m.n \in 1..sent[a] /\ pc[Server(a)] = "done"
    BY <1>3, <1>4, <1>5, <1>8 DEF HeldOf, EventKind
  <2>2. Stage(a) \in {"in", "gone"}
    BY <2>1, StageKnown
  <2>3. told[c][a].kind # "exit" => m.n > told[c][a].n
    <3> SUFFICES ASSUME told[c][a].kind # "exit" PROVE m.n > told[c][a].n
      OBVIOUS
    <3>1. Gone(told[c][a].kind) \/ told[c][a].n < writing[c].n
      BY <1>4, <1>8 DEF OrderOf, EventKind
    <3>2. told[c][a].kind = "none" => told[c][a].n = 0
      BY <1>4 DEF ToldOf, NoNews, Heard
    <3> QED
      BY <1>3, <2>1, <3>1, <3>2 DEF Gone
  <2>4. Players!MayFollow(m, c, a)
    BY <1>3, <1>4, <1>8, <2>1, <2>2, <2>3 DEF Players!MayFollow, EventKind
  <2>5. m \in [kind : {"init", "pos", "color", "text", "private", "exit"},
               n : 0..sent[a]]
    BY <1>3, <1>8, <2>1 DEF EventKind
  <2> QED
    BY <1>1, <1>2, <1>3, <2>4, <2>5 DEF Players!Tell
<1> QED
  BY <1>4, <1>6, <1>7, <1>8 DEF HeldOf

\* Every step of the goroutines is a step of Roster or none.
LEMMA RosterNext ==
  IInv /\ HeldInv /\ ByeInv /\ [Next]_vars => [Players!Next]_(Players!vars)
<1> SUFFICES ASSUME IInv, HeldInv, ByeInv, [Next]_vars
             PROVE  [Players!Next]_(Players!vars)
  OBVIOUS
<1> USE ProcFacts DEF IInv, TypeOK
<1>a. ASSUME UNCHANGED <<sent, told, exits>>,
             \A a \in Clients : /\ (pc'[Server(a)] = "done") <=> (pc[Server(a)] = "done")
                                /\ Walking(Server(a))' <=> Walking(Server(a))
      PROVE  UNCHANGED Players!vars
  BY <1>a, StageStays DEF Players!vars
<1>b. ASSUME NEW c \in Clients, Players!Move(c) \/ Players!Act(c) PROVE Players!Next
  BY <1>b DEF Players!Next
<1>1. ASSUME NEW p \in Procs, NEW x \in Clients, NextPeer(p, x)
      PROVE  UNCHANGED Players!vars
  BY <1>1, <1>a DEF NextPeer, Walking
<1>2. ASSUME NEW p \in Procs, Deliver(p) PROVE UNCHANGED Players!vars
  <2>1. \A a \in Clients : /\ (pc'[Server(a)] = "done") <=> (pc[Server(a)] = "done")
                           /\ Walking(Server(a))' <=> Walking(Server(a))
    BY <1>2, DeliverEffect, DeliverDue
  <2> QED
    BY <1>2, <2>1, <1>a DEF Deliver
<1>3. ASSUME NEW p \in Procs, WalkDone(p) PROVE [Players!Next]_(Players!vars)
  <2>1. UNCHANGED <<sent, told, exits>>
    BY <1>3 DEF WalkDone
  <2>2. CASE p = Server(Owner(p))
    <3> DEFINE c == Owner(p)
    <3>1. out[p].kind = "init" /\ pc[p] = "iter"
      BY <1>3, <2>2, SenderKinds DEF WalkDone, Walking
    <3>2. pc' = [pc EXCEPT ![p] = "done", ![Reader(c)] = "read",
                           ![Writer(c)] = "select"]
      BY <1>3, <3>1 DEF WalkDone
    <3>3. exits[c] = 0
      BY <2>2, <3>1 DEF ExitInv
    <3>4. Stage(c) = "announcing" /\ Stage(c)' = "in"
      BY <2>1, <2>2, <3>1, <3>2, <3>3 DEF Stage, Walking
    <3>5. \A a \in Clients \ {c} : Stage(a)' = Stage(a)
      BY <2>1, <2>2, <3>2 DEF Stage, Walking, Server, Reader, Writer
    <3> QED
      BY <2>1, <3>4, <3>5, StageMoves, <1>b
  <2>3. CASE p # Server(Owner(p))
    <3>1. out[p].kind # "init"
      BY <1>3, <2>3, SenderKinds DEF WalkDone, Walking
    <3>2. \A a \in Clients : pc'[Server(a)] = pc[Server(a)]
      BY <1>3, <2>3, <3>1 DEF WalkDone
    <3> QED
      BY <2>1, <3>2, <1>a DEF Walking
  <2> QED
    BY <2>2, <2>3
<1>4. ASSUME NEW p \in Procs, Lock(p) PROVE UNCHANGED Players!vars
  BY <1>4, <1>a DEF Lock, Walking
<1>5. ASSUME NEW p \in Procs, RemoveClient(p) PROVE [Players!Next]_(Players!vars)
  <2>1. UNCHANGED <<sent, told>> /\ pc[p] = "remove"
    BY <1>5 DEF RemoveClient
  <2>2. pc[Server(Owner(p))] = "done" /\ p # Server(Owner(p))
    BY <2>1 DEF RoleInv
  <2>3. \A a \in Clients : pc'[Server(a)] = pc[Server(a)]
    BY <1>5, <2>1, <2>2, RemoveEffect
  <2>4. CASE Owner(p) \in clients
    <3> DEFINE c == Owner(p)
    <3>1. exits' = [exits EXCEPT ![c] = @ + 1] /\ exits[c] = 0
      BY <1>5, <2>4 DEF RemoveClient, ExitInv
    <3>2. Stage(c) = "in" /\ Stage(c)' = "gone"
      BY <2>2, <3>1 DEF Stage
    <3>3. \A a \in Clients \ {c} : Stage(a)' = Stage(a)
      BY <2>3, <3>1 DEF Stage, Walking
    <3> QED
      BY <2>1, <3>2, <3>3, StageMoves, <1>b
  <2>5. CASE Owner(p) \notin clients
    BY <1>5, <2>1, <2>3, <2>5, <1>a DEF RemoveClient, Walking
  <2> QED
    BY <2>4, <2>5
<1>6. ASSUME NEW c \in Clients, AddClient(c) PROVE UNCHANGED Players!vars
  BY <1>6, <1>a DEF AddClient, Walking
<1>7. ASSUME NEW c \in Clients, Announce(c) PROVE [Players!Next]_(Players!vars)
  <2>1. /\ UNCHANGED <<sent, told, exits>> /\ pc[Server(c)] = "announce"
        /\ pc' = [pc EXCEPT ![Server(c)] = "iter"]
    BY <1>7 DEF Announce, StartWalk
  <2>2. exits[c] = 0
    BY <2>1 DEF ExitInv
  <2>3. Stage(c) = "out" /\ Stage(c)' = "announcing"
    BY <2>1, <2>2 DEF Stage, Walking
  <2>4. \A a \in Clients \ {c} : Stage(a)' = Stage(a)
    BY <2>1 DEF Stage, Walking, Server
  <2> QED
    BY <2>1, <2>3, <2>4, StageMoves, <1>b
<1>8. ASSUME NEW c \in Clients, DebugWritten(c) \/ Tick(c) \/ WriteFails(c)
      PROVE  UNCHANGED Players!vars
  BY <1>8, <1>a DEF DebugWritten, Tick, WriteFails, Walking
<1>9. ASSUME NEW c \in Clients, Written(c) PROVE [Players!Next]_(Players!vars)
  <2>1. CASE told' = told
    BY <1>9, <2>1, <1>a DEF Written, Walking
  <2>2. CASE told' # told
    <3>1. /\ writing[c].src \in Clients
          /\ told' = [told EXCEPT ![c][writing[c].src] =
                        Heard(writing[c].kind, writing[c].n,
                              @.left \/ writing[c].kind = "exit")]
      BY <1>9, <2>2, WrittenEffect
    <3>2. Players!Tell(c, writing[c].src)
      BY <1>9, <3>1, TellStep
    <3> QED
      BY <3>1, <3>2 DEF Players!Next
  <2> QED
    BY <2>1, <2>2
<1>10. ASSUME NEW c \in Clients, Upgrade(c) PROVE UNCHANGED Players!vars
  BY <1>10, <1>a DEF Upgrade, Walking
<1>11. ASSUME NEW c \in Clients, NEW k \in EventKinds, BroadcastEvent(c, k)
       PROVE  Players!Act(c)
  BY <1>11, ActStep DEF BroadcastEvent, ReadEvent, StartWalk
<1>12. ASSUME NEW c \in Clients, NEW t \in Clients, PrivateText(c, t)
       PROVE  Players!Act(c)
  BY <1>12, ActStep DEF PrivateText, ReadEvent, StartWalk
<1>13. ASSUME NEW c \in Clients, DebugEvent(c) \/ IgnoredEvent(c)
       PROVE  Players!Act(c)
  <2>1. /\ pc[Reader(c)] = "read" /\ sent' = [sent EXCEPT ![c] = @ + 1]
        /\ UNCHANGED <<told, exits>>
        /\ \A a \in Clients : pc'[Server(a)] = pc[Server(a)]
    BY <1>13 DEF DebugEvent, IgnoredEvent, ReadEvent
  <2> QED
    BY <2>1, ActStep
<1>14. ASSUME NEW c \in Clients, ReadFails(c) \/ Disconnect(c) \/ MixFrames(c)
       PROVE  UNCHANGED Players!vars
  BY <1>14, <1>a DEF ReadFails, Disconnect, MixFrames, Walking
<1>15. CASE Crash \/ UNCHANGED vars
  BY <1>15, <1>a DEF Crash, vars, Walking
<1> QED
  BY <1>1, <1>2, <1>3, <1>4, <1>5, <1>6, <1>7, <1>8, <1>9, <1>10, <1>11,
     <1>12, <1>13, <1>14, <1>15, <1>b DEF Next, Shared, ServerStep,
     WriterStep, Environment

\* Manager implements Roster: each client is announced, is in and is gone once,
\* and everybody hears of it in that order.
THEOREM RosterKept == Spec => KeepsRoster
<1>1. Init => Players!Init /\ HeldInv /\ ByeInv
  BY RosterInit, HeldInit, ByeInit
<1>2. IInv /\ HeldInv /\ ByeInv /\ [Next]_vars =>
        HeldInv' /\ ByeInv' /\ [Players!Next]_(Players!vars)
  BY HeldNext, ByeNext, RosterNext
<1> QED
  BY Invariance, <1>1, <1>2, PTL DEF Spec, KeepsRoster, Players!Spec
=============================================================================
