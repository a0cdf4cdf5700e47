----------------------------- MODULE ManagerInv -----------------------------
(***************************************************************************)
(* The inductive invariant of Manager, as a conjunction of named parts.    *)
(***************************************************************************)
EXTENDS Manager

-----------------------------------------------------------------------------
(***************************************************************************)
(* Control: which goroutine can be where, and with what in hand.           *)
(***************************************************************************)

Walking(p) == pc[p] \in {"iter", "send"}

\* x is a recipient that p's walk has yet to serve.
Due(p, x) == x \in todo[p] \/ dst[p] = x

\* The reader and the writer of a client do not exist before serveWS is done,
\* and what a goroutine broadcasts is of the kind its role sends.
RoleInv ==
  \A c \in Clients :
    /\ pc[Server(c)] \in {"idle", "add", "insert", "announce", "iter",
                               "send", "done"}
    /\ pc[Reader(c)] \in {"idle", "read", "debug", "iter", "send", "lock",
                              "remove", "done"}
    /\ pc[Writer(c)] \in {"idle", "select", "write", "iter", "send",
                               "lock", "remove", "done"}
    /\ pc[Server(c)] # "done" => /\ pc[Reader(c)] = "idle"
                                      /\ pc[Writer(c)] = "idle"
    /\ Walking(Server(c)) => out[Server(c)] = Out("init", 0, NoClient)
    /\ Walking(Reader(c)) =>
         \/ out[Reader(c)].kind \in {"pos", "color", "text", "private"}
         \/ out[Reader(c)] = Out("exit", 0, NoClient)
    /\ Walking(Writer(c)) => out[Writer(c)] = Out("exit", 0, NoClient)

\* A goroutine has a destination exactly while it is sending, clients left to
\* reach only during a walk, and a message to write only while it writes.
WalkInv ==
  /\ \A p \in Procs : /\ pc[p] = "send" => dst[p] \in Clients
                      /\ pc[p] # "send" => dst[p] = NoClient
                      /\ ~Walking(p) => todo[p] = {}
                      /\ dst[p] \notin todo[p]
  /\ \A c \in Clients : pc[Writer(c)] # "write" => writing[c] = NoFrame

\* A client that addClient has not stored yet is on no walk.
JoinInv ==
  \A x \in Clients :
    pc[Server(x)] \in {"idle", "add", "insert"} =>
      x \notin clients /\ \A p \in Procs : ~Due(p, x)

\* A client whose exit was notified is off the map for good.
ExitInv ==
  \A c \in Clients :
    exits[c] # 0 => /\ exits[c] = 1
                    /\ c \notin clients
                    /\ pc[Server(c)] = "done"

\* A walk reaches only clients that its message is for, and a client that was
\* announced has a writer.
WaitInv ==
  /\ \A p \in Procs, x \in Clients : Due(p, x) => IsFor(out[p], Owner(p), x)
  /\ \A c \in Clients : pc[Server(c)] = "done" => pc[Writer(c)] # "idle"

\* p is between the Lock and the Unlock of addClient or removeClient.
InCritical(p) == \/ pc[p] \in {"insert", "remove"}
                 \/ Walking(p) /\ out[p].kind = "exit"

MutexInv == \A p \in Procs : InCritical(p) <=> lock = p

\* Nobody hears of a client before its announcement starts, and nobody hears
\* anything but the announcement before that is over.
NewsInv ==
  \A x, a \in Clients :
    /\ told[x][a].kind # "none" =>
         \/ pc[Server(a)] = "done"
         \/ Walking(Server(a)) /\ told[x][a].kind = "init"
    /\ writing[x].src = a =>
         \/ pc[Server(a)] = "done"
         \/ Walking(Server(a)) /\ writing[x].kind = "init"

\* A client that is not on the map yet has been told nothing.
FreshInv ==
  \A x \in Clients :
    pc[Writer(x)] = "idle" => \A a \in Clients : told[x][a] = NoNews

\* No message in hand or delivered has a number that is still to be used, and
\* the last event to everybody is one of those routed.
NumberInv ==
  \A a \in Clients :
    /\ last[a] <= sent[a]
    /\ pc[Server(a)] # "done" => sent[a] = 0
    /\ \A x \in Clients :
         /\ told[x][a].n <= sent[a]
         /\ writing[x].src = a => writing[x].n <= sent[a]

Gone(k) == k \in {"none", "exit"}

\* What a reader broadcasts is its client's latest event.
LatestInv ==
  \A a \in Clients :
    (Walking(Reader(a)) /\ out[Reader(a)].kind # "exit") =>
      /\ out[Reader(a)].n = sent[a]
      /\ out[Reader(a)].kind # "private" => last[a] = sent[a]

\* Whoever is still due a message of a has neither been sent nor is being
\* written a later one or the same, and what x's writer holds is newer than
\* what it wrote.
OrderOf(x, a) ==
  /\ (Due(Reader(a), x) /\ out[Reader(a)].kind # "exit") =>
       /\ Gone(told[x][a].kind) \/ told[x][a].n < sent[a]
       /\ (writing[x].src = a /\ writing[x].kind # "exit") =>
            writing[x].n < sent[a]
  /\ Due(Server(a), x) => told[x][a].kind = "none" /\ writing[x].src # a
  /\ (writing[x].src = a /\ writing[x].kind # "exit") =>
       Gone(told[x][a].kind) \/ told[x][a].n < writing[x].n

OrderInv == \A x, a \in Clients : OrderOf(x, a)

\* x is due a's latest event to everybody, or its writer holds that, a later
\* one or a's exit, or x was sent one of these, or it never heard of a.
Updated(x, a) ==
  \/ /\ Walking(Reader(a)) /\ Due(Reader(a), x)
     /\ out[Reader(a)].kind \notin {"private", "exit"}
  \/ /\ writing[x].src = a
     /\ writing[x].kind = "exit" \/ writing[x].n >= last[a]
  \/ /\ writing[x].src # a
     /\ Gone(told[x][a].kind) \/ told[x][a].n >= last[a]

PeerInv ==
  \A x, a \in Clients :
    (x \in clients /\ conn[x] = "open" /\ UUID[x] # UUID[a]) => Updated(x, a)

\* A color message in flight or delivered is no newer than the client's color,
\* and goes only to clients of another uuid.
ColorOf(x, a) ==
  /\ (Walking(Reader(a)) /\ out[Reader(a)].kind = "color") =>
       /\ out[Reader(a)].to = NoClient
       /\ out[Reader(a)].n = color[a]
       /\ Due(Reader(a), x) => UUID[x] # UUID[a]
  /\ told[x][a].kind = "color" => told[x][a].n <= color[a] /\ UUID[x] # UUID[a]
  /\ (writing[x].src = a /\ writing[x].kind = "color") =>
       writing[x].n <= color[a] /\ UUID[x] # UUID[a]

ColorInv == /\ \A a \in Clients : color[a] <= last[a]
            /\ \A x, a \in Clients : ColorOf(x, a)

\* Everything above, and the types: what every reachable state satisfies and
\* every step keeps, in particular that the goroutines of addClient and
\* removeClient exclude each other and that no message overtakes another.
IInv == /\ TypeOK /\ RoleInv /\ WalkInv /\ JoinInv /\ ExitInv /\ MutexInv
        /\ WaitInv /\ NewsInv /\ FreshInv /\ NumberInv /\ LatestInv /\ OrderInv
        /\ PeerInv /\ ColorInv

-----------------------------------------------------------------------------
(***************************************************************************)
(* The abstract specification that Manager implements.                     *)
(***************************************************************************)

\* Where a client is for the others: its exit is notified by the removeClient
\* that deletes it, and serveWS is announcing it or done with it.
Stage(a) == IF exits[a] # 0 THEN "gone"
            ELSE IF pc[Server(a)] = "done" THEN "in"
            ELSE IF Walking(Server(a)) THEN "announcing"
            ELSE "out"

Players == INSTANCE Roster WITH stage <- [a \in Clients |-> Stage(a)], news <- told

\* The goroutines together keep the promise of Roster: each client is announced,
\* is in and is gone once, and everybody hears of it in that order, its events
\* in theirs.
KeepsRoster == Players!Spec
=============================================================================
