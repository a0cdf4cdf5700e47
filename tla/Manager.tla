------------------------------ MODULE Manager ------------------------------
(***************************************************************************)
(* The GoServer's connection manager: every goroutine that serves a client *)
(* (manager.go, client.go, the wire events of event.go).                   *)
(*                                                                         *)
(* Each accepted /ws request creates one Client, served by three           *)
(* goroutines that share the Manager:                                      *)
(*   Server(c)  the HTTP handler serveWS, which registers c and announces  *)
(*              it to the others;                                          *)
(*   Reader(c)  readMessages, which routes the events c sends;             *)
(*   Writer(c)  writeMessages, the only receiver of c's egress.            *)
(* An egress channel is unbuffered, so a broadcast is a walk over the      *)
(* clients map that waits at each client for that client's writer.         *)
(* addClient and removeClient change the map under the mutex; the walks    *)
(* read it without the mutex, except the walk inside removeClient, which   *)
(* keeps holding it.                                                       *)
(***************************************************************************)
EXTENDS Naturals, FiniteSets

CONSTANTS
  Clients,     \* the Client objects, one per accepted /ws request
  NoClient,    \* stands for "no client"
  UUID,        \* UUID[c]: the uuid parameter of c's /ws request
  Leavers,     \* clients that may vanish, fall silent or send bad frames
  EventKinds,  \* the kinds of event that clients send in this instance
  MaxEvents,   \* bound: events routed for each client
  MaxJoining   \* bound: /ws requests being served at the same time

\* The events readMessages can route, by what their handler does: "pos",
\* "color" and "text" go to every peer, "private" to the holders of one uuid,
\* "debug" is written straight back to the sender, "ignored" has an unknown
\* type or a payload that does not parse.
AllEventKinds == {"pos", "color", "text", "private", "debug", "ignored"}

ASSUME ClientAssumption == NoClient \notin Clients
ASSUME LeaverAssumption == Leavers \subseteq Clients
ASSUME EventAssumption == EventKinds \subseteq AllEventKinds
ASSUME BoundAssumption == MaxEvents \in Nat /\ MaxJoining \in Nat

VARIABLES
  clients,  \* m.clients: the registered clients (only true is ever stored)
  lock,     \* the goroutine that holds the Manager's mutex, or NoProc
  pc,       \* where each goroutine is
  out,      \* what a goroutine is broadcasting: its kind, number and addressee
  todo,     \* the clients a broadcast's walk over m.clients has yet to reach
  dst,      \* the client whose egress a goroutine is sending on
  conn,     \* the state of each client's websocket connection
  writing,  \* the message each client's writer is writing
  told,     \* told[x][a]: the last thing the peer x was sent about client a,
            \* and whether x was ever sent a's exit
  sent,     \* how many events each client's reader has routed
  last,     \* the number of each client's last event addressed to everybody
  color,    \* client.color, as the number of the event that set it
  exits,    \* how many exit notifications have been started for each client
  up        \* FALSE once a data race or a panic has stopped the server

vars == <<clients, lock, pc, out, todo, dst, conn, writing, told, sent, last,
          color, exits, up>>

Roles == {"serve", "read", "write"}
Procs == Roles \X Clients
NoProc == <<"none", NoClient>>
Owner(p) == p[2]
Server(c) == <<"serve", c>>
Reader(c) == <<"read", c>>
Writer(c) == <<"write", c>>

Kinds == {"none", "tick", "init", "pos", "color", "text", "private", "exit"}
Labels == {"idle", "add", "insert", "announce", "iter", "send", "read",
           "debug", "select", "write", "lock", "remove", "done"}

Out(k, n, t) == [kind |-> k, n |-> n, to |-> t]
Frame(k, a, n) == [kind |-> k, src |-> a, n |-> n]
Heard(k, n, b) == [kind |-> k, n |-> n, left |-> b]
NoNews == Heard("none", 0, FALSE)
NoOut == Out("none", 0, NoClient)
NoFrame == Frame("none", NoClient, 0)

Init ==
  /\ clients = {}
  /\ lock = NoProc
  /\ pc = [p \in Procs |-> "idle"]
  /\ out = [p \in Procs |-> NoOut]
  /\ todo = [p \in Procs |-> {}]
  /\ dst = [p \in Procs |-> NoClient]
  /\ conn = [c \in Clients |-> "none"]
  /\ writing = [c \in Clients |-> NoFrame]
  /\ told = [x \in Clients |-> [a \in Clients |-> NoNews]]
  /\ sent = [c \in Clients |-> 0]
  /\ last = [c \in Clients |-> 0]
  /\ color = [c \in Clients |-> 0]
  /\ exits = [c \in Clients |-> 0]
  /\ up = TRUE

-----------------------------------------------------------------------------
(***************************************************************************)
(* Broadcasting.                                                           *)
(***************************************************************************)

\* Fault: the sender is not left out.
IsForAll(o, a, x) == o.to = NoClient \/ UUID[x] = UUID[o.to]

\* Whether the message o of client a is for x: everybody whose uuid is not the
\* sender's, or every holder of the addressee's uuid.
IsFor(o, a, x) == IF o.to = NoClient THEN UUID[x] # UUID[a]
                                     ELSE UUID[x] = UUID[o.to]

Recipients(o, a) == {x \in clients : IsFor(o, a, x)}

\* p starts the walk over m.clients that hands o to its recipients.
StartWalk(p, o) ==
  /\ out' = [out EXCEPT ![p] = o]
  /\ todo' = [todo EXCEPT ![p] = Recipients(o, Owner(p))]
  /\ pc' = [pc EXCEPT ![p] = "iter"]

\* The walk reaches x, one of the entries it has yet to produce.
NextPeer(p, x) ==
  /\ up
  /\ pc[p] = "iter"
  /\ x \in todo[p]
  /\ todo' = [todo EXCEPT ![p] = @ \ {x}]
  /\ dst' = [dst EXCEPT ![p] = x]
  /\ pc' = [pc EXCEPT ![p] = "send"]
  /\ UNCHANGED <<clients, lock, out, conn, writing, told, sent, last, color,
                 exits, up>>

\* Fault: a send that gives up on a peer whose writer is busy (select/default).
DeliverOrDrop(p) ==
  LET x == dst[p]
      ready == pc[Writer(x)] = "select" IN
  /\ up
  /\ pc[p] = "send"
  /\ pc' = IF ready THEN [pc EXCEPT ![p] = "iter", ![Writer(x)] = "write"]
                    ELSE [pc EXCEPT ![p] = "iter"]
  /\ writing' = IF ready
                THEN [writing EXCEPT
                        ![x] = Frame(out[p].kind, Owner(p), out[p].n)]
                ELSE writing
  /\ dst' = [dst EXCEPT ![p] = NoClient]
  /\ UNCHANGED <<clients, lock, out, todo, conn, told, sent, last, color,
                 exits, up>>

\* The send on the unbuffered egress completes: the peer's writer is at its
\* select and takes the message.
Deliver(p) ==
  LET x == dst[p] IN
  /\ up
  /\ pc[p] = "send"
  /\ pc[Writer(x)] = "select"
  /\ pc' = [pc EXCEPT ![p] = "iter", ![Writer(x)] = "write"]
  /\ writing' = [writing EXCEPT ![x] = Frame(out[p].kind, Owner(p), out[p].n)]
  /\ dst' = [dst EXCEPT ![p] = NoClient]
  /\ UNCHANGED <<clients, lock, out, todo, conn, told, sent, last, color,
                 exits, up>>

\* Fault: removeClient without its deferred Unlock.
WalkDoneKeepsLock(p) ==
  LET c == Owner(p) IN
  /\ up
  /\ pc[p] = "iter"
  /\ todo[p] = {}
  /\ out' = [out EXCEPT ![p] = NoOut]
  /\ \/ /\ out[p].kind = "init"
        /\ pc' = [pc EXCEPT ![p] = "done", ![Reader(c)] = "read",
                            ![Writer(c)] = "select"]
        /\ UNCHANGED lock
     \/ /\ out[p].kind \in {"pos", "color", "text", "private"}
        /\ pc' = [pc EXCEPT ![p] = "read"]
        /\ UNCHANGED lock
     \/ /\ out[p].kind = "exit"
        /\ pc' = [pc EXCEPT ![p] = "done"]
        /\ UNCHANGED lock
  /\ UNCHANGED <<clients, todo, dst, conn, writing, told, sent, last, color,
                 exits, up>>

\* The walk is over. serveWS then starts the client's two goroutines, the
\* reader goes back to reading, and removeClient unlocks and its goroutine
\* ends.
WalkDone(p) ==
  LET c == Owner(p) IN
  /\ up
  /\ pc[p] = "iter"
  /\ todo[p] = {}
  /\ out' = [out EXCEPT ![p] = NoOut]
  /\ \/ /\ out[p].kind = "init"
        /\ pc' = [pc EXCEPT ![p] = "done", ![Reader(c)] = "read",
                            ![Writer(c)] = "select"]
        /\ UNCHANGED lock
     \/ /\ out[p].kind \in {"pos", "color", "text", "private"}
        /\ pc' = [pc EXCEPT ![p] = "read"]
        /\ UNCHANGED lock
     \/ /\ out[p].kind = "exit"
        /\ pc' = [pc EXCEPT ![p] = "done"]
        /\ lock' = NoProc
  /\ UNCHANGED <<clients, todo, dst, conn, writing, told, sent, last, color,
                 exits, up>>

-----------------------------------------------------------------------------
(***************************************************************************)
(* Joining: serveWS and addClient.                                         *)
(***************************************************************************)

Joining == {c \in Clients : pc[Server(c)] \notin {"idle", "done"}}

\* serveWS has verified the request and upgraded it to a websocket.
Upgrade(c) ==
  /\ up
  /\ pc[Server(c)] = "idle"
  /\ Cardinality(Joining) < MaxJoining
  /\ conn' = [conn EXCEPT ![c] = "open"]
  /\ pc' = [pc EXCEPT ![Server(c)] = "add"]
  /\ UNCHANGED <<clients, lock, out, todo, dst, writing, told, sent, last,
                 color, exits, up>>

\* Fault: addClient and removeClient do not wait for the mutex.
LockWithoutWaiting(p) ==
  /\ up
  /\ pc[p] \in {"add", "lock"}
  /\ lock' = p
  /\ pc' = [pc EXCEPT ![p] = IF @ = "add" THEN "insert" ELSE "remove"]
  /\ UNCHANGED <<clients, out, todo, dst, conn, writing, told, sent, last,
                 color, exits, up>>

\* addClient and removeClient wait for the mutex.
Lock(p) ==
  /\ up
  /\ pc[p] \in {"add", "lock"}
  /\ lock = NoProc
  /\ lock' = p
  /\ pc' = [pc EXCEPT ![p] = IF @ = "add" THEN "insert" ELSE "remove"]
  /\ UNCHANGED <<clients, out, todo, dst, conn, writing, told, sent, last,
                 color, exits, up>>

\* The walks in progress that c is a recipient of.
WalksFor(c) == {q \in Procs : /\ pc[q] \in {"iter", "send"}
                              /\ IsFor(out[q], Owner(q), c)}

\* Fault: addClient without its deferred Unlock.
AddClientKeepsLock(c) ==
  LET p == Server(c) IN
  /\ up
  /\ pc[p] = "insert"
  /\ clients' = clients \cup {c}
  /\ pc' = [pc EXCEPT ![p] = "announce"]
  /\ UNCHANGED <<lock, out, todo, dst, conn, writing, told, sent, last, color,
                 exits, up>>

\* addClient stores c and unlocks. A walk in progress may or may not produce an
\* entry that is added to the map meanwhile.
AddClient(c) ==
  LET p == Server(c) IN
  /\ up
  /\ pc[p] = "insert"
  /\ clients' = clients \cup {c}
  /\ lock' = NoProc
  /\ pc' = [pc EXCEPT ![p] = "announce"]
  /\ \E W \in SUBSET WalksFor(c) :
       todo' = [q \in Procs |-> IF q \in W THEN todo[q] \cup {c} ELSE todo[q]]
  /\ UNCHANGED <<out, dst, conn, writing, told, sent, last, color, exits, up>>

\* Fault: serveWS starts the reader and the writer before it announces c.
AnnounceAfterStart(c) ==
  LET p == Server(c) IN
  /\ up
  /\ pc[p] = "announce"
  /\ out' = [out EXCEPT ![p] = Out("init", 0, NoClient)]
  /\ todo' = [todo EXCEPT ![p] = Recipients(Out("init", 0, NoClient), c)]
  /\ pc' = [pc EXCEPT ![p] = "iter", ![Reader(c)] = "read",
                      ![Writer(c)] = "select"]
  /\ UNCHANGED <<clients, lock, dst, conn, writing, told, sent, last, color,
                 exits, up>>

\* broadcastNewClientInitPosition: the walk that announces c.
Announce(c) ==
  LET p == Server(c) IN
  /\ up
  /\ pc[p] = "announce"
  /\ StartWalk(p, Out("init", 0, NoClient))
  /\ UNCHANGED <<clients, lock, dst, conn, writing, told, sent, last, color,
                 exits, up>>

-----------------------------------------------------------------------------
(***************************************************************************)
(* The reader: readMessages and the event handlers. Frames that were       *)
(* buffered before the connection broke or closed can still be read.       *)
(***************************************************************************)

\* readMessages reads and routes one more event.
ReadEvent(c, k) ==
  /\ up
  /\ pc[Reader(c)] = "read"
  /\ k \in EventKinds
  /\ sent[c] < MaxEvents
  /\ sent' = [sent EXCEPT ![c] = @ + 1]

\* Fault: a color event is broadcast but not stored in the client.
BroadcastEventOnly(c, k) ==
  /\ k \in {"pos", "color", "text"}
  /\ ReadEvent(c, k)
  /\ last' = [last EXCEPT ![c] = sent[c] + 1]
  /\ StartWalk(Reader(c), Out(k, sent[c] + 1, NoClient))
  /\ UNCHANGED <<clients, lock, dst, conn, writing, told, color, exits, up>>

\* Position, color and global text events: color also updates the client, and
\* all three are broadcast to the peers.
BroadcastEvent(c, k) ==
  /\ k \in {"pos", "color", "text"}
  /\ ReadEvent(c, k)
  /\ last' = [last EXCEPT ![c] = sent[c] + 1]
  /\ color' = IF k = "color" THEN [color EXCEPT ![c] = sent[c] + 1] ELSE color
  /\ StartWalk(Reader(c), Out(k, sent[c] + 1, NoClient))
  /\ UNCHANGED <<clients, lock, dst, conn, writing, told, exits, up>>

\* A text event for one uuid: sendUpdateToPeer.
PrivateText(c, t) ==
  /\ ReadEvent(c, "private")
  /\ StartWalk(Reader(c), Out("private", sent[c] + 1, t))
  /\ UNCHANGED <<clients, lock, dst, conn, writing, told, last, color, exits,
                 up>>

\* A debug position event: the reader itself writes on the connection.
DebugEvent(c) ==
  /\ ReadEvent(c, "debug")
  /\ pc' = [pc EXCEPT ![Reader(c)] = "debug"]
  /\ UNCHANGED <<clients, lock, out, todo, dst, conn, writing, told, last,
                 color, exits, up>>

\* That write returns; an error is only logged. What it may do to a frame that
\* the writer is writing meanwhile is MixFrames.
DebugWritten(c) ==
  /\ up
  /\ pc[Reader(c)] = "debug"
  /\ pc' = [pc EXCEPT ![Reader(c)] = "read"]
  /\ UNCHANGED <<clients, lock, out, todo, dst, conn, writing, told, sent,
                 last, color, exits, up>>

\* An unsupported event or an unreadable payload is logged and dropped.
IgnoredEvent(c) ==
  /\ ReadEvent(c, "ignored")
  /\ UNCHANGED <<clients, lock, pc, out, todo, dst, conn, writing, told, last,
                 color, exits, up>>

\* ReadMessage fails, the pong deadline passes, or the frame is not an Event:
\* the loop ends and the deferred removeClient runs.
ReadFails(c) ==
  /\ up
  /\ pc[Reader(c)] = "read"
  /\ c \in Leavers \/ conn[c] = "closed"
  /\ pc' = [pc EXCEPT ![Reader(c)] = "lock"]
  /\ UNCHANGED <<clients, lock, out, todo, dst, conn, writing, told, sent,
                 last, color, exits, up>>

-----------------------------------------------------------------------------
(***************************************************************************)
(* The writer: writeMessages.                                              *)
(***************************************************************************)

\* One of the two tickers fires: a ping or the time is to be written.
Tick(c) ==
  /\ up
  /\ pc[Writer(c)] = "select"
  /\ pc' = [pc EXCEPT ![Writer(c)] = "write"]
  /\ writing' = [writing EXCEPT ![c] = Frame("tick", NoClient, 0)]
  /\ UNCHANGED <<clients, lock, out, todo, dst, conn, told, sent, last, color,
                 exits, up>>

\* WriteMessage succeeds. A message written on a connection whose other end is
\* gone is lost; one written after frames were mixed may be.
Written(c) ==
  LET w == writing[c] IN
  /\ up
  /\ pc[Writer(c)] = "write"
  /\ conn[c] \in {"open", "mixed", "broken"}
  /\ \/ /\ conn[c] \in {"open", "mixed"}
        /\ w.src # NoClient
        /\ told' = [told EXCEPT ![c][w.src] =
                      Heard(w.kind, w.n, @.left \/ w.kind = "exit")]
     \/ /\ conn[c] # "open" \/ w.src = NoClient
        /\ UNCHANGED told
  /\ writing' = [writing EXCEPT ![c] = NoFrame]
  /\ pc' = [pc EXCEPT ![Writer(c)] = "select"]
  /\ UNCHANGED <<clients, lock, out, todo, dst, conn, sent, last, color, exits,
                 up>>

\* WriteMessage fails. For a message from the egress that is only logged; for a
\* ping or the time the loop ends and the deferred removeClient runs.
WriteFails(c) ==
  /\ up
  /\ pc[Writer(c)] = "write"
  /\ conn[c] \in {"broken", "closed"}
  /\ writing' = [writing EXCEPT ![c] = NoFrame]
  /\ pc' = [pc EXCEPT ![Writer(c)] =
              IF writing[c].kind = "tick" THEN "lock" ELSE "select"]
  /\ UNCHANGED <<clients, lock, out, todo, dst, conn, told, sent, last, color,
                 exits, up>>

-----------------------------------------------------------------------------
(***************************************************************************)
(* Leaving: removeClient, called by both goroutines of a client.           *)
(***************************************************************************)

\* Fault: removeClient does not look the client up first.
RemoveUnconditionally(p) ==
  LET c == Owner(p)
      o == Out("exit", 0, NoClient) IN
  /\ up
  /\ pc[p] = "remove"
  /\ conn' = [conn EXCEPT ![c] = "closed"]
  /\ clients' = clients \ {c}
  /\ out' = [out EXCEPT ![p] = o]
  /\ todo' = [q \in Procs |-> IF q = p THEN Recipients(o, c) \ {c}
                                       ELSE todo[q] \ {c}]
  /\ pc' = [pc EXCEPT ![p] = "iter"]
  /\ exits' = [exits EXCEPT ![c] = @ + 1]
  /\ UNCHANGED <<lock, dst, writing, told, sent, last, color, up>>

\* The mutex is held. The first caller closes the connection, deletes the entry
\* (a walk that has not reached it will not produce it) and starts to notify
\* the peers with the mutex still held; the second finds nothing and unlocks.
RemoveClient(p) ==
  LET c == Owner(p)
      o == Out("exit", 0, NoClient) IN
  /\ up
  /\ pc[p] = "remove"
  /\ \/ /\ c \in clients
        /\ conn' = [conn EXCEPT ![c] = "closed"]
        /\ clients' = clients \ {c}
        /\ out' = [out EXCEPT ![p] = o]
        /\ todo' = [q \in Procs |-> IF q = p THEN Recipients(o, c) \ {c}
                                             ELSE todo[q] \ {c}]
        /\ pc' = [pc EXCEPT ![p] = "iter"]
        /\ exits' = [exits EXCEPT ![c] = @ + 1]
        /\ UNCHANGED lock
     \/ /\ c \notin clients
        /\ lock' = NoProc
        /\ pc' = [pc EXCEPT ![p] = "done"]
        /\ UNCHANGED <<conn, clients, out, todo, exits>>
  /\ UNCHANGED <<dst, writing, told, sent, last, color, up>>

\* The client's end of the connection goes away: the client leaves, or what it
\* read was not a frame.
Disconnect(c) ==
  /\ up
  /\ c \in Leavers
  /\ conn[c] \in {"open", "mixed"}
  /\ conn' = [conn EXCEPT ![c] = "broken"]
  /\ UNCHANGED <<clients, lock, pc, out, todo, dst, writing, told, sent, last,
                 color, exits, up>>

-----------------------------------------------------------------------------
(***************************************************************************)
(* Races. The Go runtime stops the program when it notices that a map is   *)
(* walked while it is written, and the websocket library panics when it    *)
(* notices two writes on one connection; neither always notices. Two       *)
(* writes that go unnoticed share the connection's buffer, and what the    *)
(* client reads from then on may not be what was written.                  *)
(***************************************************************************)

EditsMap(p) == \/ pc[p] = "insert"
               \/ pc[p] = "remove" /\ Owner(p) \in clients

MapRace == \E p, q \in Procs : p # q /\ EditsMap(p) /\ pc[q] = "iter"

WriteRace(c) == pc[Reader(c)] = "debug" /\ pc[Writer(c)] = "write"

MixFrames(c) ==
  /\ up
  /\ WriteRace(c)
  /\ conn[c] = "open"
  /\ conn' = [conn EXCEPT ![c] = "mixed"]
  /\ UNCHANGED <<clients, lock, pc, out, todo, dst, writing, told, sent, last,
                 color, exits, up>>

Crash ==
  /\ up
  /\ MapRace \/ \E c \in Clients : WriteRace(c)
  /\ up' = FALSE
  /\ UNCHANGED <<clients, lock, pc, out, todo, dst, conn, writing, told, sent,
                 last, color, exits>>

-----------------------------------------------------------------------------
\* The steps that goroutines of several roles take.
Shared(p) ==
  \/ \E x \in Clients : NextPeer(p, x)
  \/ Deliver(p)
  \/ WalkDone(p)
  \/ Lock(p)
  \/ RemoveClient(p)

ServerStep(c) == AddClient(c) \/ Announce(c)

WriterStep(c) == Tick(c) \/ Written(c) \/ WriteFails(c)

\* What the clients decide: to connect, to send, to leave.
Environment(c) ==
  \/ Upgrade(c)
  \/ \E k \in EventKinds : BroadcastEvent(c, k)
  \/ \E t \in Clients : PrivateText(c, t)
  \/ DebugEvent(c)
  \/ IgnoredEvent(c)
  \/ ReadFails(c)
  \/ Disconnect(c)

Next ==
  \/ \E p \in Procs : Shared(p)
  \/ \E c \in Clients : ServerStep(c) \/ DebugWritten(c) \/ WriterStep(c)
  \/ \E c \in Clients : Environment(c) \/ MixFrames(c)
  \/ Crash

Spec == Init /\ [][Next]_vars

\* The steps the goroutine p takes of its own accord.
Step(p) ==
  \/ Shared(p)
  \/ \E c \in Clients : \/ p = Server(c) /\ ServerStep(c)
                        \/ p = Reader(c) /\ DebugWritten(c)
                        \/ p = Writer(c) /\ WriterStep(c)

\* Every goroutine that can go on eventually does. Strong fairness is what
\* Go's channels and mutexes give: waiting senders are served in order, a
\* select chooses among its ready cases at random, and a starved mutex hands
\* over to its oldest waiter. A reader whose connection is gone is woken by the
\* close or by the pong deadline.
Fairness ==
  /\ \A p \in Procs : SF_vars(Step(p))
  /\ \A c \in Clients : WF_vars(conn[c] \in {"broken", "closed"} /\ ReadFails(c))

LiveSpec == Spec /\ Fairness

-----------------------------------------------------------------------------
(***************************************************************************)
(* Properties.                                                             *)
(***************************************************************************)

\* Every variable has the type of the Go value it stands for.
TypeOK ==
  /\ clients \subseteq Clients
  /\ lock \in Procs \cup {NoProc}
  /\ pc \in [Procs -> Labels]
  /\ out \in [Procs -> [kind : Kinds, n : Nat, to : Clients \cup {NoClient}]]
  /\ todo \in [Procs -> SUBSET Clients]
  /\ dst \in [Procs -> Clients \cup {NoClient}]
  /\ conn \in [Clients -> {"none", "open", "mixed", "broken", "closed"}]
  /\ writing \in [Clients ->
                    [kind : Kinds, src : Clients \cup {NoClient}, n : Nat]]
  /\ told \in [Clients -> [Clients -> [kind : Kinds, n : Nat, left : BOOLEAN]]]
  /\ sent \in [Clients -> Nat]
  /\ last \in [Clients -> Nat]
  /\ color \in [Clients -> Nat]
  /\ exits \in [Clients -> Nat]
  /\ up \in BOOLEAN

\* x's writer holds a message of a that it has not written yet.
Holds(x, a) == writing[x].src = a

\* The reader and the writer of a client both end in removeClient, in any order
\* and at the same time, but its peers are notified of its exit only once.
ExitOnce == \A c \in Clients : exits[c] <= 1

\* Nobody is sent an event or the exit of a client before serveWS has finished
\* announcing that client to everybody.
AnnouncedFirst ==
  \A x, a \in Clients :
    told[x][a].kind \notin {"none", "init"} => pc[Server(a)] = "done"

\* A peer is never sent an event of a client after a later one of that client,
\* or the announcement of the client after any of its events, whatever the
\* readers, writers and joins in between.
InOrder ==
  [][\A x, a \in Clients :
       \/ told'[x][a] = told[x][a]
       \/ {told[x][a].kind, told'[x][a].kind} \cap {"none", "exit"} # {}
       \/ told'[x][a].n > told[x][a].n]_vars

\* A broadcast skips nobody: when a client's reader is not broadcasting, every
\* healthy registered peer that has heard of the client has been sent (or its
\* writer holds) the client's latest event to everybody.
PeersUpToDate ==
  \A x, a \in Clients :
    (/\ x \in clients /\ conn[x] = "open"
     /\ UUID[x] # UUID[a]
     /\ told[x][a].kind \notin {"none", "exit"}
     /\ pc[Reader(a)] \notin {"iter", "send"}
     /\ ~Holds(x, a))
    => told[x][a].n >= last[a]

\* A color change broadcast to the peers is the client's color: a healthy
\* registered peer whose latest news of an idle client is a color was sent the
\* color that the server keeps for the client.
ColorAgreed ==
  \A x, a \in Clients :
    (/\ x \in clients /\ conn[x] = "open"
     /\ told[x][a].kind = "color"
     /\ pc[Reader(a)] \notin {"iter", "send"}
     /\ ~Holds(x, a))
    => told[x][a].n = color[a]

\* Nobody is leaving: no reader or writer is in removeClient.
Calm == \A c \in Clients :
          \A p \in {Reader(c), Writer(c)} : /\ pc[p] \notin {"lock", "remove"}
                                           /\ out[p].kind # "exit"

\* x's writer will take the next message, now or after the one in hand.
Responsive(x) == pc[Writer(x)] \in {"select", "write"}

\* x has left and its writer is gone: who waits for it waits for ever.
HasLeft(x) == pc[Writer(x)] = "done"

\* While nobody is leaving, nobody waits for somebody who waits in turn: a
\* broadcast waits only at a writer that will take the message, at a client
\* that is still being announced, or at one that left while it was being
\* reached; the announcement of the only such client waits only at a writer
\* that will take it or is gone; and who has the mutex is about to give it back.
NoCircularWait ==
  Calm =>
    /\ \A p \in Procs :
         pc[p] = "send" => \/ Responsive(dst[p]) \/ HasLeft(dst[p])
                           \/ dst[p] \in Joining
    /\ \A c \in Clients :
         (Joining = {c} /\ pc[Server(c)] = "send") =>
           Responsive(dst[Server(c)]) \/ HasLeft(dst[Server(c)])
    /\ lock # NoProc => pc[lock] = "insert"

\* Two clients that join at the same time are announced to each other, and
\* neither has a writer yet.
Crossed == \E a, b \in Clients : /\ dst[Server(a)] = b /\ dst[Server(b)] = a
                                 /\ {a, b} \subseteq Joining

\* Somebody waits for a client whose writer is gone.
Stranded == \E p \in Procs : pc[p] = "send" /\ HasLeft(dst[p])

\* removeClient has the mutex and waits for a client that takes nothing now.
Cornered == \E p \in Procs : /\ lock = p /\ pc[p] = "send"
                             /\ ~Responsive(dst[p])

\* The ways in which the server is known to hang.
Hung == Crossed \/ Stranded \/ Cornered

\* A request that was upgraded to a websocket is eventually registered and
\* announced, and its reader and writer are started, while others join, send
\* and leave: only a crossing of two announcements, a writer that is gone or
\* the walk of removeClient can keep it from that.
JoinCompletes ==
  \A c \in Clients :
    pc[Server(c)] = "add" ~> (pc[Server(c)] = "done" \/ ~up \/ Hung)

\* Every broadcast of an event eventually gets past the last of its recipients,
\* so that the reader goes back to reading, with the same exceptions.
BroadcastsEnd ==
  \A c \in Clients :
    pc[Reader(c)] \in {"iter", "send"} /\ out[Reader(c)].kind # "exit"
      ~> (pc[Reader(c)] = "read" \/ ~up \/ Hung)

\* When a writer gives up on its connection, the client is eventually removed.
CleanupHappens ==
  \A c \in Clients : pc[Writer(c)] = "lock" ~> (c \notin clients \/ ~up)
=============================================================================
