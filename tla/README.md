# MultiplayerCars: models, checks and proofs

MultiplayerCars is a small multiplayer game. A Go server (`src/GoServer`)
relays what each player does to the other players over websockets; a C++
client (`src/CPPClient`) moves a car, picks colors and chats. This directory
holds TLA+ models of the parts of it where several goroutines or threads act on
shared state, the TLC configurations that check them, and theorems about them
that TLAPS checks.

Run everything from this directory:

    tlc -workers 2 -config MCManager_events.cfg MCManager    # one model run
    tlapm ManagerProofs.tla                                  # one proof module

Contents: [the system](#1-the-system) · [the modules](#2-the-modules) ·
[the runs](#3-the-runs) · [fairness](#4-fairness) ·
[what the code does against its comments](#5-what-the-code-does-against-its-comments) ·
[the proofs](#6-the-proofs) · [what is not modelled](#7-what-is-not-modelled) ·
[what could come next](#8-what-could-come-next)

## 1. The system

### Connection manager (server: `manager.go`, `client.go`, `event.go`)

State: the map `m.clients`, the Manager's mutex, and for each client its
connection, its unbuffered channel `egress`, its uuid and its color.

Three goroutines serve each client. `serveWS` verifies the request, upgrades
it, calls `addClient` (under the mutex), announces the client to the others and
only then starts `readMessages` and `writeMessages`. `readMessages` reads an
event, and its handler sends it on the `egress` of every other client, one
after the other. `writeMessages` is the only receiver of its client's `egress`;
it also writes a ping every 9 s and the time every second. Both end in
`removeClient`, which closes the connection, deletes the client and notifies the
others, all with the mutex held.

Hard: the walks over the map hold no lock (except `removeClient`'s), every send
waits for another client's writer, and a client's writer does not receive while
it writes or is itself in `removeClient`.

Correct when: nobody hears of a client before its announcement; a peer's news
of a client keep the client's order and skip nothing; the last color a peer was
told is the one the server keeps; the exit is told once; goroutines do not wait
for each other in a circle; joins complete,
broadcasts end, and a client whose writer failed is removed.

### Keep-alive (server: `client.go`)

State: the connection's read deadline and the writer's ticker. The writer pings
every 9 s, the client's library answers, and the pong handler moves the deadline
to 10 s from then. It runs only inside `ReadMessage`, so not while the reader
hands an event to the peers, and a read past the deadline fails even if the
answer has arrived.

Correct when: a client that answers is not dropped by the deadline, for as long
as the delays on both sides stay within what the margin of 1 s bears; one that
vanished without closing is.

### Login and one-time passwords (server: `otp.go`, `manager.go`)

State: the map of keys with their creation times. `/login` stores a new key,
`/ws` looks one up and then deletes it, and the goroutine `Retention` deletes
those older than 5 s at every tick of 400 ms. Nothing locks the map.

Hard: lookup and deletion are two steps; keys are stored and expire while a
sweep walks the map; the races on the map can stop the program.

Correct when: a key lives its whole period and not much longer; a key that was
spent stays refused; a key is accepted once.

### Websocket session (client: `websocket/websocketSession.cpp`)

State: `m_isConnected`, the queue of frames to write, the list of worker
threads, the color, the socket. The game's thread queues positions, writes
colors and texts itself, and closes the session. `workerRead` connects, sets the
flag, starts `workerWrite` and reads; `workerWrite` takes the frame in front,
writes it and pops it.

Hard: one flag tells both workers to stop and is set by one of them; both can be
blocked when the game's thread joins them; two threads write on one connection.

Correct when: no queued position is lost, doubled or overtaken; closing ends,
and no worker is left when it does.

### Message relay and game loop (client: `main.cpp`)

State: three thread-safe queues, the map of the other players' cars, the car's
coordinates, the text buffer, the list of texts, two atomic flags. The session's
reader pushes every message into one queue; the relay thread moves positions to
one queue and the rest to another; the game loop handles at most one of each per
frame, but none of the rest while more than two positions wait. A batch thread
sets a flag once, after 1.5 s, on which the loop drops about half the positions.

Hard: the split changes the order of a player's messages; the queues' sizes are
read without their mutex and one is re-read in the loop that shrinks it.

Correct when: a player who left is not shown; positions are shown in order and
the newest one is shown; a color and a position that race settle; a newcomer is
told where the car is, or the session refused to; every message is served; the game
can be left, and the threads it joins then are awake.

### Thread-safe queue (client: `gui/threadSafeQueue.hpp`)

State: a `std::queue`, a mutex, a condition variable. `push`, `front` and `pop`
lock; `isEmpty` and `getSize` do not. `front` waits for an item and returns a
reference that the consumer uses without the mutex. The session's writer and the
relay block in `front`; the game loop asks `isEmpty` or `getSize` first.

Correct when: it is a FIFO queue to its one consumer, no wakeup is lost, a frame
never waits in `front`, and nothing is popped from an empty queue.

### Car, chat and color input (client: `main.cpp`, `windowContext.cpp`, `carClass.cpp`)

State: the car's coordinates and color, the session's color, the text buffer and
its count, the flags `move`, `text` and `mouseOnText`. A frame handles the arrow
keys, one click, the position, the typed characters and the text, in this order.

Hard: bounds tested one pixel before the border; three color tables; a buffer
edited between showing a line and sending it; edges that two tests share.

Correct when: the car stays in its track and no move goes untold; the peers see
the color the player sees; the line shown is the line sent, or refused; a click
picks the square under it.

### The other parts

The login request and the connection setup run before anything is concurrent.
Drawing has no state but the window. `main.go` registers the routes. The page in
`frontend/` is left over from the tutorial the server started from. `include/`
holds raylib-cpp. PROJECT.json lists every component with its status.

### How the parts interact

    player ── game loop ── session ══ websocket ══ reader ── Manager ── writer ══ websocket ══ session ── relay ── game loop ── player
             (queue of positions)                  (goroutines, egress channels)                       (three queues)

A player's `/login` gives a one-time key, and `/ws` with that key makes a
client of the Manager.

## 2. The modules

| module | models | state, and what it stands for |
|---|---|---|
| `Manager` | `manager.go` from the upgrade on, `client.go`, `event.go` | `clients`, `lock`: the map and who holds the mutex; `pc[p]`: where the goroutine p is, p being `<<role, client>>` with the roles serve, read, write; `out`, `todo`, `dst`: what a goroutine broadcasts, the map entries its walk has yet to produce, the client whose `egress` it waits at; `writing`: the message in a writer's hand; `conn`; `color`; `up`: FALSE after a crash. History: `told[x][a]`, the last thing x was sent about a and whether its exit was among them; `sent`, `last`, `exits` count and number events |
| `RetentionMap` | `otp.go`, `loginHandler`, the use of `VerifyOTP` in `serveWS` | `rm`, `created`: the map; `pc`, `otp`: the requests; `sweeping`, `todo`: the walk of `Retention`; `tick`, `next`: its ticker; `now` |
| `WebsocketSession` | `websocketSession.cpp` and the calls `main.cpp` makes of it | `connected`, `queue`, `threads`, `partial`, `color`: the fields of the session; `game`, `reader`, `writer`: where the three threads are; `joining`, `direct`: the locals of `closeConnection` and of a direct write; `link`. History: `queued`, `shown`, `leftAt` (where the reader was when the player left) |
| `Roster` | what the server promises each pair of players | `stage[a]`: out, announcing, in, gone; `sent`; `news[x][a]`. `ManagerInv` maps `Manager` to it (`KeepsRoster`) |
| `KeepAlive` | the ticker, the pings and the read deadline of `client.go` | `now`, `tick`, `fired`: the clock and the ticker; `reader`, `since`; `deadline`; `answerBy`, `pong`: an answer on its way and one that arrived; `silent`, `quiet`: whether and since when the client is gone. History: `late`, whether one of the steps ever took longer than its bound |
| `GameLoop` | `main.cpp`: both threads of `MessageRelay`, the listener, the frame | `game`, `relay`, `batch`: where the three threads are; `running`, `handleBatch`: the atomic flags; `wsQ`, `posQ`, `guiQ`: the queues; `cars`: `gui_externalplayers`; `texts`, `move`, `popped`. History: `got`, `heard`, `routed`, `dropped`, `greeted`, `missed` (players the session refused to tell) |
| `Screen` | what the game promises to show of the others | `heard`, the messages received; `seen`, the cars. `GameLoopInv` maps `GameLoop` to it (`KeepsScreen`) |
| `ThreadSafeQueue` | `threadSafeQueue.hpp` | `queue`, `mutex`; `pushing`, `pushed`: the producers; `taking`, `held`, `signal`: the consumer, what it has a reference to, whether it was notified. History: `sure` |
| `AtomicQueue` | what a queue promises to its one consumer | `items`, `held`. `ThreadSafeQueue` is shown to implement it (`KeepsFifo`) |
| `CarWindow` | a frame's input in `main.cpp`, the layout of `windowContext.cpp`, `carClass.cpp` | `phase`: where the frame is; `x`, `y`, `move`; `carColor`, `currColor`; `mouseOnText`, `buf`, `letterCount`, `text`. History: `line`, `said`, `lost`, `onBoth`, `told`, `refused`, `typed` |
| `ManagerInv`, `RetentionMapInv`, `WebsocketSessionInv`, `GameLoopInv`, `CarWindowInv` | | the inductive invariants, as named parts (`CarWindowInv` holds the properties, too; `ThreadSafeQueue` and `KeepAlive` hold their own) |
| `...Proofs` | | the theorems |
| `MC...` | | the values of constants, and the symmetries, for TLC |

The models share no variable: what a `/ws` request needs of a key is its
acceptance (`RetentionMap`), after which it is an `Upgrade` of `Manager`; a
session's connection breaks whenever `Manager` could close it; what `GameLoop`
receives is what `Roster` promises; `WebsocketSession` and `GameLoop` use queues
as `AtomicQueue` describes them; and of a frame's input `GameLoop` keeps only what
other threads or the players on the screen notice, `CarWindow` the rest. Operators whose
comment begins with "Fault:" are mutations of the action that follows them;
PROJECT.json says which property detects each.

### Choices in `Manager`

- *Walks.* Go's `range` over a map produces an entry added meanwhile or not, and
  does not produce one deleted before it is reached. `StartWalk` takes the
  recipients, `NextPeer` takes any of those left, `AddClient` adds the new client
  to any subset of the walks, `RemoveClient` removes the client from all. A walk
  that already waits at a client stays there (`dst`): this is what deadlocks.
- *Egress.* The channel is unbuffered, so a send and the receive are one step
  (`Deliver`), possible when the peer's writer is at its `select`.
- *Connections.* A write on a broken connection succeeds (the message is lost)
  or fails; on one the server has closed it fails. A failed write of a broadcast
  is only logged; a failed ping or time ends the writer. Both tickers are one
  action, `Tick`. Frames that arrived before a connection broke can still be
  read.
- *Events.* What an event contains is reduced to its kind and its number; the
  handlers differ only in whom they send to and whether they store the color.
- *Races.* A map written during a walk and two writes on one connection may be
  noticed by the runtime or the library (`Crash`) or not. When they are not, the
  map behaves as described above, and the frames may be mixed (`MixFrames`): the
  client on that connection (`conn` "mixed") may have received anything since, so
  it counts as healthy no more. Its goroutines go on as before.
- *Bounds.* `MaxEvents` events routed for each client, `MaxJoining` requests
  served at once. Each element of `Clients` joins once; a player who comes back
  is another client.
- *Leavers* are the clients that may vanish or send a frame that is not JSON.
  The others are the healthy ones that the properties speak of.

### Choices in `RetentionMap`

One unit of time is a fraction of the ticker's interval; `Lag` bounds what a
goroutine may take over one tick, or between drawing a key and storing it. That
is an assumption about the scheduler which the code makes too (a slow `Retention`
would drop ticks); without it `StaleRefused` is false for any bound. A login
draws a uuid, so each has a key of its own. `VerifyOTP` is split between lookup
and deletion; each map operation is one step.

### Choices in `WebsocketSession`

A frame is what its peers take from it: the kind, the position, the color a
position carries along. The car's position is the number of its moves. The two
threads that write on one connection can garble frames; then the server, which
cannot parse them, closes the connection: `LinkBreaks` can occur at any time.
The player may close the game wherever `workerRead` is, and `leftAt` remembers
where it was. The properties about closing name the places where the code fails:
before the flag is set (the setup sets it again, `CloseEnds`), and between the flag
and the start of `workerWrite` (which then may not be joined, `NoOrphans`). A
position or text that the session refuses (`CanSend`) is lost.

### Choices in `KeepAlive`

The unit of time is free (the run takes quarter seconds). The writer may take any
time to write a ping after its tick, the client to answer, and the reader to hand
an event to the peers: nothing in the code bounds that. No write has a deadline, so
one peer that stops receiving keeps everybody who broadcasts to it from reading,
and after a second healthy senders can be dropped with it. `Lag`, `Delay` and `Busy`
are where each of the three begins to be late, and `late` remembers whether one of
them was. `SlackAssumption` says that they add up to less than what `pongWait`
leaves beyond `pingInterval`, 1 s; so the properties say which delays the server's
margin bears. An answer, and events, that a client sent before it vanished may
still be on their way (`FallSilent`, `ReadMessage`), and the answer moves the
deadline. Two answers on their way count as one: that happens only after a late
step.

### Choices in `GameLoop`

A message is its kind, the player it is about, a number and a color. `OnMessage`
allows what a client of this server can receive, in the order it can come: a
player's positions in theirs, one exit, but also (section 5) what the player had
sent before the exit and another goroutine still hands on after it; a color change
before the positions that wait at the player's session with the color before
(`ColorsOf`). A message may also be unreadable: one that is not JSON, or has no
type, is dropped; a position without its members (color 0) and a "bad" message are
skipped if the missing member throws `std::out_of_range`, or end the program
("aborted"), because the handler catches nothing else. `got[a]` sums up what was
received of a: the newest position, its color, the last color told, whether an exit
came after it. What `ColorSettles` says follows: until the player moves again, a
position from before a color change may come after it and win, because the two are
handled from two queues; once the newest position carries the newest color, no
older one comes back.

`SendPosition` may be refused by the session, which is not connected or has read a
part of a message (`websocketSession.cpp:39`). The flag that asks for it is reset in
either case (`main.cpp:465`), so the players on the screen who were not told are
`missed` until the next move: `NewcomersGreeted` names them.

A frame is seven steps, so that the relay and the batch thread come in between.
`getSize` returns a size that the queue had; what a torn read can do is in
`ThreadSafeQueue`. `closeConnection` returns; when it does not is the run `early`.
`cars[a].n` and `.color` outlive the erased entry, to be compared with later ones.
The two position messages are handled alike and are one kind.

### Choices in `ThreadSafeQueue`

A push is three steps: lock, put and unlock, notify. `isEmpty` compares one
pointer and sees the queue before or after a half done put; `getSize` computes
with several and may yield any number of `Torn`. A wait can end for no reason.
One consumer: every queue of the program has one, but it may change between the
uses, so `Uses` lists all three.

### Choices in `CarWindow`

The layout and the color tables are the program's numbers. The car's size and the
lengths of the buffers are parameters. Letters are model values; a frame takes any
number of them. A session that is not connected or in the middle of a message
refuses the position (`refused`) or the text (`lost`); neither is sent again.

## 3. The runs

Passing runs. All finish without error, and between them every action of every
model is taken.

| run | question | bounds |
|---|---|---|
| `events` | Does the server keep `Roster` (`KeepsRoster`): announcement first, events in order, one exit? Is a client announced before anything else is said of it (`AnnouncedFirst`), is nobody skipped (`PeersUpToDate`), does a color agree with the stored one (`ColorAgreed`), is an exit notified once (`ExitOnce`), does nobody wait for somebody who waits in turn (`NoCircularWait`), and does the inductive invariant hold (`IInv`)? | two clients joining at once, one may leave; two events each of two kinds |
| `live` | Do joins complete (`JoinCompletes`) and broadcasts end (`BroadcastsEnd`), but for the deadlocks of section 5, which the properties name (`Hung`)? Is nobody skipped while frames are mixed (`PeersUpToDate`)? | two clients joining at once, one may leave; one event each: text to all or to one, debug, unreadable |
| `otp` | Are keys kept their period (`NeverEarly`), swept in time (`StaleRefused`), refused once spent (`SpentRefused`)? | two logins, two requests, four intervals |
| `keepalive` | Does a client that answers stay unless somebody was late (`HealthyStays`), and does one that vanished go in time (`SilentDropped`)? | the server's durations in quarter seconds, late from one quarter on, three ping cycles |
| `session` | Are positions neither lost (`QueueDelivered`, `PositionsArrive`) nor overtaken (`PositionsForward`)? Does closing end (`CloseEnds`) with no worker left (`NoOrphans`)? | three moves, one color, one text; the player leaves at any time |
| `game` | Does the screen keep to what was heard, and forward (`KeepsScreen`)? Is the newest position shown (`NewestShown`), at rest each player's last one unless the batch took it (`ShownAtRest`)? Do colors settle (`ColorSettles`)? Are newcomers told where the car is before their car is drawn, or refused (`NewcomersGreeted`)? Is every position shown or dropped (`PositionsShown`), every other message served (`GuiServed`), and does leaving end (`LeaveEnds`)? | two players: three positions, colors (of two) or an exit of one, one position or unreadable message of the other; one line |
| `queue` | Is it FIFO (`KeepsFifo`), does no wakeup get lost (`NoLostWakeup`, `AllTaken`), does no frame wait (`NoFrameWaits`), is every pop defined (`NeverUndefined`) and the newest item left (`NewestKept`)? | two producers, three items each, all three uses, torn sizes -1, 0, 16 |
| `car` | Does the car stay in its track (`InTrack`), is every move told (`PositionTold`), is the color the peers see the player's (`PeersSeeMyColor`), the string in the buffer what was typed (`ShowsTyped`), the line shown the line sent or refused (`LinesAreSent`), the square picked the one drawn (`PickedIsDrawn`)? | a car four pixels narrower and two lower than its track, two characters, 15 click points on both sides of each edge, the shared column included |

Violation runs. TLC finds the property violated by what the code does; see
section 5.

| run | property | what TLC shows |
|---|---|---|
| `cleanup` | `CleanupHappens` | `removeClient` waits for a peer that waits for its mutex |
| `reuse` | `OneUse` | two requests are accepted with one key |
| `early` | `CloseCompletes` | closing during the connection setup never ends |
| `overtake` | `GhostFree` | an exit is handled before a position that came first, and the player is back |

*Why the bounds are enough.* In `Manager` the properties relate pairs of clients,
and two events are needed for an order; two clients that join at once are the
smallest crossing, and one that may vanish at any step meets every step of the
other; for three and more clients the theorems stand, which hold for any
number. In `RetentionMap` two requests are needed for a race on a key and two keys
for a sweep to do one and miss the other; period 3 and interval 2 put expiries at
a tick and between ticks, and time runs until a key of the first interval has been
swept. In `WebsocketSession` the threads are fixed; three moves leave two positions
behind the one being written. In `GameLoop` three positions exceed the threshold, so
that the batch drops and a message of the other player has to wait (`GuiServed`);
three messages of one player let a color or an exit pass a position, or the other
way round, and a second color follow. (A push while the batch drops needs a fourth
position: `NewestOnScreen` is proved for it.) In `ThreadSafeQueue` six items let the
queue be empty, of one and of more while each producer is in each step. In
`CarWindow` both borders are two steps away and both parities of the distance occur.
In `KeepAlive` a drift of the deadline shows in the second cycle. Except liveness,
everything checked is also proved for any bounds.

*Symmetry* is used in `otp`, where the logins play the same part and the requests
do. It is not used for liveness nor where the clients or players differ.

*Deadlock* is not checked because the programs legitimately come to rest: when
every client is gone or has sent its `MaxEvents`, when the clock reaches
`MaxTime`, when the game is closed, when every item is taken. Waiting for ever is
checked as liveness (`live`, `session`, `game`, `queue`, `cleanup`, `early`).

## 4. Fairness

`Manager`: strong fairness of each goroutine's own steps, `Step(p)`. Go's
runtime runs every runnable goroutine; the senders that wait at a channel are
served in the order they came; a `select` picks at random among its ready cases,
so a ticker that is always ready does not starve the `egress`; a mutex whose
waiter starves hands over to the oldest one. Weak fairness would let a writer
tick for ever while a sender, enabled only while the writer is at its `select`,
waits. What the clients decide (to connect, to send, to leave) is not fair,
except that a reader whose connection is gone is woken, by the close or by the
pong deadline. Writes return: the code sets no write deadline, so a peer that
stops receiving without breaking the connection is outside this model.

`WebsocketSession`: weak fairness of each thread. For the reader this includes
the server, which answers the handshakes and sends the time every second for as
long as the connection is up; a blocked read therefore returns.

`GameLoop`: weak fairness of the game's thread, the relay and the batch thread,
which the operating system runs. None of them waits for a lock that another keeps:
the queues' critical sections are a few instructions. The server and the player are
not fair, but what the server sends ends (`MaxNews`); while positions kept coming
faster than frames, other messages would wait for as long.

`ThreadSafeQueue`: weak fairness of `Put`, `Notify` and the consumer's steps, and
of a notified wakeup. `LockFront` and `Pop` need the mutex, which producers could
take again and again; they have a bounded number of items here, and the program's
producers pause between two (a network read, a frame). Waking without a
notification is not fair.

`RetentionMap` and `KeepAlive` state no liveness: what must happen in time is said
with the clock, as an invariant.

## 5. What the code does against its comments

- **Removal can block for ever** (`cleanup`, `manager.go:259`). The removing
  goroutine waits, mutex in hand, for a peer whose writer waits for the mutex.
  Nobody joins or leaves after that.
- **One key, two connections** (`reuse`, `otp.go:42`). Two requests look up
  before either deletes.
- **Leaving early hangs** (`early`, `websocketSession.cpp:169`). `workerRead`
  sets the flag that `closeConnection` had cleared, and both workers go on.
- **A player who left comes back** (`overtake`, `main.cpp:77`). Position, then exit:
  the relay puts them into two queues, the loop handles the exit while the position
  still waits behind another, and the position adds the player as a "new player"
  (`main.cpp:258`). Nothing removes that car again.

Consequences of the models that have no run of their own:

- Two requests served at the same time can block each other for ever
  (`manager.go:226`): both clients are on the map, neither has a writer yet, and each
  announcement waits for the other's. This is `Crossed`, which `JoinCompletes`
  excepts: without it the run `live` violates it. `NoCircularWait`
  says what is left: as long as nobody is in `removeClient`, this is the only circle;
  the theorem `NobodyStuck` shows that no third client changes that.
- The clients map is walked without the mutex (`manager.go:274`) that its comment
  says is there to lock it before editing (`MapRace` in `Manager`).
- A writer's `removeClient` notifies the peers while the client's reader is still in
  a broadcast, and the reader goes on with the frames it has received, so events may
  follow the exit, any number of them (`Roster` allows that, but no second exit). The
  peer's game makes the departed player anew of a position among them.
- A broadcast that waits at a peer whose writer has ended waits for ever
  (`manager.go:276`): `Stranded`, which `BroadcastsEnd` excepts.
- A debug event makes the reader write beside the writer (`WriteRace` and
  `MixFrames` in `Manager`); the map of keys is edited by handlers and by `Retention` without a
  lock (`MapRace` in `RetentionMap`). Both can end in `Crash`.
- `sendColorUpdate` writes at once, past the positions that wait with the old
  color; the peers take the old color over again (`shown.color` goes back)
  until the next position (`ColorSettles`).
- The batch can drop the last position of one player when another's is newer. The
  comment accepts it ("losing a few is not an issue", `main.cpp:527`); the player is
  shown at an earlier place until the next move. The flag is set once, 1.5 s after
  the start, so it happens in one frame per game.
- The chat box is `[0, 1500)` and the SEND button `[1499, 1599)`: a click in the
  common column sends and begins to type, and what is typed in that frame changes
  the text that was already shown. `LinesAreSent` says so of such a click (`onBoth`),
  and that only such a click shows another text than is sent.
- A click on the far edges of the color box, x = 1250 or y = 790, picks a color
  though no square is drawn there (`FarEdge` in `PickedIsDrawn`).
- Sky blue is the int 0x66BFFFFF but the string "25FDCB". All three tables agree on
  that, so everybody sees the same color (`PeersSeeMyColor`).
- The text stays in the box after it was sent, and can be sent again.
- `sendPosition` drops the position when the session is not connected or a
  message is half read (`CanSend`), and nothing sends it again until the car
  moves: a newcomer may not see the car until then (`missed`).
- A player who leaves between the flag and the start of `workerWrite`
  (`websocketSession.cpp:169`) may leave that thread unjoined (`NoOrphans`).

## 6. The proofs

Each is checked by TLAPS for all values of the constants that satisfy the named
assumptions: any clients, any assignment of uuids (also shared ones), any event
kinds and bounds; any logins, requests, period, interval and lag with
`Lag < Interval` and `Lag <= Period`; any numbers of moves, colors and texts; any
players, messages and lines; any producers, items and uses of a queue; any car that
fits the track, any buffer and any clicks; any `pongWait` from 10 units on, with
bounds for the delays that add up to less than its slack, and any delays.

**`ManagerProofs`.** `TypeCorrect`, `Invariance`, `MutualExclusion`,
`ExitNotifiedOnce`, `AnnouncementFirst`, `NobodyStuck`, `NobodySkipped`,
`ColorsAgree`, `DeliveryInOrder`. All follow from `IInv` of `ManagerInv`. None of these
properties is inductive by itself, because each speaks of messages delivered
while the reason is in messages on their way:

- `RoleInv`, `WalkInv`, `JoinInv`: which goroutine can be where and with what in
  hand; reader and writer exist only after `serveWS`; a client not on the map is
  on no walk.
- `MutexInv`: who is between `Lock` and `Unlock`, including the whole walk of an
  exit. With `ExitInv` it gives `ExitOnce`: a second `removeClient` finds nothing.
- `WaitInv`: a walk reaches only clients its message is for, and a client that was
  announced has a writer. With `JoinInv` and `MutexInv` it gives `NoCircularWait`:
  while nobody is leaving (`Calm`), the writer a broadcast waits at will take the
  message, or has ended, or belongs to a client that is being announced; the
  announcement of the only such client is not for itself, so it waits at none of
  these; and the mutex is held only by an `addClient`, which waits for nothing.
  Two joining clients, or a leaving one, make a circle possible (section 5): the
  hypotheses are what the code needs, not what the proof does.
- `NewsInv`, `FreshInv`: what a writer holds obeys `AnnouncedFirst` too.
- `NumberInv`, `LatestInv`, `OrderInv`: a reader broadcasts only its latest
  event, and whoever is still due it holds nothing as new. With an unbuffered
  channel and one broadcast at a time per reader, this is `InOrder`. Exits are
  excepted, and must be: see section 5.
- `PeerInv`: a peer is due the latest event, holds it, has it, or never heard of
  the client. It carries `PeersUpToDate` through a walk; without the walk's part
  it fails at the first `NextPeer`.
- `ColorInv`: a color on its way is never newer than the stored one, and goes to
  other uuids only. With `PeerInv` this gives `ColorAgreed`.

The step lemmas are one per action, and under each one step per part it can
disturb.

**`RosterProofs`.** `RosterKept`: `Manager` implements `Roster`. Each action is
shown to be a `Move`, an `Act`, a `Tell` or a stutter under the mapping of
`ManagerInv` (a client's stage from `exits` and its `serveWS`, its news from
`told`). The step that delivers a message needs most of `IInv`: that it is the
announcement, or an event not older than the last, or an exit of a client that is
deleted.

**`RetentionMapProofs`.** `Invariance`, `StaleKeysRefused`, `SpentKeysRefused`,
`WholePeriod`. The part that matters is `SweptInv`: if the ticker fired after a
key expired, the tick still waits or the key is still in the sweep's `todo`.
Together with `ClockInv` (a tick is served within `Lag`) it bounds a key's age by
`Period + Interval + Lag`, although a sweep can miss a key that is stored or
expires while it walks: the next one takes it.

**`WebsocketSessionProofs`.** `Invariance`, `NothingLost`, `CarGoesForward`,
`AllJoined`, `NobodyLeft`, `WriterWoken`, `OnlyEarlyTurnsOn`, wherever `workerRead` is
when the player leaves. `WaitInv` says that the waiting positions increase and are
newer than the shown one, except the front one between its write and its pop;
`LastInv` says that the last queued position is shown or waits. `LeaveInv` adds what
closing needs: `OnInv`, who can still turn the session on, and `JoinInv`, which
workers are in the list and that a frame waits for `workerWrite`. `WriterWoken` and
`OnlyEarlyTurnsOn` are the safety half of `CloseEnds`.

**`GameLoopProofs`.** `Invariance`, `ScreenRefinement`, `CarsGoForward`,
`NewestOnScreen`, `OnlyBatchLoses`, `ColorsAgreeAtRest`, `EveryoneGreeted`,
`JoinsOnlyAwake`. `OrderInv` follows the positions through both queues: they rise
per player (`InLine`), are ahead of what is shown and dropped, the newest of all is
the last that waits (`NewestLast`, which the dropping loop cannot reach because it
stops before the last one), and each player's latest is shown, dropped or waits
(`Arriving`). `Unrouted` takes away the message in front that the relay has copied
and not yet popped, which is in two queues at once. `ColorInv`: the last
position carries its color through the queues (`Carries`), a color that is not the
last one told is followed by another (`Following`), and a player shown at its last
position has one of the two or a color still to come (`Settling`). `HeardInv` says
that whatever waits in a queue was received; with `OrderInv` it makes every step of
the frame a `Show`, `Paint` or `Remove` of `Screen`, or a stutter
(`ScreenRefinement`), from which `CarsGoForward` follows. `Leaving` follows the way
out of the game: the flag is cleared, then the relay gets a message, then it is
joined (`JoinsOnlyAwake`, the safety half of `LeaveEnds`).

**`ThreadSafeQueueProofs`.** `Invariance`, `PopDefined`, `PollingNeverWaits`,
`WakeupsKept`, `DroppingKeepsNewest`, and `FifoKept`, the refinement of
`AtomicQueue`. `SeenInv` is what makes reading without the mutex sound: with one
consumer, what it saw (or a put that was half done) can only grow until it has the
mutex.

**`CarWindowProofs`.** `Invariance`, `CarStaysInTrack`, `MovesAreTold`,
`SameColor`, `TextIsTyped`, `TextsFit`, `LinesSent`, `ClicksPickTheirColor`, for any
clicks, those in the common column of chat box and button included.
`BufferInv` says that what was typed is the buffer up to the count, and a NUL
follows; `ToldInv` that a position not told yet has `move` set.

**`KeepAliveProofs`.** `Invariance`, `HealthyNeverDropped`, `SilentGoes`.
`CycleInv` bounds how far each step of a ping cycle is behind while nobody was late,
and `DeadlineInv` says that the deadline outlives the cycle's answer, or the whole
cycle once it was answered. `SilenceInv` bounds what a client sent before it
vanished can still do to the deadline.

Model-checked only: all liveness (`JoinCompletes`, `BroadcastsEnd`,
`PositionsArrive`, `CloseEnds`, `PositionsShown`, `GuiServed`, `LeaveEnds`,
`AllTaken`), which is beyond TLAPS here. Not in a run because the theorem says it
for every instance: the type and inductive invariants of all modules but `Manager`,
and `InOrder`, `LeaveInv`, `NobodyWaits`, `StaysOff`, `JoinsAwake`, `FramesFit`,
`CarsGoForward`. (TLC checked each of them on the instances above before it was proved.)

## 7. What is not modelled

- Payloads, JSON, logging, HTTP status codes, the TLS setup: no property is about
  them. (A text with a quotation mark is a frame the server cannot parse;
  in `Manager` it is one of the ways `ReadFails`.)
- The 512-byte read limit: its effect, a read that fails, is in `Manager`.
- A write that never returns (no deadline is set, `client.go:136`): nothing bounds
  it, so every model lets writes return. When one does not, everybody who broadcasts
  to that client stops reading, and `removeClient` of anybody waits with the mutex.
- Data races on a `string` (`c.color`, `m_currColor`) and on the session's
  vector of threads: there is no outcome to enumerate.
- What raylib does when the frame that drops a batch begins to draw and never ends
  (`main.cpp:534`), and the widths of letters by which a long line is cut
  (`windowContext.cpp:181`).
- Drawing, beyond which frame draws and where the color squares are.
- The login request and the connection setup, beyond how they can end: they run
  before the threads. An answer that is not JSON ends the program
  (`postRequest.cpp:27`).
- `main.go`, `frontend/`, the build scripts: no behaviour of the game's own.
- `src/CPPClient/include/`: raylib-cpp, a third-party library kept as headers, 7,279
  of the repository's 8,805 lines of implementation. The program uses its window and
  its color class, and calls raylib itself for the rest. A model of these wrappers
  would be one of another project's code, and none of the game's behaviour would
  depend on it. Of the program's own lines nearly all that are code are mapped: what
  is left is declarations, `main.go`, the random uuid and drawing.

## 8. What could come next

Everything planned is modelled. What would add most now:

- `Manager` with a peer that stops receiving, together with `KeepAlive`: which
  clients are dropped, in which order, and whether the server recovers.
- A composition of `Manager`, `WebsocketSession` and `GameLoop` for one position from
  key to screen. The parts are connected by their specifications here (`Roster`,
  `AtomicQueue`); TLC would need small instances of all three at once.
- Repairs, each as a variant of the module with its violated property as a passing
  one: one queue for positions and exits, the walk over a copy of the clients map,
  `VerifyOTP` under a lock, the flag of the session set before its thread starts.
