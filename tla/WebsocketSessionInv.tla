------------------------ MODULE WebsocketSessionInv ------------------------
(***************************************************************************)
(* The inductive invariant of WebsocketSession, as a conjunction of named  *)
(* parts.                                                                  *)
(***************************************************************************)
EXTENDS WebsocketSession

\* The i-th frame that waits carries a position.
PosAt(i) == i \in 1..Len(queue) /\ queue[i].kind = "pos"

\* workerRead is in the list from the start and is joined only once it has
\* ended; workerWrite does not exist before it is started.
StageInv ==
  /\ "read" \in threads
  /\ (game = "join" /\ "read" \notin joining) => reader = "done"
  /\ reader \in {"connect", "flag", "spawn"} => writer = "none"

\* Before the connection is made there is nobody to write to.
LinkInv ==
  /\ reader = "connect" => link = "none"
  /\ link = "none" => reader \in {"connect", "done"} /\ writer = "none"

\* Only positions, and the string that wakes workerWrite, are queued; the
\* game's thread itself writes anything but positions.
KindInv == /\ \A i \in 1..Len(queue) : queue[i].kind \in {"pos", "empty"}
           /\ direct.kind # "pos"
           /\ writer \in {"write", "pop"} => queue # <<>>

\* The positions that wait are newer and newer, and all newer than the one the
\* peers show: but for the first of them while it is written and not popped.
WaitInv ==
  /\ \A i, j \in 1..Len(queue) :
       (PosAt(i) /\ PosAt(j) /\ i < j) => queue[i].pos < queue[j].pos
  /\ \A i \in 1..Len(queue) : PosAt(i) =>
       /\ queue[i].pos <= queued
       /\ shown.pos <= queue[i].pos
       /\ shown.pos = queue[i].pos => i = 1 /\ writer = "pop"
  /\ shown.pos <= queued /\ queued <= car

\* While the connection is up, or not made yet, the last position that was
\* queued waits unless it is shown; so does the frame that is being popped.
LastInv ==
  link # "down" =>
    /\ \/ queued = shown.pos
       \/ \E i \in 1..Len(queue) : PosAt(i) /\ queue[i].pos = queued
    /\ (writer = "pop" /\ PosAt(1)) => queue[1].pos = shown.pos

IInv == TypeOK /\ StageInv /\ LinkInv /\ KindInv /\ WaitInv /\ LastInv

-----------------------------------------------------------------------------
\* Once the player has left.
Leaving == game \in {"push", "join", "closed"}

\* Where workerRead was when the player left it has been since, or has gone on;
\* only while it runs is the session on.
OnInv ==
  /\ Leaving <=> leftAt # "none"
  /\ leftAt \in {"spawn", "read", "done"} =>
       reader \notin {"connect", "flag"} /\ ~connected
  /\ leftAt \in {"read", "done"} => reader # "spawn"
  /\ (leftAt \in {"connect", "flag"} /\ ~connected) =>
       reader # "spawn" /\ writer = "none"
  /\ connected => reader \in {"spawn", "read"}

\* The list of threads is complete unless the player left during the setup, and
\* the loop over it ends with workers that have ended. Until workerWrite gets
\* it the string that wakes it is queued.
JoinInv ==
  /\ writer # "none" => "write" \in threads
  /\ game = "join" =>
       /\ "write" \in joining \/ writer \in {"none", "done"}
            \/ leftAt \in {"connect", "flag", "spawn"}
       /\ (~connected /\ writer \in {"none", "front"}) => queue # <<>>
  /\ NoOrphans

LeaveInv == OnInv /\ JoinInv
=============================================================================
