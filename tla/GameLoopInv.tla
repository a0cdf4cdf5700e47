---------------------------- MODULE GameLoopInv ----------------------------
(***************************************************************************)
(* The inductive invariant of GameLoop, and what GameLoop implements.      *)
(***************************************************************************)
EXTENDS GameLoop

\* What the relay has still to move: the message in front stays there while a
\* copy of it is already in another queue.
Unrouted == IF relay = "pop" THEN Tail(wsQ) ELSE wsQ

IsPos(m) == m.kind = "pos"
IsColor(m, a) == m.kind = "color" /\ m.who = a

\* The relay pops only what it has looked at, and sorts by type.
Routing ==
  /\ game \in {"login", "connect", "start"} => relay = "none"
  /\ relay = "pop" => wsQ # <<>>
  /\ \A i \in 1..Len(posQ) : IsPos(posQ[i])

\* There is always a text to take away when another one comes.
Filled == game \in Frame => Len(texts) = Lines

\* Nothing that is shown, dropped or on its way is newer than what was received.
Behind == \A a \in Players : cars[a].n <= got[a].n /\ dropped[a] <= got[a].n

\* The positions of each player are in the order in which they were received.
Rising(q) ==
  \A i, j \in 1..Len(q) :
    (i < j /\ IsPos(q[i]) /\ IsPos(q[j]) /\ q[i].who = q[j].who)
      => q[i].n < q[j].n

\* They are later than the one on the screen and than the dropped ones.
Ahead(q) ==
  \A i \in 1..Len(q) :
    IsPos(q[i]) => /\ cars[q[i].who].n < q[i].n
                   /\ dropped[q[i].who] < q[i].n
                   /\ q[i].n <= got[q[i].who].n

InLine ==
  /\ Rising(posQ) /\ Rising(Unrouted)
  /\ Ahead(posQ) /\ Ahead(Unrouted)
  /\ \A i \in 1..Len(posQ), j \in 1..Len(Unrouted) :
       (IsPos(Unrouted[j]) /\ posQ[i].who = Unrouted[j].who)
         => posQ[i].n < Unrouted[j].n

\* The newest position of all is the last of those that wait, and then shown,
\* if it can be read.
NewestLast ==
  IF posQ # <<>> THEN routed = posQ[Len(posQ)]
                 ELSE routed # Wake => \/ cars[routed.who].n = routed.n
                                       \/ routed.color = 0

\* The latest position of a player is on the screen or on its way there.
Waits(a, q) ==
  \E i \in 1..Len(q) : IsPos(q[i]) /\ q[i].who = a /\ q[i].n = got[a].n

Arriving ==
  \A a \in Players : \/ cars[a].n = got[a].n \/ dropped[a] = got[a].n
                     \/ Waits(a, posQ) \/ Waits(a, Unrouted)

\* While the own position is not yet sent, the frame knows that it has to be.
Greeting ==
  \/ Known \subseteq greeted \cup missed
  \/ move /\ game \in {"gui", "input", "aborted"}

OrderInv ==
  /\ TypeOK /\ Routing /\ Filled /\ Behind
  /\ InLine /\ NewestLast /\ Arriving /\ Greeting

-----------------------------------------------------------------------------
(***************************************************************************)
(* What ColorSettles rests on.                                             *)
(***************************************************************************)

\* The last position of its player carries the color that goes with it, if it
\* can be read.
Carries(q) ==
  \A i \in 1..Len(q) :
    (IsPos(q[i]) /\ q[i].n = got[q[i].who].n)
      => q[i].color \in {0, got[q[i].who].color}

\* A color that is not the last one is followed by another one.
Colored(q, a) == \E i \in 1..Len(q) : IsColor(q[i], a)

Followed(q, i, a) ==
  \/ q[i].color = got[a].tint
  \/ \E j \in 1..Len(q) : i < j /\ IsColor(q[j], a)

Following ==
  \A a \in Players :
    /\ \A i \in 1..Len(guiQ) :
         IsColor(guiQ[i], a) => Followed(guiQ, i, a) \/ Colored(Unrouted, a)
    /\ \A i \in 1..Len(Unrouted) :
         IsColor(Unrouted[i], a) => Followed(Unrouted, i, a)

Settling ==
  \A a \in Players :
    (cars[a].here /\ cars[a].n = got[a].n)
      => \/ cars[a].color \in {got[a].color, got[a].tint}
         \/ Colored(guiQ, a) \/ Colored(Unrouted, a)

ColorInv == Carries(posQ) /\ Carries(Unrouted) /\ Following /\ Settling

-----------------------------------------------------------------------------
(***************************************************************************)
(* The abstract screen.                                                    *)
(***************************************************************************)

\* Nothing is made up on the way through the queues.
Told(q) == \A i \in 1..Len(q) : q[i] \in heard \cup {Wake}

HeardInv ==
  /\ Told(posQ) /\ Told(guiQ) /\ Told(Unrouted)
  /\ \A m \in heard : m.n <= got[m.who].n

-----------------------------------------------------------------------------
(***************************************************************************)
(* Leaving.                                                                *)
(***************************************************************************)

\* The threads were started before, and nobody lets the game run again.
Leaving ==
  /\ game \in Frame \cup {"close", "wake", "join"} =>
       relay # "none" /\ batch # "none"
  /\ game \in {"wake", "join"} => ~running
  /\ (game = "join" /\ relay = "front") => wsQ # <<>>

-----------------------------------------------------------------------------
IInv == OrderInv /\ ColorInv /\ HeardInv /\ Leaving

Shown == INSTANCE Screen WITH seen <- cars

\* The relay, the two queues and the frames of the game show each of the other
\* players as one step at a time of what was heard of it.
KeepsScreen == Shown!Spec
=============================================================================
