-------------------------------- MODULE Roster --------------------------------
(***************************************************************************)
(* What the server promises the players about each other, whatever its     *)
(* goroutines do: who is in the game, and what each client was last sent   *)
(* about each other one. Manager implements it (ManagerInv, RosterProofs). *)
(***************************************************************************)
EXTENDS Naturals

CONSTANT Clients

VARIABLES
  stage,  \* stage[a]: out, announcing, in or gone
  sent,   \* how many events the server has routed for each client
  news    \* news[x][a]: the last thing x was sent about a, and whether its
          \* exit was ever among them

vars == <<stage, sent, news>>

Heard(k, n, b) == [kind |-> k, n |-> n, left |-> b]
Unheard == Heard("none", 0, FALSE)

Init ==
  /\ stage = [a \in Clients |-> "out"]
  /\ sent = [a \in Clients |-> 0]
  /\ news = [x \in Clients |-> [a \in Clients |-> Unheard]]

\* A client takes the next stage: it is announced, then is in, then is gone,
\* each of them once.
Move(a) ==
  /\ \/ stage[a] = "out" /\ stage' = [stage EXCEPT ![a] = "announcing"]
     \/ stage[a] = "announcing" /\ stage' = [stage EXCEPT ![a] = "in"]
     \/ stage[a] = "in" /\ stage' = [stage EXCEPT ![a] = "gone"]
  /\ UNCHANGED <<sent, news>>

\* One more event of a client is routed. Frames that came before it left may
\* still be routed afterwards.
Act(a) ==
  /\ stage[a] \in {"in", "gone"}
  /\ sent' = [sent EXCEPT ![a] = @ + 1]
  /\ UNCHANGED <<stage, news>>

\* m may be the next thing x hears of a: the announcement comes first of all,
\* events follow in their order and only from a client that was announced to
\* everybody, and the exit is news of a client that is gone, told once. Events
\* of the client may follow the exit, any number of them: its reader goes on
\* with the frames that came before the connection ended.
MayFollow(m, x, a) ==
  \/ m.kind = "init" /\ m.n = 0 /\ stage[a] # "out" /\ news[x][a] = Unheard
  \/ /\ m.kind \in {"pos", "color", "text", "private"}
     /\ stage[a] \in {"in", "gone"}
     /\ m.n \in 1..sent[a]
     /\ news[x][a].kind # "exit" => m.n > news[x][a].n
  \/ m.kind = "exit" /\ m.n = 0 /\ stage[a] = "gone" /\ ~news[x][a].left

Tell(x, a) ==
  /\ \E m \in [kind : {"init", "pos", "color", "text", "private", "exit"},
               n : 0..sent[a]] :
       /\ MayFollow(m, x, a)
       /\ news' = [news EXCEPT ![x][a] =
                     Heard(m.kind, m.n, @.left \/ m.kind = "exit")]
  /\ UNCHANGED <<stage, sent>>

Next == \E a \in Clients : Move(a) \/ Act(a) \/ \E x \in Clients : Tell(x, a)

Spec == Init /\ [][Next]_vars
=============================================================================
