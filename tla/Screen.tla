-------------------------------- MODULE Screen --------------------------------
(***************************************************************************)
(* What the game promises to show of the other players: only what was      *)
(* heard of them. A car appears at a position and in a color that came     *)
(* together, never at an older position than before; it is painted in a    *)
(* color that was told, and goes only when its player's exit was told.     *)
(***************************************************************************)
EXTENDS Naturals

CONSTANT Players

VARIABLES
  heard, \* the messages that were received
  seen   \* the cars on the screen

News == [kind : {"pos", "color", "exit", "text", "echo", "time", "junk",
                  "bad"},
         who : Players, n : Nat, color : Nat]

Init ==
  /\ heard = {}
  /\ seen = [a \in Players |-> [here |-> FALSE, n |-> 0, color |-> 0]]

\* A player's positions are numbered in the order in which they arrive.
Hear ==
  /\ \E m \in heard' \cap News :
       /\ heard' = heard \cup {m}
       /\ m.kind = "pos" => \A o \in heard : o.who = m.who => o.n < m.n
  /\ UNCHANGED seen

Show ==
  /\ \E m \in heard :
       /\ m.kind = "pos" /\ seen[m.who].n < m.n
       /\ seen' = [seen EXCEPT ![m.who] =
                     [here |-> TRUE, n |-> m.n, color |-> m.color]]
  /\ UNCHANGED heard

Paint ==
  /\ \E m \in heard :
       /\ m.kind = "color" /\ seen[m.who].here
       /\ seen' = [seen EXCEPT ![m.who].color = m.color]
  /\ UNCHANGED heard

Remove ==
  /\ \E m \in heard :
       /\ m.kind = "exit" /\ seen[m.who].here
       /\ seen' = [seen EXCEPT ![m.who].here = FALSE]
  /\ UNCHANGED heard

Next == Hear \/ Show \/ Paint \/ Remove

Spec == Init /\ [][Next]_<<heard, seen>>
=============================================================================
