----------------------------- MODULE MCGameLoop -----------------------------
(***************************************************************************)
(* Instances of GameLoop for TLC.                                          *)
(***************************************************************************)
EXTENDS GameLoopInv

CONSTANTS p1, p2

\* One player moves, changes color and leaves; a message of the other one that
\* cannot be read comes in between. (Every safety property of the run is proved
\* for any number of players that do all of this.)
OneReads == [a \in Players |-> IF a = p1 THEN {"pos", "color", "exit"}
                                         ELSE {"pos", "bad"}]

\* Two positions of one player, and its exit.
OneLeaves == [a \in Players |-> IF a = p1 THEN {"pos", "exit"} ELSE {"text"}]

OneColors == [a \in Players |-> IF a = p1 THEN {1, 2} ELSE {}]

OneNews == [a \in Players |-> IF a = p1 THEN 3 ELSE 1]
=============================================================================
