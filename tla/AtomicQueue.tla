----------------------------- MODULE AtomicQueue -----------------------------
(***************************************************************************)
(* What a ThreadSafeQueue promises to its one consumer: items come out in  *)
(* the order in which they went in, each once, and the item that front     *)
(* returned stays the one that pop removes.                                *)
(***************************************************************************)
EXTENDS Sequences

CONSTANTS Items, None

VARIABLES
  items, \* what the queue holds
  held   \* the item whose reference the consumer holds, or None

Init == items = <<>> /\ held = None

Add(i) == items' = Append(items, i) /\ UNCHANGED held

Look ==
  /\ held = None /\ items # <<>>
  /\ held' = Head(items)
  /\ UNCHANGED items

\* The held item, or one that was not looked at, is removed.
Remove ==
  /\ items # <<>>
  /\ held # None => held = Head(items)
  /\ items' = Tail(items)
  /\ held' = None

Next == (\E i \in Items : Add(i)) \/ Look \/ Remove

Spec == Init /\ [][Next]_<<items, held>>
=============================================================================
