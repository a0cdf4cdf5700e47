-------------------------- MODULE MCThreadSafeQueue --------------------------
(***************************************************************************)
(* Instances of ThreadSafeQueue for TLC.                                   *)
(***************************************************************************)
EXTENDS ThreadSafeQueue

CONSTANTS t1, t2

\* What getSize may compute from the pointers of a half pushed item.
HalfSizes == {-1, 0, 16}
=============================================================================
