--------------------------- MODULE MCRetentionMap ---------------------------
(***************************************************************************)
(* Instances of RetentionMap for TLC.                                      *)
(***************************************************************************)
EXTENDS RetentionMapInv, TLC

\* Logins, and /ws requests, are alike.
Alike == Permutations(Logins) \cup Permutations(Requests)
=============================================================================
