----------------------------- MODULE MCManager -----------------------------
(***************************************************************************)
(* Instances of Manager for TLC.                                           *)
(***************************************************************************)
EXTENDS ManagerInv, TLC

\* The C++ client draws a random uuid for each session: distinct uuids.
DistinctUUID == [c \in Clients |-> c]

\* Clients differ only by the sets of the configuration they belong to.
ClientSymmetry == Permutations(Clients)
=============================================================================
