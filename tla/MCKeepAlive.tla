----------------------------- MODULE MCKeepAlive -----------------------------
(***************************************************************************)
(* Instances of KeepAlive for TLC. The unit of time is a quarter of a      *)
(* second.                                                                 *)
(***************************************************************************)
EXTENDS KeepAlive
=============================================================================
