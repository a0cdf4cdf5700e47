------------------------- MODULE MCWebsocketSession -------------------------
(***************************************************************************)
(* Instances of WebsocketSession for TLC.                                  *)
(***************************************************************************)
EXTENDS WebsocketSessionInv
=============================================================================
