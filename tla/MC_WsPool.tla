----------------------------- MODULE MC_WsPool -----------------------------
(***************************************************************************)
(* Instances of WsPool for TLC.                                            *)
(***************************************************************************)
EXTENDS WsPool

CONSTANTS c1, c2, c3, c4
=============================================================================
