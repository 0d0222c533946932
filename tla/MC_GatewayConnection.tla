------------------------ MODULE MC_GatewayConnection ------------------------
(***************************************************************************)
(* Instance of GatewayConnection for TLC.                                  *)
(***************************************************************************)
EXTENDS GatewayConnection

CONSTANTS r1, r2, r3
=============================================================================
