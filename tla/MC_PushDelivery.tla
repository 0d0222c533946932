-------------------------- MODULE MC_PushDelivery --------------------------
(***************************************************************************)
(* Instances of PushDelivery for TLC.                                      *)
(***************************************************************************)
EXTENDS PushDelivery

CONSTANTS d1, d2, r1, r2, r3
=============================================================================
