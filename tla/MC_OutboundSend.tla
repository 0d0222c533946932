-------------------------- MODULE MC_OutboundSend --------------------------
(***************************************************************************)
(* Instances of OutboundSend for TLC.                                      *)
(***************************************************************************)
EXTENDS OutboundSend

CONSTANTS s1, s2
=============================================================================
