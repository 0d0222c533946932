------------------------- MODULE MC_TaskPersistence -------------------------
(***************************************************************************)
(* Instances of TaskPersistence for TLC.                                   *)
(***************************************************************************)
EXTENDS TaskPersistence

CONSTANTS t1, t2
=============================================================================
