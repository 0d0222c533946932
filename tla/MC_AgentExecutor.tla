-------------------------- MODULE MC_AgentExecutor --------------------------
(***************************************************************************)
(* Instance of AgentExecutor for TLC: four calls, each for a task of its   *)
(* own, three of them in one context.                                      *)
(***************************************************************************)
EXTENDS AgentExecutor

CONSTANTS c1, c2, c3, c4, t1, t2, t3, t4, x1, x2

DistinctTaskOf == (c1 :> t1) @@ (c2 :> t2) @@ (c3 :> t3) @@ (c4 :> t4)
TwoContexts    == (c1 :> x1) @@ (c2 :> x1) @@ (c3 :> x1) @@ (c4 :> x2)
=============================================================================
