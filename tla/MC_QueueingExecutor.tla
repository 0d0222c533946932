------------------------ MODULE MC_QueueingExecutor ------------------------
(***************************************************************************)
(* Instances of QueueingExecutor for TLC.                                  *)
(***************************************************************************)
EXTENDS QueueingExecutor

CONSTANTS c1, c2, c3, c4, c5, t1, t2, t3, t4, t5

\* Every call is for a task of its own (the SDK makes a fresh task id for a
\* message that names none).
DistinctTaskOf == (c1 :> t1) @@ (c2 :> t2) @@ (c3 :> t3) @@ (c4 :> t4)
                  @@ (c5 :> t5)

\* Three messages to one task, which A2A allows while it is not terminal.
SharedTaskOf == (c1 :> t1) @@ (c2 :> t1) @@ (c3 :> t1) @@ (c4 :> t2)
                @@ (c5 :> t2)
=============================================================================
