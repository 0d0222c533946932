--------------------------- MODULE TaskLifecycle ---------------------------
(***************************************************************************)
(* What a client of the gateway may rely on: the statuses published for a  *)
(* task form a path of this state machine.                                 *)
(***************************************************************************)
CONSTANT Task
VARIABLE state     \* the status last published for each task

Step(t, from, to) == state[t] \in from /\ state' = [state EXCEPT ![t] = to]

Init == state = [t \in Task |-> "none"]

Submit(t)   == Step(t, {"none"}, "submitted")
TurnAway(t) == Step(t, {"none"}, "rejected")
Work(t)     == Step(t, {"none", "submitted", "working"}, "working")
Complete(t) == Step(t, {"working"}, "completed")
Fail(t)     == Step(t, {"none", "submitted", "working"}, "failed")
Cancel(t)   == Step(t, {"submitted", "working"}, "canceled")

Next == \E t \in Task :
    Submit(t) \/ TurnAway(t) \/ Work(t) \/ Complete(t) \/ Fail(t) \/ Cancel(t)

Spec == Init /\ [][Next]_state
=============================================================================
