---------------------------- MODULE ReliableMail ----------------------------
(***************************************************************************)
(* What the outbox and the inbox promise together: a message is handed to  *)
(* the agent at most once, it is confirmed to its sender only after that,  *)
(* and a verdict is final but for the removal of the entry.  A message     *)
(* whose sender gave up, or withdrew it, may still be handed over.         *)
(***************************************************************************)
EXTENDS Integers

CONSTANT Message

VARIABLES
    verdict,   \* what the sender knows: none, open, sent, dead or removed
    handed     \* how often the message was handed over

vars == <<verdict, handed>>

Init ==
    /\ verdict = [m \in Message |-> "none"]
    /\ handed = [m \in Message |-> 0]

Becomes(m, from, to) ==
    /\ verdict[m] \in from
    /\ verdict' = [verdict EXCEPT ![m] = to]
    /\ UNCHANGED handed

Submit(m)  == Becomes(m, {"none"}, "open")
Confirm(m) == handed[m] = 1 /\ Becomes(m, {"open"}, "sent")
GiveUp(m)  == Becomes(m, {"open"}, "dead")
Remove(m)  == Becomes(m, {"open", "sent", "dead"}, "removed")

CleanUp ==
    /\ \E old \in SUBSET {m \in Message : verdict[m] = "sent"} :
         verdict' = [m \in Message |-> IF m \in old THEN "removed" ELSE verdict[m]]
    /\ UNCHANGED handed

HandOver(m) ==
    /\ verdict[m] # "none" /\ handed[m] = 0
    /\ handed' = [handed EXCEPT ![m] = 1]
    /\ UNCHANGED verdict

Next ==
    \/ \E m \in Message : Submit(m) \/ Confirm(m) \/ GiveUp(m) \/ Remove(m) \/ HandOver(m)
    \/ CleanUp

Spec == Init /\ [][Next]_vars
=============================================================================
