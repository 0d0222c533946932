---------------------------- MODULE PushDelivery ----------------------------
(***************************************************************************)
(* Webhook notifications for the outcome of one task:                      *)
(* PushNotificationStore (src/src/push-notifications.ts) as src/index.ts   *)
(* wires it to clients and to the telemetry of the executor.  The store    *)
(* treats tasks independently.                                             *)
(*                                                                         *)
(* A delivery starts when a call for the task ends, loads the task, and    *)
(* then tries: validate the URL, post, wait, try again.  Between any two   *)
(* of these steps clients may register and unregister, and another call    *)
(* for the task may end.  What follows an answer within one turn (the      *)
(* deletion in send, the rest of the loop body in sendWithRetry) is one    *)
(* step.                                                                   *)
(***************************************************************************)
EXTENDS Integers

CONSTANTS
    Delivery,     \* ends of calls for the task
    Reg, NoReg,   \* configurations clients register
    Unwanted,     \* those whose events do not include this outcome
    MaxRetries    \* decayConfig.maxRetries

ASSUME PushAssumption ==
    NoReg \notin Reg /\ Unwanted \subseteq Reg /\ MaxRetries \in Nat

VARIABLES
    reg,       \* registrations.get(taskId)
    used,      \* the configurations registered so far: each at most once
    faded,     \* those whose importance has decayed below the threshold
    stage,     \* per delivery, what it waits for
    config,    \* per delivery, the registration sendWithRetry started with
    sending,   \* per delivery, the registration this attempt sends to
    attempt,   \* per delivery, the loop variable
    result     \* per delivery, how it ended

vars == <<reg, used, faded, stage, config, sending, attempt, result>>

Results == {"none", "no task", "no registration", "delivered", "blocked",
            "decayed", "exhausted"}

Init ==
    /\ reg = NoReg /\ used = {} /\ faded = {}
    /\ stage = [d \in Delivery |-> "idle"]
    /\ config = [d \in Delivery |-> NoReg]
    /\ sending = [d \in Delivery |-> NoReg]
    /\ attempt = [d \in Delivery |-> 0]
    /\ result = [d \in Delivery |-> "none"]

At(d, s) == stage' = [stage EXCEPT ![d] = s]

\* The promise of the delivery settles.
Ends(d, how) ==
    /\ At(d, "done")
    /\ result' = [result EXCEPT ![d] = how]
    /\ UNCHANGED <<config, sending, attempt>>

-----------------------------------------------------------------------------
(* Clients.                                                                *)

Register(r) ==
    /\ r \notin used
    /\ reg' = r /\ used' = used \cup {r}
    /\ UNCHANGED <<faded, stage, config, sending, attempt, result>>

Unregister ==
    /\ reg # NoReg
    /\ reg' = NoReg
    /\ UNCHANGED <<used, faded, stage, config, sending, attempt, result>>

-----------------------------------------------------------------------------
(* sendWithRetry and send.                                                 *)

\* Mutant: what send deleted is not registered again.
Restored_Not(d, now) == now

\* if (!has(taskId)) set(taskId, config)
Restored(d, now) == IF now = NoReg THEN config'[d] ELSE now

\* The rest of the loop body after an attempt that failed, with now being what
\* is registered when send returns.
AfterFailure(d, now) ==
    IF config'[d] \in faded
    THEN /\ reg' = NoReg
         /\ At(d, "done") /\ result' = [result EXCEPT ![d] = "decayed"]
    ELSE /\ reg' = Restored(d, now)
         /\ IF attempt'[d] < MaxRetries
            THEN At(d, "waiting") /\ UNCHANGED result
            ELSE At(d, "done") /\ result' = [result EXCEPT ![d] = "exhausted"]

\* send() up to its first await.  It fails at once when nothing is registered
\* or the outcome is filtered out.
Send(d) ==
    IF reg \in Unwanted \cup {NoReg}
    THEN AfterFailure(d, reg) /\ UNCHANGED sending
    ELSE /\ sending' = [sending EXCEPT ![d] = reg]
         /\ At(d, "checking")
         /\ UNCHANGED <<reg, result>>

\* The audit callback: a call for the task has ended.
TaskEnds(d) ==
    /\ stage[d] = "idle"
    /\ At(d, IF reg = NoReg THEN "done" ELSE "loading")
    /\ result' = [result EXCEPT ![d] = IF reg = NoReg THEN "no registration" ELSE "none"]
    /\ UNCHANGED <<reg, used, faded, config, sending, attempt>>

\* The SDK has not saved the task yet.
LoadFails(d) ==
    /\ stage[d] = "loading"
    /\ Ends(d, "no task")
    /\ UNCHANGED <<reg, used, faded>>

Loaded(d) ==
    /\ stage[d] = "loading"
    /\ \/ reg = NoReg /\ Ends(d, "no registration") /\ UNCHANGED reg
       \/ reg \in faded /\ Ends(d, "decayed") /\ reg' = NoReg
       \/ /\ reg \notin faded \cup {NoReg}
          /\ config' = [config EXCEPT ![d] = reg]
          /\ UNCHANGED attempt
          /\ Send(d)
    /\ UNCHANGED <<used, faded>>

Checked(d, safe) ==
    /\ stage[d] = "checking"
    /\ IF safe THEN At(d, "posting") /\ UNCHANGED <<config, sending, attempt, result>>
               ELSE Ends(d, "blocked")
    /\ UNCHANGED <<reg, used, faded>>

Delivered(d) ==
    /\ stage[d] = "posting"
    /\ reg' = NoReg
    /\ Ends(d, "delivered")
    /\ UNCHANGED <<used, faded>>

\* Any answer makes send delete the registration, an error of fetch does not.
PostFails(d, answered) ==
    /\ stage[d] = "posting"
    /\ UNCHANGED <<used, faded, config, sending, attempt>>
    /\ AfterFailure(d, IF answered THEN NoReg ELSE reg)

\* Mutant: the attempt is not counted.
Counted_Not(d) == UNCHANGED attempt

Counted(d) == attempt' = [attempt EXCEPT ![d] = @ + 1]

WaitOver(d) ==
    /\ stage[d] = "waiting"
    /\ Counted(d)
    /\ UNCHANGED <<used, faded, config>>
    /\ Send(d)

-----------------------------------------------------------------------------

\* Time passes: the importance of r drops below minImportance.
Fades(r) ==
    /\ r \in used \ faded
    /\ faded' = faded \cup {r}
    /\ UNCHANGED <<reg, used, stage, config, sending, attempt, result>>

Progress(d) ==
    \/ LoadFails(d) \/ Loaded(d) \/ Delivered(d) \/ WaitOver(d)
    \/ \E b \in BOOLEAN : Checked(d, b) \/ PostFails(d, b)

Next ==
    \/ \E d \in Delivery : TaskEnds(d) \/ Progress(d)
    \/ \E r \in Reg : Register(r) \/ Fades(r)
    \/ Unregister

Spec == Init /\ [][Next]_vars

\* Files are read, URLs are validated, a post answers or is aborted after
\* PUSH_TIMEOUT_MS, and the timer of a retry fires.
Fairness == \A d \in Delivery : WF_vars(Progress(d))
FairSpec == Spec /\ Fairness

-----------------------------------------------------------------------------
(* Properties.                                                             *)

TypeOK ==
    /\ reg \in Reg \cup {NoReg} /\ used \subseteq Reg /\ faded \subseteq used
    /\ stage \in [Delivery -> {"idle", "loading", "checking", "posting", "waiting", "done"}]
    /\ config \in [Delivery -> Reg \cup {NoReg}]
    /\ sending \in [Delivery -> Reg \cup {NoReg}]
    /\ attempt \in [Delivery -> 0..MaxRetries]
    /\ result \in [Delivery -> Results]

\* Failures cost no registration: whatever answers, errors and retries there are,
\* it goes without another in its place only when a client unregisters it (no
\* delivery moves), or when a delivery ends with success or has decayed.  (That
\* may be a delivery of an earlier configuration: send() deletes what it finds.)
KeptUntilDelivered ==
    [][reg # NoReg /\ reg' = NoReg =>
          \/ stage' = stage
          \/ \E d \in Delivery : result[d] = "none" /\ result'[d] \in {"delivered", "decayed"}]_vars

\* Every delivery ends: its retries are bounded, however often the registration
\* is taken away, put back or replaced meanwhile.
EveryDeliveryEnds == \A d \in Delivery : stage[d] = "loading" ~> stage[d] = "done"
=============================================================================
