------------------------- MODULE PushDelivery_proofs -------------------------
(***************************************************************************)
(* Proofs about PushDelivery, for every set of deliveries and of           *)
(* registrations, and every number of retries.                             *)
(*                                                                         *)
(* That a webhook is kept rests on what a delivery under way remembers:    *)
(* while one checks, posts or waits, it has a configuration to put back,   *)
(* and its result is still open.                                           *)
(***************************************************************************)
EXTENDS PushDelivery, TLAPS

UnderWay == {"checking", "posting", "waiting"}

\* A delivery has no result before it is done, a configuration while it is under
\* way, and a retry left while it waits.
Remembers == \A d \in Delivery :
    /\ stage[d] # "done" => result[d] = "none"
    /\ stage[d] \in UnderWay => config[d] \in Reg
    /\ stage[d] = "waiting" => attempt[d] < MaxRetries

IInv == TypeOK /\ Remembers

-----------------------------------------------------------------------------
(* Helpers.                                                                *)

\* A delivery that ends changes its stage and its result, and nothing else.
LEMMA EndsFacts ==
    ASSUME IInv, NEW d \in Delivery, NEW how \in Results, Ends(d, how)
    PROVE  /\ stage' \in [Delivery -> {"idle", "loading", "checking", "posting", "waiting", "done"}]
           /\ config' \in [Delivery -> Reg \cup {NoReg}]
           /\ sending' \in [Delivery -> Reg \cup {NoReg}]
           /\ attempt' \in [Delivery -> 0..MaxRetries]
           /\ result' \in [Delivery -> Results]
           /\ Remembers'
  BY DEF IInv, TypeOK, Remembers, Ends, At, UnderWay

\* What follows a failed attempt keeps a registration, unless it has decayed.
LEMMA AfterFailureFacts ==
    ASSUME IInv, NEW d \in Delivery, NEW now \in Reg \cup {NoReg},
           config'[d] \in Reg, stage[d] # "done", AfterFailure(d, now)
    PROVE  /\ reg' \in Reg \cup {NoReg}
           /\ stage' \in [Delivery -> {"idle", "loading", "checking", "posting", "waiting", "done"}]
           /\ stage'[d] \in {"waiting", "done"}
           /\ result' \in [Delivery -> Results]
           /\ stage'[d] = "waiting" => result' = result /\ attempt'[d] < MaxRetries
           /\ \A e \in Delivery \ {d} : stage'[e] = stage[e] /\ result'[e] = result[e]
           /\ reg' = NoReg => result[d] = "none" /\ result'[d] = "decayed"
<1>1. result[d] = "none"
  BY DEF IInv, Remembers
<1>2. CASE config'[d] \in faded
  BY <1>1, <1>2 DEF AfterFailure, IInv, TypeOK, At, Results
<1>3. CASE config'[d] \notin faded
  <2>1. reg' \in Reg
    BY <1>3 DEF AfterFailure, Restored, IInv, TypeOK
  <2>2. reg' # NoReg
    BY <2>1, PushAssumption
  <2> QED  BY <1>3, <2>1, <2>2 DEF AfterFailure, IInv, TypeOK, At, Results
<1> QED  BY <1>2, <1>3

\* An attempt that begins either fails at once or goes on to check the URL.
LEMMA SendFacts ==
    ASSUME IInv, NEW d \in Delivery, config' \in [Delivery -> Reg \cup {NoReg}],
           config'[d] \in Reg, \A e \in Delivery \ {d} : config'[e] = config[e],
           \A e \in Delivery \ {d} : attempt'[e] = attempt[e],
           stage[d] # "done", Send(d)
    PROVE  /\ reg' \in Reg \cup {NoReg}
           /\ stage' \in [Delivery -> {"idle", "loading", "checking", "posting", "waiting", "done"}]
           /\ sending' \in [Delivery -> Reg \cup {NoReg}]
           /\ result' \in [Delivery -> Results]
           /\ Remembers'
           /\ reg # NoReg /\ reg' = NoReg => result[d] = "none" /\ result'[d] = "decayed"
<1>1. CASE reg \in Unwanted \cup {NoReg}
  <2>1. AfterFailure(d, reg) /\ sending' = sending
    BY <1>1 DEF Send
  <2>2. reg \in Reg \cup {NoReg}
    BY DEF IInv, TypeOK
  <2> QED  BY <2>1, <2>2, AfterFailureFacts DEF IInv, TypeOK, Remembers, UnderWay
<1>2. CASE reg \notin Unwanted \cup {NoReg}
  BY <1>2 DEF Send, At, IInv, TypeOK, Remembers, UnderWay
<1> QED  BY <1>1, <1>2

-----------------------------------------------------------------------------
(* The invariant is inductive.                                             *)

\* It holds at the start.
LEMMA InitIInv == Init => IInv
  BY PushAssumption DEF Init, IInv, TypeOK, Remembers, UnderWay, Results

\* What a step of a delivery keeps of the invariant, and what it does to the
\* registration.
Kept == reg # NoReg /\ reg' = NoReg =>
    \E d \in Delivery : result[d] = "none" /\ result'[d] \in {"delivered", "decayed"}

\* One step of a delivery.
LEMMA ProgressStep ==
    ASSUME IInv, NEW d \in Delivery, Progress(d)
    PROVE  IInv' /\ Kept
<1>1. CASE LoadFails(d)
  BY <1>1, EndsFacts DEF LoadFails, IInv, TypeOK, Results, Kept
<1>2. CASE Loaded(d)
  <2>1. CASE reg = NoReg /\ Ends(d, "no registration") /\ UNCHANGED reg
    BY <1>2, <2>1, EndsFacts DEF Loaded, IInv, TypeOK, Results, Kept
  <2>2. CASE reg \in faded /\ Ends(d, "decayed") /\ reg' = NoReg
    <3>1. result[d] = "none" /\ result'[d] = "decayed"
      BY <1>2, <2>2 DEF Loaded, Ends, IInv, TypeOK, Remembers
    <3> QED  BY <1>2, <2>2, <3>1, EndsFacts DEF Loaded, IInv, TypeOK, Results, Kept
  <2>3. CASE /\ reg \notin faded \cup {NoReg}
             /\ config' = [config EXCEPT ![d] = reg]
             /\ UNCHANGED attempt
             /\ Send(d)
    <3>1. /\ config' \in [Delivery -> Reg \cup {NoReg}] /\ config'[d] \in Reg
          /\ \A e \in Delivery \ {d} : config'[e] = config[e]
      BY <2>3 DEF IInv, TypeOK
    <3>2. stage[d] # "done" /\ UNCHANGED <<used, faded>>
      BY <1>2 DEF Loaded
    <3> QED  BY <2>3, <3>1, <3>2, SendFacts DEF IInv, TypeOK, Kept
  <2> QED  BY <1>2, <2>1, <2>2, <2>3 DEF Loaded
<1>3. CASE Delivered(d)
  <2>1. result[d] = "none" /\ result'[d] = "delivered"
    BY <1>3 DEF Delivered, Ends, IInv, TypeOK, Remembers
  <2> QED  BY <1>3, <2>1, EndsFacts DEF Delivered, IInv, TypeOK, Results, Kept
<1>4. CASE WaitOver(d)
  <2>1. /\ config' = config /\ config[d] \in Reg /\ UNCHANGED <<used, faded>>
        /\ stage[d] # "done" /\ Send(d)
    BY <1>4 DEF WaitOver, IInv, Remembers, UnderWay
  <2>2. attempt[d] \in 0..MaxRetries /\ attempt[d] < MaxRetries
    BY <1>4 DEF WaitOver, IInv, TypeOK, Remembers
  <2>3. /\ attempt' \in [Delivery -> 0..MaxRetries]
        /\ \A e \in Delivery \ {d} : attempt'[e] = attempt[e]
    BY <1>4, <2>2, PushAssumption DEF WaitOver, Counted, IInv, TypeOK
  <2> QED  BY <2>1, <2>3, SendFacts DEF IInv, TypeOK, Kept
<1>5. ASSUME NEW b \in BOOLEAN, Checked(d, b) PROVE IInv' /\ Kept
  <2>1. CASE b
    BY <1>5, <2>1 DEF Checked, At, IInv, TypeOK, Remembers, UnderWay, Kept
  <2>2. CASE ~b
    BY <1>5, <2>2, EndsFacts DEF Checked, IInv, TypeOK, Results, Kept
  <2> QED  BY <2>1, <2>2
<1>6. ASSUME NEW b \in BOOLEAN, PostFails(d, b) PROVE IInv' /\ Kept
  <2>1. PICK now \in {NoReg, reg} : AfterFailure(d, now)
    BY <1>6 DEF PostFails
  <2>2. /\ UNCHANGED <<used, faded, config, sending, attempt>>
        /\ config[d] \in Reg /\ stage[d] # "done" /\ now \in Reg \cup {NoReg}
    BY <1>6 DEF PostFails, IInv, TypeOK, Remembers, UnderWay
  <2> QED  BY <2>1, <2>2, AfterFailureFacts DEF IInv, TypeOK, Remembers, UnderWay, Kept
<1> QED  BY <1>1, <1>2, <1>3, <1>4, <1>5, <1>6 DEF Progress

\* Every step keeps the invariant, and a registration unless a client takes it
\* away, with no delivery moving, or a delivery has ended.
LEMMA NextStep ==
    ASSUME IInv, [Next]_vars
    PROVE  IInv' /\ (UNCHANGED stage \/ Kept)
<1>1. ASSUME NEW d \in Delivery, TaskEnds(d) PROVE IInv' /\ Kept
  BY <1>1 DEF TaskEnds, At, IInv, TypeOK, Remembers, UnderWay, Results, Kept
<1>2. ASSUME NEW d \in Delivery, Progress(d) PROVE IInv' /\ Kept
  BY <1>2, ProgressStep
<1>3. ASSUME NEW r \in Reg, Register(r) PROVE IInv' /\ UNCHANGED stage
  BY <1>3 DEF Register, IInv, TypeOK, Remembers
<1>4. ASSUME NEW r \in Reg, Fades(r) PROVE IInv' /\ UNCHANGED stage
  BY <1>4 DEF Fades, IInv, TypeOK, Remembers
<1>5. CASE Unregister
  BY <1>5 DEF Unregister, IInv, TypeOK, Remembers
<1>6. CASE UNCHANGED vars
  BY <1>6 DEF vars, IInv, TypeOK, Remembers
<1> QED  BY <1>1, <1>2, <1>3, <1>4, <1>5, <1>6 DEF Next

-----------------------------------------------------------------------------
(* Theorems.                                                               *)

\* The variables keep their types, and a delivery under way has what it needs
\* to put the registration back.
THEOREM TypeCorrect == Spec => [](TypeOK /\ Remembers)
<1>1. Init => IInv
  BY InitIInv
<1>2. IInv /\ [Next]_vars => IInv'
  BY NextStep
<1> QED  BY <1>1, <1>2, PTL DEF Spec, IInv

\* A registration goes only when a delivery succeeds or has decayed, or a client takes
\* it away: push-notifications.ts puts back what send() has deleted.
THEOREM WebhooksKept == Spec => KeptUntilDelivered
<1>1. Init => IInv
  BY InitIInv
<1>2. IInv /\ [Next]_vars => IInv'
  BY NextStep
<1>3. IInv /\ [Next]_vars =>
        [reg # NoReg /\ reg' = NoReg =>
           \/ stage' = stage
           \/ \E d \in Delivery : result[d] = "none" /\ result'[d] \in {"delivered", "decayed"}]_vars
  BY NextStep DEF Kept
<1> QED  BY <1>1, <1>2, <1>3, PTL DEF Spec, KeptUntilDelivered
=============================================================================
