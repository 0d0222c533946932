----------------------- MODULE RelayedDelivery_proofs -----------------------
(***************************************************************************)
(* Proofs about Outbox, for any number of entries, flushes and retries,    *)
(* and about RelayedDelivery, for any receiver besides: that the relay     *)
(* implements ReliableMail.                                                *)
(*                                                                         *)
(* OneFlush is not inductive: that no second flush begins depends on the   *)
(* flag, which must be up while a flush is under way (FlagUp).  That a     *)
(* settled entry is left alone depends on what the snapshots hold          *)
(* (Marked).                                                               *)
(*                                                                         *)
(* That a message is handed over once depends on what the receiver keeps:  *)
(* the key of a message it handed over, until the message is too old to be *)
(* accepted (Remembered); that it is confirmed only then depends on whose  *)
(* answers the client may still get (Answered).                            *)
(***************************************************************************)
EXTENDS RelayedDelivery, FiniteSetTheorems, TLAPS

Status == {"none", "pending", "sending", "sent", "dead", "removed"}

\* The flag is up while a flush is under way.
FlagUp == \A f \in Flush : sending[f] # NoMessage => isFlushing

\* An entry whose sendFn is awaited is marked so, or was removed meanwhile; those
\* that wait in the snapshot of a flush are pending or removed.
MarkedBy(f) ==
    /\ sending[f] # NoMessage => status[sending[f]] \in {"sending", "removed"}
    /\ \A m \in batch[f] : m # sending[f] /\ status[m] \in {"pending", "removed"}
    /\ sending[f] = NoMessage => batch[f] = {}
Marked == \A f \in Flush : MarkedBy(f)

IInv == TypeOK /\ OneFlush /\ FlagUp /\ Marked

LEMMA InitInv == Init => IInv
<1> SUFFICES ASSUME Init PROVE IInv
  OBVIOUS
<1>1. TypeOK
  BY DEF Init, TypeOK
<1>2. OneFlush /\ FlagUp
  BY DEF Init, OneFlush, FlagUp
<1>3. Marked
  BY DEF Init, Marked, MarkedBy
<1> QED
  BY <1>1, <1>2, <1>3 DEF IInv

-----------------------------------------------------------------------------
(* The steps of a flush.                                                   *)

\* What going on with the entries S of a snapshot leads to.
LEMMA GoesOnLeads ==
    ASSUME TypeOK, NEW f \in Flush, NEW S \in SUBSET Message,
           NEW now \in [Message -> Status], GoesOn(f, S, now)
    PROVE  /\ status' \in [Message -> Status]
           /\ batch' \in [Flush -> SUBSET Message]
           /\ sending' \in [Flush -> Message \cup {NoMessage}]
           /\ \A g \in Flush \ {f} : sending'[g] = sending[g] /\ batch'[g] = batch[g]
           /\ sending'[f] = NoMessage => batch'[f] = {}
           /\ sending'[f] # NoMessage => sending'[f] \in S /\ batch'[f] = S \ {sending'[f]}
           /\ \A m \in Message :
                status'[m] = IF m = sending'[f] /\ now[m] # "removed" THEN "sending" ELSE now[m]
<1>1. CASE S = {} /\ status' = now /\ batch' = [batch EXCEPT ![f] = {}]
           /\ sending' = [sending EXCEPT ![f] = NoMessage]
  BY <1>1, OutboxAssumption DEF TypeOK
<1>2. ASSUME NEW m \in S,
             status' = IF now[m] = "removed" THEN now ELSE [now EXCEPT ![m] = "sending"],
             batch' = [batch EXCEPT ![f] = S \ {m}],
             sending' = [sending EXCEPT ![f] = m]
      PROVE  /\ status' \in [Message -> Status]
             /\ batch' \in [Flush -> SUBSET Message]
             /\ sending' \in [Flush -> Message \cup {NoMessage}]
             /\ \A g \in Flush \ {f} : sending'[g] = sending[g] /\ batch'[g] = batch[g]
             /\ sending'[f] = m /\ m # NoMessage /\ batch'[f] = S \ {m}
             /\ \A n \in Message :
                  status'[n] = IF n = m /\ now[n] # "removed" THEN "sending" ELSE now[n]
  BY <1>2, OutboxAssumption DEF TypeOK, Status
<1> QED
  BY <1>1, <1>2 DEF GoesOn

\* The flag after it.
LEMMA GoesOnFlag ==
    ASSUME TypeOK, NEW f \in Flush, NEW S \in SUBSET Message, NEW now, GoesOn(f, S, now)
    PROVE  isFlushing' \in BOOLEAN /\ (sending'[f] # NoMessage => isFlushing')
BY DEF GoesOn, ResetFlag, TypeOK

\* The statuses once sendFn has ended for the entry m.
LEMMA SettledType ==
    ASSUME TypeOK, NEW m \in Message, NEW ok \in BOOLEAN
    PROVE  [status EXCEPT ![m] = Outcome(m, ok)] \in [Message -> Status]
BY DEF Outcome, TypeOK, Status

-----------------------------------------------------------------------------
(* Types.                                                                  *)

LEMMA TypeStep == TypeOK /\ [Next]_vars => TypeOK'
<1> SUFFICES ASSUME TypeOK, [Next]_vars PROVE TypeOK'
  OBVIOUS
<1>1. ASSUME NEW m \in Message, enqueue(m) PROVE TypeOK'
  <2>1. Cardinality({n \in Message : status[n] # "none"}) \in Nat
    BY FS_Subset, FS_CardinalityType, OutboxAssumption
  <2> QED
    BY <1>1, <2>1 DEF enqueue, relayVars, TypeOK
<1>2. ASSUME NEW m \in Message, remove(m) PROVE TypeOK'
  BY <1>2 DEF remove, relayVars, TypeOK
<1>3. ASSUME NEW m \in Message, BackoffOver(m) PROVE TypeOK'
  BY <1>3 DEF BackoffOver, relayVars, TypeOK
<1>4. ASSUME NEW f \in Flush, Tick(f) PROVE TypeOK'
  <2>1. GoesOn(f, getPending, status) /\ getPending \in SUBSET Message
    BY <1>4 DEF Tick, getPending, TypeOK
  <2>2. status \in [Message -> Status]
    BY DEF TypeOK, Status
  <2>3. isFlushing' \in BOOLEAN
    BY <2>1, GoesOnFlag
  <2> HIDE DEF getPending
  <2>4. /\ status' \in [Message -> Status] /\ batch' \in [Flush -> SUBSET Message]
        /\ sending' \in [Flush -> Message \cup {NoMessage}]
    BY <2>1, <2>2, GoesOnLeads
  <2> QED
    BY <1>4, <2>3, <2>4 DEF Tick, TypeOK, Status
<1>5. ASSUME NEW f \in Flush, NEW ok \in BOOLEAN, SendEnds(f, ok) PROVE TypeOK'
  <2> DEFINE m == sending[f]
             now == IF Stored(m) THEN [status EXCEPT ![m] = Outcome(m, ok)] ELSE status
  <2>1. m \in Message /\ batch[f] \in SUBSET Message /\ GoesOn(f, batch[f], now)
    BY <1>5 DEF SendEnds, TypeOK
  <2>2. now \in [Message -> Status]
    BY <2>1, SettledType DEF TypeOK, Status
  <2>3. retries' \in [Message -> Nat] /\ due' \subseteq Message /\ UNCHANGED <<created, relay>>
    BY <1>5, <2>1 DEF SendEnds, TypeOK
  <2> HIDE DEF now
  <2>4. isFlushing' \in BOOLEAN
    BY <2>1, GoesOnFlag
  <2>5. /\ status' \in [Message -> Status] /\ batch' \in [Flush -> SUBSET Message]
        /\ sending' \in [Flush -> Message \cup {NoMessage}]
    BY <2>1, <2>2, GoesOnLeads
  <2> QED
    BY <2>3, <2>4, <2>5 DEF TypeOK, Status
<1>6. CASE cleanup
  BY <1>6 DEF cleanup, relayVars, TypeOK
<1>7. CASE startRelay \/ stopRelay
  BY <1>7 DEF startRelay, stopRelay, entryVars, TypeOK
<1>8. CASE UNCHANGED vars
  BY <1>8 DEF vars, entryVars, relayVars, TypeOK
<1> QED
  BY <1>1, <1>2, <1>3, <1>4, <1>5, <1>6, <1>7, <1>8 DEF Next

-----------------------------------------------------------------------------
(* One flush.                                                              *)

LEMMA FlushStep == TypeOK /\ OneFlush /\ FlagUp /\ [Next]_vars => OneFlush' /\ FlagUp'
<1> SUFFICES ASSUME TypeOK, OneFlush, FlagUp, [Next]_vars PROVE OneFlush' /\ FlagUp'
  OBVIOUS
<1>1. ASSUME NEW f \in Flush, Tick(f) PROVE OneFlush' /\ FlagUp'
  <2>1. \A g \in Flush : sending[g] = NoMessage
    BY <1>1 DEF Tick, FlagUp
  <2>2. GoesOn(f, getPending, status) /\ getPending \in SUBSET Message
    BY <1>1 DEF Tick, getPending, TypeOK
  <2>3. sending'[f] # NoMessage => isFlushing'
    BY <2>2, GoesOnFlag
  <2>4. \A g \in Flush \ {f} : sending'[g] = NoMessage
    BY <2>1, <2>2, GoesOnLeads DEF TypeOK, Status
  <2> QED
    BY <2>3, <2>4 DEF OneFlush, FlagUp
<1>2. ASSUME NEW f \in Flush, NEW ok \in BOOLEAN, SendEnds(f, ok) PROVE OneFlush' /\ FlagUp'
  <2> DEFINE m == sending[f]
             now == IF Stored(m) THEN [status EXCEPT ![m] = Outcome(m, ok)] ELSE status
  <2>1. m \in Message /\ batch[f] \in SUBSET Message /\ GoesOn(f, batch[f], now)
        /\ sending[f] # NoMessage
    BY <1>2 DEF SendEnds, TypeOK
  <2>2. now \in [Message -> Status]
    BY <2>1, SettledType DEF TypeOK, Status
  <2> HIDE DEF now
  <2>3. sending'[f] # NoMessage => isFlushing'
    BY <2>1, GoesOnFlag
  <2>4. \A g \in Flush \ {f} : sending'[g] = NoMessage
    BY <2>1, <2>2, GoesOnLeads DEF OneFlush
  <2> QED
    BY <2>3, <2>4 DEF OneFlush, FlagUp
<1>3. ASSUME UNCHANGED <<isFlushing, sending>> PROVE OneFlush' /\ FlagUp'
  BY <1>3 DEF OneFlush, FlagUp
<1> QED
  BY <1>1, <1>2, <1>3
     DEF Next, enqueue, remove, BackoffOver, cleanup, startRelay, stopRelay, vars, relayVars

-----------------------------------------------------------------------------
(* The marks.                                                              *)

\* Steps that leave the snapshots alone and touch no entry of theirs but to
\* remove it.
LEMMA MarkedStays ==
    ASSUME Marked, TypeOK, UNCHANGED <<batch, sending>>,
           \A m \in Message : status'[m] \in {status[m], "removed"} \/ status[m] = "none"
    PROVE  Marked'
<1> SUFFICES ASSUME NEW f \in Flush PROVE MarkedBy(f)'
  BY DEF Marked
<1>1. MarkedBy(f) /\ batch[f] \in SUBSET Message /\ sending[f] \in Message \cup {NoMessage}
  BY DEF Marked, TypeOK
<1> QED
  BY <1>1 DEF MarkedBy

LEMMA MarkedStep == IInv /\ [Next]_vars => Marked'
<1> SUFFICES ASSUME IInv, [Next]_vars PROVE Marked'
  OBVIOUS
<1> USE DEF IInv
<1>1. ASSUME NEW f \in Flush, Tick(f) PROVE Marked'
  <2>1. \A g \in Flush : sending[g] = NoMessage /\ batch[g] = {}
    BY <1>1 DEF Tick, FlagUp, Marked, MarkedBy
  <2>2. GoesOn(f, getPending, status) /\ getPending \in SUBSET Message
        /\ \A m \in getPending : status[m] = "pending"
    BY <1>1 DEF Tick, getPending, TypeOK
  <2>3. status \in [Message -> Status]
    BY DEF TypeOK, Status
  <2> HIDE DEF getPending
  <2>4. \A g \in Flush \ {f} : MarkedBy(g)'
    BY <2>1, <2>2, <2>3, GoesOnLeads DEF MarkedBy
  <2>5. MarkedBy(f)'
    BY <2>2, <2>3, GoesOnLeads DEF MarkedBy
  <2> QED
    BY <2>4, <2>5 DEF Marked
<1>2. ASSUME NEW f \in Flush, NEW ok \in BOOLEAN, SendEnds(f, ok) PROVE Marked'
  <2> DEFINE m == sending[f]
             now == IF Stored(m) THEN [status EXCEPT ![m] = Outcome(m, ok)] ELSE status
  <2>1. m \in Message /\ batch[f] \in SUBSET Message /\ GoesOn(f, batch[f], now)
        /\ sending[f] # NoMessage
    BY <1>2 DEF SendEnds, TypeOK
  <2>2. now \in [Message -> Status]
    BY <2>1, SettledType DEF TypeOK, Status
  <2>3. \A n \in batch[f] : now[n] \in {"pending", "removed"}
    BY <2>1 DEF Marked, MarkedBy, TypeOK
  <2> HIDE DEF now
  <2>4. \A g \in Flush \ {f} : sending[g] = NoMessage /\ batch[g] = {}
    BY <2>1 DEF OneFlush, Marked, MarkedBy
  <2>5. \A g \in Flush \ {f} : MarkedBy(g)'
    BY <2>1, <2>2, <2>4, GoesOnLeads, ZenonT(40) DEF MarkedBy
  <2>6. MarkedBy(f)'
    BY <2>1, <2>2, <2>3, GoesOnLeads DEF MarkedBy
  <2> QED
    BY <2>5, <2>6 DEF Marked
<1>3. CASE \E m \in Message : enqueue(m) \/ remove(m) \/ BackoffOver(m)
  BY <1>3, MarkedStays DEF enqueue, remove, BackoffOver, relayVars, TypeOK
<1>4. CASE cleanup
  BY <1>4, MarkedStays DEF cleanup, relayVars, TypeOK
<1>5. CASE startRelay \/ stopRelay \/ UNCHANGED vars
  BY <1>5, MarkedStays DEF startRelay, stopRelay, entryVars, relayVars, vars
<1> QED
  BY <1>1, <1>2, <1>3, <1>4, <1>5 DEF Next

-----------------------------------------------------------------------------
(* The theorems.                                                           *)

THEOREM Invariance == Spec => []IInv
<1>1. IInv /\ [Next]_vars => IInv'
  BY TypeStep, FlushStep, MarkedStep DEF IInv
<1> QED
  BY InitInv, <1>1, PTL DEF Spec

\* Every variable keeps its type.
THEOREM TypesHold == Spec => []TypeOK
<1>1. IInv => TypeOK
  BY DEF IInv
<1> QED
  BY Invariance, <1>1, PTL

\* At most one flush of the relay is under way, whatever comes, goes, stops and
\* starts: no entry is sent twice at the same time.
THEOREM OneFlushHolds == Spec => []OneFlush
<1>1. IInv => OneFlush
  BY DEF IInv
<1> QED
  BY Invariance, <1>1, PTL

\* An entry that was sent or has died is never taken up again, although a flush
\* works on a snapshot that may be old.
THEOREM SettledHolds == Spec => SettledStays
<1> DEFINE Stays == \A m \in Message : status[m] \in {"sent", "dead"}
                       => status'[m] \in {status[m], "removed"}
<1>1. IInv /\ [Next]_vars => [Stays]_vars
  <2> SUFFICES ASSUME IInv, Next, NEW x \in Message, status[x] \in {"sent", "dead"}
               PROVE  status'[x] \in {status[x], "removed"}
    OBVIOUS
  <2> USE DEF IInv
  <2>1. ASSUME NEW f \in Flush, Tick(f) PROVE status'[x] = status[x]
    <3>1. GoesOn(f, getPending, status) /\ getPending \in SUBSET Message /\ x \notin getPending
      BY <2>1 DEF Tick, getPending, TypeOK
    <3>2. status \in [Message -> Status]
      BY DEF TypeOK, Status
    <3>3. sending'[f] = NoMessage \/ sending'[f] \in getPending
      BY <3>1, <3>2, GoesOnLeads
    <3> HIDE DEF getPending
    <3> QED
      BY <3>1, <3>2, <3>3, GoesOnLeads, OutboxAssumption
  <2>2. ASSUME NEW f \in Flush, NEW ok \in BOOLEAN, SendEnds(f, ok) PROVE status'[x] = status[x]
    <3> DEFINE m == sending[f]
               now == IF Stored(m) THEN [status EXCEPT ![m] = Outcome(m, ok)] ELSE status
    <3>1. m \in Message /\ batch[f] \in SUBSET Message /\ GoesOn(f, batch[f], now)
          /\ sending[f] # NoMessage
      BY <2>2 DEF SendEnds, TypeOK
    <3>2. now \in [Message -> Status]
      BY <3>1, SettledType DEF TypeOK, Status
    <3>3. x \notin batch[f] /\ x # m
      BY <3>1 DEF Marked, MarkedBy
    <3>4. now[x] = status[x]
      BY <3>1, <3>3 DEF TypeOK
    <3> HIDE DEF now
    <3> QED
      BY <3>1, <3>2, <3>3, <3>4, GoesOnLeads, OutboxAssumption
  <2>3. CASE \E m \in Message : enqueue(m) \/ remove(m) \/ BackoffOver(m)
    BY <2>3 DEF enqueue, remove, BackoffOver, TypeOK
  <2>4. CASE cleanup
    BY <2>4 DEF cleanup, TypeOK
  <2>5. CASE startRelay \/ stopRelay
    BY <2>5 DEF startRelay, stopRelay, entryVars
  <2> QED
    BY <2>1, <2>2, <2>3, <2>4, <2>5 DEF Next
<1> QED
  BY Invariance, <1>1, PTL DEF Spec, SettledStays

-----------------------------------------------------------------------------
(* The relay and the receiver.                                             *)

\* What the sender knows of an entry with the status s, as ReliableMail has it.
Verdict(s) == IF s \in {"pending", "sending"} THEN "open" ELSE s

\* A message is handed over once at most.  Its key stays as long as it could be
\* accepted again, and a key that is kept stands for a message handed over.
Remembered ==
    /\ \A m \in Message : handed[m] \in {0, 1}
    /\ \A m \in Message : handed[m] = 1 /\ m \notin tooOld => entries[keyOf[m]] = m
    /\ \A k \in Key : entries[k] # NoMessage => handed[entries[k]] = 1

\* Only what was enqueued is posted, and a confirmation that has come in says
\* that the message whose answer is awaited was handed over.
Answered ==
    /\ \A m \in Message : signed[m] > 0 => status[m] # "none"
    /\ TRUE \in answers => \A f \in Flush : sending[f] # NoMessage => handed[sending[f]] = 1

DeliveryTypes == I!TypeOK /\ signed \in [Message -> Nat] /\ answers \subseteq BOOLEAN

DInv == IInv /\ DeliveryTypes /\ Remembered /\ Answered

\* Every step of the relay is one of the outbox, or none to it.
LEMMA RelaysStep == [DeliveryNext]_deliveryVars => [Next]_vars
<1>1. ASSUME NEW f \in Flush, NEW ok \in BOOLEAN, AnswerEnds(f, ok) PROVE Next
  BY <1>1 DEF AnswerEnds, Next
<1> QED
  BY <1>1
  DEF DeliveryNext, TickPosts, Arrives, OutboxSteps, InboxSteps, deliveryVars, Next

\* Every step of the outbox keeps its invariant.
LEMMA NextInv == IInv /\ [Next]_vars => IInv'
  BY TypeStep, FlushStep, MarkedStep DEF IInv

\* Taking up entries changes no verdict.
LEMMA TickVerdicts ==
    ASSUME IInv, NEW f \in Flush, Tick(f)
    PROVE  \A m \in Message : Verdict(status'[m]) = Verdict(status[m])
<1>1. GoesOn(f, getPending, status) /\ getPending \in SUBSET Message
      /\ \A m \in getPending : status[m] = "pending"
  BY DEF Tick, getPending, IInv, TypeOK
<1>2. status \in [Message -> Status] /\ TypeOK
  BY DEF IInv, TypeOK, Status
<1> HIDE DEF getPending
<1>3. sending'[f] # NoMessage => sending'[f] \in getPending
  BY <1>1, <1>2, GoesOnLeads
<1>4. \A m \in Message :
        status'[m] = IF m = sending'[f] /\ status[m] # "removed" THEN "sending" ELSE status[m]
  BY <1>1, <1>2, GoesOnLeads
<1>5. NoMessage \notin Message
  BY OutboxAssumption
<1> QED  BY <1>1, <1>3, <1>4, <1>5 DEF Verdict

\* The end of sendFn changes the verdict on its entry alone, if any: one that was
\* open becomes sent, when the call succeeded, or dead.
LEMMA SendEndsVerdicts ==
    ASSUME IInv, NEW f \in Flush, NEW ok \in BOOLEAN, SendEnds(f, ok)
    PROVE  /\ sending[f] \in Message
           /\ \A n \in Message \ {sending[f]} : Verdict(status'[n]) = Verdict(status[n])
           /\ \/ Verdict(status'[sending[f]]) = Verdict(status[sending[f]])
              \/ /\ Verdict(status[sending[f]]) = "open"
                 /\ \/ ok /\ Verdict(status'[sending[f]]) = "sent"
                    \/ Verdict(status'[sending[f]]) = "dead"
<1> DEFINE m == sending[f]
           now == IF Stored(m) THEN [status EXCEPT ![m] = Outcome(m, ok)] ELSE status
<1>1. m \in Message /\ batch[f] \in SUBSET Message /\ GoesOn(f, batch[f], now)
      /\ sending[f] # NoMessage /\ TypeOK
  BY DEF SendEnds, IInv, TypeOK
<1>2. now \in [Message -> Status]
  BY <1>1, SettledType DEF TypeOK, Status
<1>3. /\ status[m] \in {"sending", "removed"} /\ m \notin batch[f]
      /\ \A n \in batch[f] : status[n] \in {"pending", "removed"}
  BY <1>1 DEF IInv, Marked, MarkedBy
<1>4. \A n \in Message \ {m} : now[n] = status[n]
  BY <1>1 DEF TypeOK
<1>5. now[m] = IF status[m] = "removed" THEN "removed" ELSE Outcome(m, ok)
  BY <1>1, <1>3 DEF Stored, TypeOK
<1> HIDE DEF now
<1>6. sending'[f] # NoMessage => sending'[f] \in batch[f]
  BY <1>1, <1>2, GoesOnLeads
<1>7. \A n \in Message :
        status'[n] = IF n = sending'[f] /\ now[n] # "removed" THEN "sending" ELSE now[n]
  BY <1>1, <1>2, GoesOnLeads
<1>8. status'[m] = now[m] /\ NoMessage \notin Message
  BY <1>1, <1>3, <1>6, <1>7, OutboxAssumption
<1>9. ASSUME NEW n \in Message \ {m} PROVE Verdict(status'[n]) = Verdict(status[n])
  <2>1. CASE n = sending'[f] /\ now[n] # "removed"
    BY <1>3, <1>4, <1>6, <1>7, <1>8, <2>1 DEF Verdict
  <2>2. CASE ~(n = sending'[f] /\ now[n] # "removed")
    BY <1>4, <1>7, <2>2
  <2> QED  BY <2>1, <2>2
<1> QED  BY <1>1, <1>3, <1>5, <1>8, <1>9 DEF Outcome, Verdict

\* An entry is never new again.
LEMMA KnownStays ==
    ASSUME IInv, [Next]_vars, NEW m \in Message, status[m] # "none"
    PROVE  status'[m] # "none"
<1>1. ASSUME NEW f \in Flush, Tick(f) PROVE status'[m] # "none"
  BY <1>1, TickVerdicts DEF Verdict
<1>2. ASSUME NEW f \in Flush, NEW ok \in BOOLEAN, SendEnds(f, ok) PROVE status'[m] # "none"
  BY <1>2, SendEndsVerdicts DEF Verdict
<1>3. CASE \E n \in Message : enqueue(n) \/ remove(n) \/ BackoffOver(n)
  BY <1>3 DEF enqueue, remove, BackoffOver, IInv, TypeOK
<1>4. CASE cleanup
  BY <1>4 DEF cleanup
<1>5. CASE startRelay \/ stopRelay \/ UNCHANGED vars
  BY <1>5 DEF startRelay, stopRelay, entryVars, vars
<1> QED  BY <1>1, <1>2, <1>3, <1>4, <1>5 DEF Next

\* What handling a request leads to: it hands the message over only when that was
\* not done before, and says ok only when it was, now or then.
LEMMA RequestLeads ==
    ASSUME DInv, NEW m \in Message, NEW n \in Nonce, NEW ok \in BOOLEAN,
           I!handleRequest(m, n, ok)
    PROVE  /\ nonces' \subseteq Nonce /\ UNCHANGED <<keyOf, rules, tooOld>>
           /\ \/ /\ handed[m] = 0 /\ entries[keyOf[m]] = NoMessage
                 /\ handed' = [handed EXCEPT ![m] = 1]
                 /\ entries' = [entries EXCEPT ![keyOf[m]] = m]
              \/ UNCHANGED <<entries, handed>>
           /\ ok => handed'[m] = 1
<1>1. nonces' \subseteq Nonce /\ UNCHANGED <<keyOf, rules, tooOld>>
  BY DEF I!handleRequest, I!add, DInv, DeliveryTypes, I!TypeOK
<1>2. /\ keyOf[m] \in Key /\ entries[keyOf[m]] \in Message \cup {NoMessage}
      /\ handed \in [Message -> Nat] /\ m # NoMessage
  BY OutboxAssumption DEF DInv, DeliveryTypes, I!TypeOK
<1> DEFINE passed == I!Fresh(n) /\ I!Valid(m)
           new    == passed /\ I!check(m) = "new" /\ I!Routable(m)
<1>3. /\ ok <=> new \/ (passed /\ I!check(m) = "duplicate")
      /\ IF new THEN I!store(m) /\ handed' = [handed EXCEPT ![m] = handed[m] + 1]
                ELSE UNCHANGED <<entries, handed>>
  BY DEF I!handleRequest
<1>4. passed => m \notin tooOld
  BY DEF I!Valid
<1>5. I!check(m) = "new" => entries[keyOf[m]] = NoMessage
  BY DEF I!check
<1>6. I!check(m) = "duplicate" => entries[keyOf[m]] = m
  BY DEF I!check
<1>7. CASE new
  <2>1. entries[keyOf[m]] = NoMessage /\ handed[m] = 0
    BY <1>2, <1>4, <1>5, <1>7 DEF DInv, Remembered
  <2>2. handed' = [handed EXCEPT ![m] = 1] /\ entries' = [entries EXCEPT ![keyOf[m]] = m]
    BY <1>3, <1>7, <2>1 DEF I!store
  <2> QED  BY <1>1, <1>2, <2>1, <2>2
<1>8. CASE ~new
  <2>1. UNCHANGED <<entries, handed>>
    BY <1>3, <1>8
  <2>2. ok => handed[m] = 1
    BY <1>2, <1>3, <1>6, <1>8 DEF DInv, Remembered
  <2> QED  BY <1>1, <2>1, <2>2
<1> QED  BY <1>7, <1>8

\* A request keeps the invariant.
LEMMA ArrivesKeeps ==
    ASSUME DInv, NEW m \in Message, NEW i \in 1..signed[m], Arrives(m, i)
    PROVE  DInv'
<1>1. PICK ok \in BOOLEAN :
        /\ I!handleRequest(m, <<m, i>>, ok)
        /\ answers' = IF i = signed[m] /\ \E f \in Flush : sending[f] = m
                      THEN answers \cup {ok} ELSE answers
  BY DEF Arrives
<1>2. UNCHANGED <<vars, signed>>
  BY DEF Arrives
<1>3. <<m, i>> \in Nonce
  BY DEF Nonce, DInv, DeliveryTypes
<1>4. /\ nonces' \subseteq Nonce /\ UNCHANGED <<keyOf, rules, tooOld>>
      /\ \/ /\ handed[m] = 0 /\ entries[keyOf[m]] = NoMessage
            /\ handed' = [handed EXCEPT ![m] = 1]
            /\ entries' = [entries EXCEPT ![keyOf[m]] = m]
         \/ UNCHANGED <<entries, handed>>
      /\ ok => handed'[m] = 1
  BY <1>1, <1>3, RequestLeads
<1>5. IInv' /\ UNCHANGED <<status, sending>>
  BY <1>2, NextInv DEF DInv, vars, entryVars, relayVars
<1>6. keyOf \in [Message -> Key] /\ entries \in [Key -> Message \cup {NoMessage}]
      /\ handed \in [Message -> Nat] /\ NoMessage \notin Message
  BY OutboxAssumption DEF DInv, DeliveryTypes, I!TypeOK
<1>7. DeliveryTypes'
  BY <1>1, <1>2, <1>4, <1>6 DEF DInv, DeliveryTypes, I!TypeOK
<1>8. Remembered'
  BY <1>4, <1>6 DEF DInv, Remembered
<1>9. \A n \in Message : handed[n] = 1 => handed'[n] = 1
  BY <1>4, <1>6
<1>10. ASSUME TRUE \in answers', NEW f \in Flush, sending[f] # NoMessage
       PROVE  handed'[sending[f]] = 1
  <2>1. sending[f] \in Message
    BY <1>10 DEF DInv, IInv, TypeOK
  <2>2. CASE TRUE \in answers
    BY <1>9, <1>10, <2>1, <2>2 DEF DInv, Answered
  <2>3. CASE TRUE \notin answers
    <3>1. ok = TRUE /\ \E g \in Flush : sending[g] = m
      BY <1>1, <1>10, <2>3
    <3>2. sending[f] = m
      BY <1>6, <1>10, <3>1 DEF DInv, IInv, OneFlush
    <3> QED  BY <1>4, <3>1, <3>2
  <2> QED  BY <2>2, <2>3
<1>11. Answered'
  BY <1>2, <1>5, <1>10 DEF DInv, Answered
<1> QED  BY <1>5, <1>7, <1>8, <1>11 DEF DInv

\* So does administration: only the key of a message that is too old is dropped.
LEMMA AdminKeeps ==
    ASSUME DInv, InboxSteps
    PROVE  DInv'
<1>1. UNCHANGED <<vars, signed, answers>> /\ I!Admin
  BY DEF InboxSteps, netVars
<1>2. IInv' /\ UNCHANGED <<status, sending>>
  BY <1>1, NextInv DEF DInv, vars, entryVars, relayVars
<1>3. UNCHANGED <<keyOf, handed>>
  BY <1>1 DEF I!Admin, I!Ages, I!KeyExpires, I!NonceExpires, I!RulesChange
<1>4. I!TypeOK'
  BY <1>1 DEF I!Admin, I!Ages, I!KeyExpires, I!NonceExpires, I!RulesChange,
              DInv, DeliveryTypes, I!TypeOK
<1>5. Remembered'
  <2>1. ASSUME NEW k \in Key, I!KeyExpires(k) PROVE Remembered'
    BY <2>1 DEF I!KeyExpires, I!Expired, DInv, DeliveryTypes, I!TypeOK, Remembered
  <2>2. CASE UNCHANGED entries /\ tooOld \subseteq tooOld'
    BY <1>3, <2>2 DEF DInv, Remembered
  <2> QED
    BY <1>1, <2>1, <2>2 DEF I!Admin, I!Ages, I!NonceExpires, I!RulesChange
<1>6. Answered'
  BY <1>1, <1>2, <1>3 DEF DInv, Answered
<1> QED  BY <1>1, <1>2, <1>4, <1>5, <1>6 DEF DInv, DeliveryTypes

\* A flush that goes on posts an entry of the store, and waits for no answer of
\* an earlier one.
LEMMA PostsKeeps ==
    ASSUME DInv, NEW f \in Flush, [Next]_vars, Posts(f), UNCHANGED inboxVars
    PROVE  DInv'
<1>1. IInv' /\ UNCHANGED <<keyOf, nonces, entries, rules, tooOld, handed>>
  BY NextInv DEF DInv, inboxVars
<1>2. /\ answers' = {}
      /\ signed' = IF sending'[f] = NoMessage THEN signed
                   ELSE [signed EXCEPT ![sending'[f]] = signed[sending'[f]] + 1]
  BY DEF Posts
<1>3. sending'[f] # NoMessage => status'[sending'[f]] # "none"
  BY <1>1 DEF IInv, Marked, MarkedBy
<1>4. signed' \in [Message -> Nat]
  <2>1. signed \in [Message -> Nat] /\ sending'[f] \in Message \cup {NoMessage}
    BY <1>1 DEF DInv, DeliveryTypes, IInv, TypeOK
  <2>2. CASE sending'[f] = NoMessage
    BY <1>2, <2>1, <2>2
  <2>3. CASE sending'[f] # NoMessage
    <3>1. signed[sending'[f]] + 1 \in Nat
      BY <2>1, <2>3
    <3> QED  BY <1>2, <2>1, <2>3, <3>1
  <2> QED  BY <2>2, <2>3
<1>5. DeliveryTypes'
  BY <1>1, <1>2, <1>4 DEF DInv, DeliveryTypes, I!TypeOK
<1>6. Remembered'
  BY <1>1 DEF DInv, Remembered
<1>7. ASSUME NEW m \in Message, signed'[m] > 0 PROVE status'[m] # "none"
  <2>1. CASE sending'[f] # NoMessage /\ m = sending'[f]
    BY <1>3, <2>1
  <2>2. CASE sending'[f] = NoMessage \/ m # sending'[f]
    <3>1. signed'[m] = signed[m]
      BY <1>2, <2>2 DEF DInv, DeliveryTypes
    <3> QED  BY <1>7, <3>1, KnownStays DEF DInv, Answered
  <2> QED  BY <2>1, <2>2
<1> QED  BY <1>1, <1>2, <1>5, <1>6, <1>7 DEF DInv, Answered

\* Every step keeps the invariant.
LEMMA DeliveryKeeps == DInv /\ [DeliveryNext]_deliveryVars => DInv'
<1> SUFFICES ASSUME DInv, [DeliveryNext]_deliveryVars PROVE DInv'
  OBVIOUS
<1>1. [Next]_vars
  BY RelaysStep
<1>2. ASSUME NEW f \in Flush, TickPosts(f) \/ \E ok \in BOOLEAN : AnswerEnds(f, ok)
      PROVE  DInv'
  BY <1>1, <1>2, PostsKeeps DEF TickPosts, AnswerEnds
<1>3. ASSUME NEW m \in Message, NEW i \in 1..signed[m], Arrives(m, i) PROVE DInv'
  BY <1>3, ArrivesKeeps
<1>4. CASE OutboxSteps \/ UNCHANGED deliveryVars
  <2>1. UNCHANGED <<inboxVars, netVars, sending>>
    BY <1>4 DEF OutboxSteps, enqueue, remove, BackoffOver, cleanup, startRelay, stopRelay,
                relayVars, deliveryVars, vars
  <2>2. IInv'
    BY <1>1, NextInv DEF DInv
  <2>3. DeliveryTypes'
    BY <2>1 DEF DInv, DeliveryTypes, I!TypeOK, inboxVars, netVars
  <2>4. Remembered'
    BY <2>1 DEF DInv, Remembered, inboxVars
  <2>5. Answered'
    BY <1>1, <2>1, KnownStays DEF DInv, Answered, inboxVars, netVars
  <2> QED  BY <2>2, <2>3, <2>4, <2>5 DEF DInv
<1> QED  BY <1>2, <1>3, <1>4, AdminKeeps DEF DeliveryNext

\* It holds before anything is enqueued.
LEMMA DeliveryStarts == DeliveryInit => DInv
<1> SUFFICES ASSUME DeliveryInit PROVE DInv
  OBVIOUS
<1>1. Init /\ I!Init /\ signed = [m \in Message |-> 0] /\ answers = {}
  BY DEF DeliveryInit
<1>2. IInv
  BY <1>1, InitInv
<1>3. DeliveryTypes
  BY <1>1, InboxAssumption DEF I!Init, I!TypeOK, DeliveryTypes
<1>4. Remembered
  BY <1>1 DEF I!Init, Remembered
<1>5. Answered
  BY <1>1 DEF Answered
<1> QED  BY <1>2, <1>3, <1>4, <1>5 DEF DInv

-----------------------------------------------------------------------------
(* ReliableMail.                                                           *)

verdict == [m \in Message |->
                IF status[m] \in {"pending", "sending"} THEN "open" ELSE status[m]]

\* The verdicts are those of the entries.
LEMMA VerdictIs ==
    /\ DOMAIN verdict = Message /\ DOMAIN verdict' = Message
    /\ \A m \in Message : verdict[m] = Verdict(status[m]) /\ verdict'[m] = Verdict(status'[m])
  BY DEF verdict, Verdict

\* A step that changes no verdict, or just the one on m.
LEMMA VerdictsStay ==
    ASSUME \A n \in Message : Verdict(status'[n]) = Verdict(status[n])
    PROVE  UNCHANGED verdict
  BY DEF verdict, Verdict

LEMMA VerdictChanges ==
    ASSUME NEW m \in Message, NEW v, Verdict(status'[m]) = v,
           \A n \in Message \ {m} : Verdict(status'[n]) = Verdict(status[n])
    PROVE  verdict' = [verdict EXCEPT ![m] = v]
  BY DEF verdict, Verdict

\* How the steps of ReliableMail look from the verdicts of the entries.
LEMMA MailLooks ==
    /\ \A m, from, to : Mail!Becomes(m, from, to) <=>
         /\ verdict[m] \in from
         /\ verdict' = [verdict EXCEPT ![m] = to]
         /\ UNCHANGED handed
    /\ Mail!CleanUp <=>
         /\ \E old \in SUBSET {m \in Message : verdict[m] = "sent"} :
              verdict' = [m \in Message |-> IF m \in old THEN "removed" ELSE verdict[m]]
         /\ UNCHANGED handed
    /\ \A m : Mail!HandOver(m) <=>
         /\ verdict[m] # "none" /\ handed[m] = 0
         /\ handed' = [handed EXCEPT ![m] = 1]
         /\ UNCHANGED verdict
  BY DEF Mail!Becomes, Mail!CleanUp, Mail!HandOver, verdict

\* A message is handed over when a request arrives, or nothing happens.
LEMMA MailArrives ==
    ASSUME DInv, NEW m \in Message, NEW i \in 1..signed[m], Arrives(m, i)
    PROVE  Mail!HandOver(m) \/ UNCHANGED <<verdict, handed>>
<1>1. PICK ok \in BOOLEAN : I!handleRequest(m, <<m, i>>, ok)
  BY DEF Arrives
<1>2. <<m, i>> \in Nonce /\ signed[m] > 0
  BY DEF Nonce, DInv, DeliveryTypes
<1>3. (handed[m] = 0 /\ handed' = [handed EXCEPT ![m] = 1]) \/ UNCHANGED handed
  BY <1>1, <1>2, RequestLeads
<1>4. UNCHANGED verdict
  BY DEF Arrives, vars, entryVars, verdict
<1>5. verdict[m] # "none"
  BY <1>2, VerdictIs DEF DInv, Answered, Verdict
<1> QED  BY <1>3, <1>4, <1>5, MailLooks

\* The end of a call confirms or gives up the message, or changes nothing that the
\* sender knows.
LEMMA MailAnswers ==
    ASSUME DInv, NEW f \in Flush, NEW ok \in BOOLEAN, AnswerEnds(f, ok)
    PROVE  \/ \E m \in Message : Mail!Confirm(m) \/ Mail!GiveUp(m)
           \/ UNCHANGED <<verdict, handed>>
<1> DEFINE m == sending[f]
<1>1. SendEnds(f, ok) /\ UNCHANGED handed /\ (ok => TRUE \in answers)
  BY DEF AnswerEnds, inboxVars
<1>2. /\ m \in Message /\ m # NoMessage
      /\ \A n \in Message \ {m} : Verdict(status'[n]) = Verdict(status[n])
      /\ \/ Verdict(status'[m]) = Verdict(status[m])
         \/ /\ Verdict(status[m]) = "open"
            /\ \/ ok /\ Verdict(status'[m]) = "sent"
               \/ Verdict(status'[m]) = "dead"
  BY <1>1, SendEndsVerdicts, OutboxAssumption DEF DInv
<1> HIDE DEF m
<1>3. CASE Verdict(status'[m]) = Verdict(status[m])
  <2>1. \A n \in Message : Verdict(status'[n]) = Verdict(status[n])
    BY <1>2, <1>3
  <2> QED  BY <1>1, <2>1, VerdictsStay
<1>4. CASE ok /\ Verdict(status[m]) = "open" /\ Verdict(status'[m]) = "sent"
  <2>1. verdict' = [verdict EXCEPT ![m] = "sent"] /\ verdict[m] \in {"open"}
    BY <1>2, <1>4, VerdictChanges, VerdictIs
  <2>2. handed[m] = 1
    BY <1>1, <1>2, <1>4 DEF DInv, Answered, m
  <2> QED  BY <1>1, <1>2, <2>1, <2>2, MailLooks DEF Mail!Confirm
<1>5. CASE Verdict(status[m]) = "open" /\ Verdict(status'[m]) = "dead"
  <2>1. verdict' = [verdict EXCEPT ![m] = "dead"] /\ verdict[m] \in {"open"}
    BY <1>2, <1>5, VerdictChanges, VerdictIs
  <2> QED  BY <1>1, <1>2, <2>1, MailLooks DEF Mail!GiveUp
<1> QED  BY <1>2, <1>3, <1>4, <1>5

\* An entry comes, goes or is cleaned up.
LEMMA MailOutbox ==
    ASSUME DInv, OutboxSteps
    PROVE  [Mail!Next]_<<verdict, handed>>
<1>1. UNCHANGED handed /\ status \in [Message -> Status]
  BY DEF OutboxSteps, inboxVars, DInv, IInv, TypeOK, Status
<1>2. ASSUME NEW m \in Message, enqueue(m) PROVE Mail!Submit(m)
  <2>1. verdict[m] \in {"none"} /\ Verdict(status'[m]) = "open"
        /\ \A n \in Message \ {m} : Verdict(status'[n]) = Verdict(status[n])
    BY <1>1, <1>2, VerdictIs DEF enqueue, Verdict
  <2> QED  BY <1>1, <2>1, VerdictChanges, MailLooks DEF Mail!Submit
<1>3. ASSUME NEW m \in Message, remove(m) PROVE Mail!Remove(m)
  <2>1. verdict[m] \in {"open", "sent", "dead"} /\ Verdict(status'[m]) = "removed"
        /\ \A n \in Message \ {m} : Verdict(status'[n]) = Verdict(status[n])
    BY <1>1, <1>3, VerdictIs DEF remove, Stored, Verdict, Status
  <2> QED  BY <1>1, <2>1, VerdictChanges, MailLooks DEF Mail!Remove
<1>4. CASE cleanup
  <2>1. PICK old \in SUBSET {m \in Message : status[m] = "sent"} :
          status' = [m \in Message |-> IF m \in old THEN "removed" ELSE status[m]]
    BY <1>4 DEF cleanup
  <2>2. old \in SUBSET {m \in Message : verdict[m] = "sent"}
    BY VerdictIs DEF Verdict
  <2>3. verdict' = [m \in Message |-> IF m \in old THEN "removed" ELSE verdict[m]]
    BY <2>1 DEF verdict
  <2> QED  BY <1>1, <2>2, <2>3, MailLooks DEF Mail!Next
<1>5. CASE UNCHANGED status
  BY <1>1, <1>5 DEF verdict
<1>6. ASSUME NEW m \in Message, BackoffOver(m) \/ startRelay \/ stopRelay
      PROVE  UNCHANGED status
  BY <1>6 DEF BackoffOver, startRelay, stopRelay, entryVars
<1>7. ASSUME startRelay \/ stopRelay PROVE UNCHANGED status
  BY <1>7 DEF startRelay, stopRelay, entryVars
<1> QED  BY <1>2, <1>3, <1>4, <1>5, <1>6, <1>7 DEF OutboxSteps, Mail!Next

\* Every step of the relay is one of ReliableMail, or none to it.
LEMMA MailStep ==
    DInv /\ [DeliveryNext]_deliveryVars => [Mail!Next]_<<verdict, handed>>
<1> SUFFICES ASSUME DInv, [DeliveryNext]_deliveryVars PROVE [Mail!Next]_<<verdict, handed>>
  OBVIOUS
<1>1. ASSUME NEW f \in Flush, TickPosts(f) PROVE UNCHANGED <<verdict, handed>>
  BY <1>1, TickVerdicts, VerdictsStay DEF TickPosts, inboxVars, DInv
<1>2. CASE InboxSteps \/ UNCHANGED deliveryVars
  BY <1>2
  DEF InboxSteps, I!Admin, I!Ages, I!KeyExpires, I!NonceExpires, I!RulesChange,
      deliveryVars, inboxVars, vars, entryVars, verdict
<1> QED
  BY <1>1, <1>2, MailArrives, MailAnswers, MailOutbox DEF DeliveryNext, Mail!Next

\* Nothing is known and nothing handed over at first.
LEMMA MailStarts == DeliveryInit => Mail!Init
  BY DEF DeliveryInit, Init, I!Init, Mail!Init

-----------------------------------------------------------------------------
(* The theorems about the delivery.                                        *)

\* DInv holds in every reachable state.
LEMMA DeliveryInvariant == DeliverySpec => []DInv
  BY DeliveryStarts, DeliveryKeeps, PTL DEF DeliverySpec

\* Signing and posting, the receiver and the network leave the outbox what it is:
\* what is shown above of its flushes holds here too.
THEOREM RelayDrivesOutbox == DeliverySpec => Spec
<1>1. DeliveryInit => Init
  BY DEF DeliveryInit
<1> QED  BY <1>1, RelaysStep, PTL DEF DeliverySpec, Spec

\* Whatever is lost, late, delivered twice or expired, a message is handed over at
\* most once, and the key of one that could come again is still known.
THEOREM HandedOverOnce == DeliverySpec => []Remembered
<1>1. DInv => Remembered
  BY DEF DInv
<1> QED  BY <1>1, DeliveryInvariant, PTL

\* The relay and the receiver together implement ReliableMail: a message is
\* confirmed to its sender only after it was handed over, which it is at most
\* once, and a verdict is final but for the removal of the entry.
THEOREM MailIsReliable == DeliverySpec => DeliversOnce
<1>1. DInv /\ [DeliveryNext]_deliveryVars => [Mail!Next]_Mail!vars
  BY MailStep DEF Mail!vars, verdict
<1> QED  BY <1>1, MailStarts, DeliveryInvariant, PTL
         DEF DeliverySpec, DeliversOnce, Mail!Spec
=============================================================================
