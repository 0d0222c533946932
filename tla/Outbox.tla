------------------------------- MODULE Outbox -------------------------------
(***************************************************************************)
(* The outbox of the gateway-to-gateway layer (Outbox in                   *)
(* src/src/internal/outbox.ts): entries wait for the relay, an interval    *)
(* that takes a snapshot of the entries that are due and awaits sendFn for *)
(* one after the other, while entries come, go and are cleaned up, and the *)
(* relay is stopped and started.                                           *)
(*                                                                         *)
(* Every run of the interval's callback that gets past isFlushing is a     *)
(* flush of its own: that there is only one at a time is to be shown.      *)
(***************************************************************************)
EXTENDS Integers, FiniteSets

CONSTANTS
    Message,      \* the entries, each enqueued at most once
    MaxRetries,   \* config.maxRetries
    Flush,        \* runs of the callback that may be under way at a time
    NoMessage

ASSUME OutboxAssumption ==
    /\ IsFiniteSet(Message) /\ NoMessage \notin Message
    /\ MaxRetries \in Nat

VARIABLES
    status,      \* of each entry; "none" before, "removed" after it is in the store
    created,     \* created_at of each entry, as its place in the order
    retries,     \* retry_count
    due,         \* the entries with no backoff to wait for
    relay,       \* is the interval in this.timer set?
    isFlushing,
    batch,       \* per flush, the entries of its snapshot still to be sent
    sending      \* per flush, the entry whose sendFn it awaits

entryVars == <<status, created, retries, due>>
relayVars == <<relay, isFlushing, batch, sending>>
vars      == <<entryVars, relayVars>>

Init ==
    /\ status = [m \in Message |-> "none"]
    /\ created = [m \in Message |-> 0] /\ retries = [m \in Message |-> 0]
    /\ due = {}
    /\ relay = FALSE /\ isFlushing = FALSE
    /\ batch = [f \in Flush |-> {}] /\ sending = [f \in Flush |-> NoMessage]

-----------------------------------------------------------------------------
(* The entries.                                                            *)

Stored(m) == status[m] \notin {"none", "removed"}

enqueue(m) ==
    /\ status[m] = "none"
    /\ status' = [status EXCEPT ![m] = "pending"]
    /\ created' = [created EXCEPT ![m] = Cardinality({n \in Message : status[n] # "none"})]
    /\ due' = due \cup {m}
    /\ UNCHANGED <<retries, relayVars>>

getPending == {m \in due : status[m] = "pending"}

remove(m) ==
    /\ Stored(m)
    /\ status' = [status EXCEPT ![m] = "removed"]
    /\ due' = due \ {m}
    /\ UNCHANGED <<created, retries, relayVars>>

\* The sent entries that are older than maxAgeMs, some of those there are.
cleanup ==
    /\ \E old \in SUBSET {m \in Message : status[m] = "sent"} \ {{}} :
         status' = [m \in Message |-> IF m \in old THEN "removed" ELSE status[m]]
    /\ UNCHANGED <<created, retries, due, relayVars>>

BackoffOver(m) ==
    /\ status[m] = "pending" /\ m \notin due
    /\ due' = due \cup {m}
    /\ UNCHANGED <<status, created, retries, relayVars>>

-----------------------------------------------------------------------------
(* The relay.                                                              *)

\* The status markSent or markFailed gives to the entry m.
Outcome(m, ok) ==
    IF ok THEN "sent" ELSE IF retries[m] + 1 >= MaxRetries THEN "dead" ELSE "pending"

\* Mutant: the flag stays up.
ResetFlag_Not == UNCHANGED isFlushing

\* The finally block of a flush.
ResetFlag == isFlushing' = FALSE

\* The flush f goes on with the entries S: markSending for the oldest, whose
\* sendFn is called even if it was removed from the store in the meantime, or
\* the end when none is left.  `now` are the statuses at this point.
GoesOn(f, S, now) ==
    \/ /\ S = {}
       /\ status' = now
       /\ ResetFlag
       /\ batch' = [batch EXCEPT ![f] = {}]
       /\ sending' = [sending EXCEPT ![f] = NoMessage]
    \/ \E m \in S :
       /\ \A n \in S : created[m] <= created[n]
       /\ status' = IF now[m] = "removed" THEN now ELSE [now EXCEPT ![m] = "sending"]
       /\ isFlushing' = TRUE
       /\ batch' = [batch EXCEPT ![f] = S \ {m}]
       /\ sending' = [sending EXCEPT ![f] = m]

\* One tick of the interval.  With nothing to send it changes nothing.
Tick(f) ==
    /\ relay /\ sending[f] = NoMessage
    /\ ~isFlushing /\ getPending # {}
    /\ GoesOn(f, getPending, status)
    /\ UNCHANGED <<created, retries, due, relay>>

\* sendFn has resolved with ok, or rejected, which counts as FALSE: markSent or
\* markFailed, without effect on an entry that was removed; then the next one.
SendEnds(f, ok) ==
    LET m   == sending[f]
        now == IF Stored(m) THEN [status EXCEPT ![m] = Outcome(m, ok)] ELSE status
    IN
    /\ m # NoMessage
    /\ retries' = IF Stored(m) /\ ~ok THEN [retries EXCEPT ![m] = @ + 1] ELSE retries
    /\ due' = due \ {m}
    /\ GoesOn(f, batch[f], now)
    /\ UNCHANGED <<created, relay>>

startRelay == ~relay /\ relay' = TRUE /\ UNCHANGED <<entryVars, isFlushing, batch, sending>>

\* Mutant: isFlushing is reset while a flush may be under way.
stopRelay_Resets ==
    relay /\ relay' = FALSE /\ isFlushing' = FALSE /\ UNCHANGED <<entryVars, batch, sending>>

\* A flush that is under way goes on to its end.
stopRelay == relay /\ relay' = FALSE /\ UNCHANGED <<entryVars, isFlushing, batch, sending>>

Next ==
    \/ \E m \in Message : enqueue(m) \/ remove(m) \/ BackoffOver(m)
    \/ \E f \in Flush : Tick(f) \/ \E ok \in BOOLEAN : SendEnds(f, ok)
    \/ cleanup \/ startRelay \/ stopRelay

Spec == Init /\ [][Next]_vars

-----------------------------------------------------------------------------
(* Properties.                                                             *)

TypeOK ==
    /\ status \in [Message -> {"none", "pending", "sending", "sent", "dead", "removed"}]
    /\ created \in [Message -> Nat] /\ retries \in [Message -> Nat]
    /\ due \subseteq Message
    /\ relay \in BOOLEAN /\ isFlushing \in BOOLEAN
    /\ batch \in [Flush -> SUBSET Message]
    /\ sending \in [Flush -> Message \cup {NoMessage}]

\* At most one flush is under way, across any stops and starts of the relay: no
\* entry is sent twice at the same time.
OneFlush == \A f, g \in Flush :
    sending[f] # NoMessage /\ sending[g] # NoMessage => f = g

\* An entry that was sent, or has died, is never taken up again.
SettledStays ==
    [][\A m \in Message : status[m] \in {"sent", "dead"}
          => status'[m] \in {status[m], "removed"}]_vars
=============================================================================
