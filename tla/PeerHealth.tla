----------------------------- MODULE PeerHealth -----------------------------
(***************************************************************************)
(* The circuit breaker PeerHealthManager keeps for a peer                  *)
(* (src/src/peer-health.ts), as the sends of A2AClient.sendMessage         *)
(* (src/src/client.ts) and the periodic Agent Card probes drive it.  The   *)
(* manager treats its peers independently, so there is one peer here.      *)
(*                                                                         *)
(* isAvailable, recordSuccess and recordFailure are synchronous; between   *)
(* the first and one of the others a send is under way, for as long as its *)
(* retries and transports take, and other sends and probes report.         *)
(***************************************************************************)
EXTENDS Integers, FiniteSets

CONSTANTS
    Sender,            \* concurrent calls of sendMessage
    FailureThreshold,  \* circuitBreaker.failureThreshold
    SoftThreshold,     \* circuitBreaker.softThreshold, 0 when not configured
    Gradual,           \* is recoveryRateConstant configured?
    Period,            \* CAPACITY_PERIOD, 10 in the code
    Allowed,           \* Math.round(desensitizedCapacity * CAPACITY_PERIOD)
    HealthChecks       \* resilience.healthCheck.enabled

ASSUME BreakerAssumption ==
    /\ FailureThreshold \in Nat \ {0} /\ SoftThreshold \in Nat
    /\ Period \in Nat \ {0} /\ Allowed \in 0..Period
    /\ Gradual \in BOOLEAN /\ HealthChecks \in BOOLEAN

VARIABLES
    circuit, failures, health,  \* state.circuit, consecutiveFailures, health
    cooled,     \* have resetTimeoutMs passed since lastFailureAt?
    ramp,       \* computeRecoveryCapacity in tenths; Period + 1: complete
    probing,    \* recoveringInFlight.has(peer)
    counter,    \* capacityCounters.get(peer) modulo the period
    admitted,   \* per sender, the circuit its send under way was let through
    peerUp      \* does the peer answer?

breakerVars == <<circuit, failures, health, cooled, ramp, probing, counter>>
vars == <<breakerVars, admitted, peerUp>>

Circuits == {"closed", "desensitized", "open", "recovering"}
Complete == Period + 1

Init ==
    /\ circuit = "closed" /\ failures = 0 /\ health = "unknown"
    /\ cooled = FALSE /\ ramp = 0 /\ probing = FALSE /\ counter = 0
    /\ admitted = [c \in Sender |-> "none"]
    /\ peerUp \in BOOLEAN

-----------------------------------------------------------------------------
(* recordSuccess and recordFailure.                                        *)

\* Mutant: the circuit is closed only from half-open, never from desensitized.
RecordSuccess_FromRecovering ==
    /\ circuit' = IF circuit = "desensitized" THEN circuit ELSE "closed"
    /\ failures' = 0 /\ health' = "healthy"
    /\ probing' = FALSE /\ counter' = 0 /\ ramp' = 0
    /\ UNCHANGED cooled

RecordSuccess ==
    /\ circuit' = "closed" /\ failures' = 0 /\ health' = "healthy"
    /\ probing' = FALSE /\ counter' = 0 /\ ramp' = 0
    /\ UNCHANGED cooled

\* Every comparison is with a threshold: counting on beyond it is no different.
Bump == IF failures < FailureThreshold THEN failures + 1 ELSE failures

\* Mutant: the hard threshold is missed by one.
AfterFailure_OffByOne(n) ==
    IF circuit \in {"open", "recovering"} \/ n > FailureThreshold THEN "open"
    ELSE IF circuit = "closed" /\ SoftThreshold > 0 /\ n >= SoftThreshold
    THEN "desensitized" ELSE circuit

\* The circuit after a failure, the count of failures now being n.
AfterFailure(n) ==
    IF circuit \in {"open", "recovering"} \/ n >= FailureThreshold THEN "open"
    ELSE IF circuit = "closed" /\ SoftThreshold > 0 /\ n >= SoftThreshold
    THEN "desensitized" ELSE circuit

\* A probe marks the peer unhealthy, a send only when it opens the circuit.
RecordFailure(byProbe) ==
    /\ failures' = Bump
    /\ circuit' = AfterFailure(failures')
    /\ health' = IF byProbe \/ (circuit' = "open" /\ circuit \in {"closed", "desensitized"})
                 THEN "unhealthy" ELSE health
    /\ cooled' = FALSE /\ probing' = FALSE /\ ramp' = 0
    /\ counter' = IF circuit' # circuit /\ "desensitized" \in {circuit, circuit'}
                  THEN 0 ELSE counter

-----------------------------------------------------------------------------
(* isAvailable, called at the start of a send.                             *)

\* checkCapacity: `allow` of every Period calls pass.  At capacity 0 or 1 the
\* counter stands still; below a twentieth it runs and still nothing passes.
Granted(allow) == counter < allow

Counted(allow) ==
    \/ counter' = (counter + 1) % Period
    \/ allow \in {0, Period} /\ UNCHANGED counter

Admit(c, as) == admitted' = [admitted EXCEPT ![c] = as]

AskClosed(c) ==
    /\ circuit = "closed"
    /\ Admit(c, "closed")
    /\ UNCHANGED breakerVars

AskDesensitized(c) ==
    /\ circuit = "desensitized"
    /\ Counted(Allowed)
    /\ IF Granted(Allowed) THEN Admit(c, "desensitized") ELSE UNCHANGED admitted
    /\ UNCHANGED <<circuit, failures, health, cooled, ramp, probing>>

\* Mutant: the cooldown is not waited for.
AskOpen_NoCooldown(c) ==
    /\ circuit = "open"
    /\ circuit' = "recovering"
    /\ ramp' = 0 /\ probing' = TRUE /\ counter' = 0
    /\ Admit(c, "recovering")
    /\ UNCHANGED <<failures, health, cooled>>

\* Mutant: the caller that starts the recovery is itself turned away.
AskOpen_TurnedAway(c) ==
    /\ circuit = "open" /\ cooled
    /\ circuit' = "recovering"
    /\ ramp' = 0 /\ probing' = TRUE /\ counter' = 0
    /\ UNCHANGED <<failures, health, cooled, admitted>>

AskOpen(c) ==
    /\ circuit = "open" /\ cooled
    /\ circuit' = "recovering"
    /\ ramp' = 0 /\ probing' = TRUE /\ counter' = 0
    /\ Admit(c, "recovering")
    /\ UNCHANGED <<failures, health, cooled>>

AskRamping(c) ==
    /\ circuit = "recovering" /\ Gradual /\ ramp # Complete
    /\ Counted(ramp)
    /\ IF Granted(ramp) THEN Admit(c, "recovering") ELSE UNCHANGED admitted
    /\ UNCHANGED <<circuit, failures, health, cooled, ramp, probing>>

AskRecovered(c) ==
    /\ circuit = "recovering" /\ Gradual /\ ramp = Complete
    /\ circuit' = "closed" /\ failures' = 0 /\ health' = "healthy"
    /\ probing' = FALSE /\ ramp' = 0
    /\ Admit(c, "recovering")
    /\ UNCHANGED <<cooled, counter>>

AskSingleProbe(c) ==
    /\ circuit = "recovering" /\ ~Gradual /\ ~probing
    /\ probing' = TRUE
    /\ Admit(c, "recovering")
    /\ UNCHANGED <<circuit, failures, health, cooled, ramp, counter>>

\* In the remaining cases isAvailable is false and changes nothing.
Ask(c) ==
    /\ admitted[c] = "none"
    /\ \/ AskClosed(c) \/ AskDesensitized(c) \/ AskOpen(c)
       \/ AskRamping(c) \/ AskRecovered(c) \/ AskSingleProbe(c)
    /\ UNCHANGED peerUp

-----------------------------------------------------------------------------

\* A send ends, retries and fallbacks included, and its result is recorded:
\* doSendMessage turns every error of a well-formed peer into a result.
SendEnds(c) ==
    /\ admitted[c] # "none"
    /\ Admit(c, "none")
    /\ IF peerUp THEN RecordSuccess ELSE RecordFailure(FALSE)
    /\ UNCHANGED peerUp

\* checkPeer: the probe has answered or timed out.
ProbeEnds ==
    /\ HealthChecks
    /\ IF peerUp THEN RecordSuccess ELSE RecordFailure(TRUE)
    /\ UNCHANGED <<admitted, peerUp>>

Cool ==
    /\ circuit = "open" /\ ~cooled
    /\ cooled' = TRUE
    /\ UNCHANGED <<circuit, failures, health, ramp, probing, counter, admitted, peerUp>>

RampUp ==
    /\ circuit = "recovering" /\ Gradual /\ ramp < Complete
    /\ ramp' = ramp + 1
    /\ UNCHANGED <<circuit, failures, health, cooled, probing, counter, admitted, peerUp>>

PeerFlips == peerUp' = ~peerUp /\ UNCHANGED <<breakerVars, admitted>>

Next ==
    \/ \E c \in Sender : Ask(c) \/ SendEnds(c)
    \/ ProbeEnds \/ Cool \/ RampUp \/ PeerFlips

Spec == Init /\ [][Next]_vars

-----------------------------------------------------------------------------
(* Properties.                                                             *)

TypeOK ==
    /\ circuit \in Circuits
    /\ failures \in 0..FailureThreshold
    /\ health \in {"unknown", "healthy", "unhealthy"}
    /\ cooled \in BOOLEAN /\ probing \in BOOLEAN /\ peerUp \in BOOLEAN
    /\ ramp \in 0..Complete
    /\ counter \in 0..(Period - 1)
    /\ admitted \in [Sender -> Circuits \cup {"none"}]

\* The circuit says how many failures came in a row, whatever mix of late
\* results, probes and recoveries led there: a closed circuit is below every
\* threshold, a desensitized one between the two, and an open or recovering
\* one has reached the hard threshold since the last success.
CircuitMatchesFailures ==
    /\ circuit = "closed" => /\ failures < FailureThreshold
                             /\ SoftThreshold > 0 => failures < SoftThreshold
    /\ circuit = "desensitized" => SoftThreshold > 0 /\ failures \in SoftThreshold..(FailureThreshold - 1)
    /\ circuit \in {"open", "recovering"} => failures >= FailureThreshold

\* The in-flight marker is set exactly while the circuit recovers: it is never
\* left behind to block the next recovery, nor lost to let a second probe in.
MarkerMatchesCircuit == probing <=> circuit = "recovering"

\* A peer whose circuit is not closed or desensitized is reported unhealthy.
OpenIsUnhealthy == circuit \in {"open", "recovering"} => health = "unhealthy"

\* Traffic to a peer that is down stops: while the circuit is open and has not
\* cooled down, no send is let through.
OpenBlocks ==
    [][circuit = "open" /\ ~cooled =>
          \A c \in Sender : admitted'[c] \in {admitted[c], "none"}]_vars

\* A peer that stays up is used without restriction again in the end.
RecoversWhenUp == <>[]peerUp => <>[](circuit = "closed")
=============================================================================
