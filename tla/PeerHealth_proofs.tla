-------------------------- MODULE PeerHealth_proofs --------------------------
(***************************************************************************)
(* Proofs about PeerHealth, for every set of senders, every pair of        *)
(* thresholds, both recovery modes, with and without health checks; and    *)
(* about what drives it: the routed sends of PeerRouting, and the sends    *)
(* with retries and fallback of OutboundSend.                              *)
(*                                                                         *)
(* The three facts about the circuit are inductive together: a recovering  *)
(* circuit opens again without counting, which is right only because it    *)
(* had reached the hard threshold before; and the probe that finds an      *)
(* open circuit has to find the peer marked already.                       *)
(*                                                                         *)
(* The last section is about the rules that pick the peer: what a stable   *)
(* sort leaves, and that the two of them pick the best match.              *)
(***************************************************************************)
EXTENDS PeerRouting, OutboundSend, FiniteSetTheorems, SequenceTheorems, TLAPS

IInv == TypeOK /\ CircuitMatchesFailures /\ MarkerMatchesCircuit /\ OpenIsUnhealthy

\* The count of failures stays in its range, and at the hard threshold.
LEMMA BumpFacts ==
    ASSUME failures \in 0..FailureThreshold
    PROVE  /\ Bump \in 0..FailureThreshold
           /\ Bump > 0
           /\ failures = FailureThreshold => Bump = FailureThreshold
           /\ failures < FailureThreshold => Bump = failures + 1
  BY BreakerAssumption DEF Bump

\* The counter of the round robin stays within its period.
LEMMA CountedType ==
    ASSUME counter \in 0..(Period - 1), NEW allow, Counted(allow)
    PROVE  counter' \in 0..(Period - 1)
<1>1. CASE counter' = (counter + 1) % Period
  BY <1>1, BreakerAssumption
<1>2. CASE UNCHANGED counter
  BY <1>2
<1> QED  BY <1>1, <1>2 DEF Counted

\* Zero is in the range of every counter.
LEMMA ZeroFacts ==
    0 \in 0..FailureThreshold /\ 0 \in 0..Complete /\ 0 \in 0..(Period - 1)
  BY BreakerAssumption DEF Complete

\* Admitting a send, or ending one, keeps `admitted` well typed.
LEMMA AdmitType ==
    ASSUME admitted \in [Sender -> Circuits \cup {"none"}],
           NEW c \in Sender, NEW as \in Circuits \cup {"none"}, Admit(c, as)
    PROVE  admitted' \in [Sender -> Circuits \cup {"none"}]
  BY DEF Admit

\* A closed circuit with no failure counted and no marker is in order.
LEMMA ClosedIsFine ==
    ASSUME circuit = "closed", failures = 0, probing = FALSE
    PROVE  CircuitMatchesFailures /\ MarkerMatchesCircuit /\ OpenIsUnhealthy
<1>1. CircuitMatchesFailures
  BY BreakerAssumption DEF CircuitMatchesFailures
<1>2. MarkerMatchesCircuit /\ OpenIsUnhealthy
  BY Zenon DEF MarkerMatchesCircuit, OpenIsUnhealthy
<1> QED  BY <1>1, <1>2

\* The breaker starts closed, with no failure counted.
LEMMA InitIInv == Init => IInv
<1> SUFFICES ASSUME Init PROVE IInv
  OBVIOUS
<1>1. TypeOK
  BY ZeroFacts DEF Init, TypeOK, Circuits
<1> QED  BY <1>1, ClosedIsFine DEF Init, IInv

\* recordSuccess keeps the invariant, whatever the circuit was.
LEMMA SuccessKeeps ==
    ASSUME IInv, RecordSuccess, peerUp' = peerUp,
           admitted' \in [Sender -> Circuits \cup {"none"}]
    PROVE  IInv'
<1>1. TypeOK'
  BY ZeroFacts DEF RecordSuccess, IInv, TypeOK, Circuits
<1>2. circuit' = "closed" /\ failures' = 0 /\ probing' = FALSE
  BY DEF RecordSuccess
<1>3. CircuitMatchesFailures'
  BY <1>2, BreakerAssumption DEF CircuitMatchesFailures
<1>4. MarkerMatchesCircuit' /\ OpenIsUnhealthy'
  BY <1>2, Zenon DEF MarkerMatchesCircuit, OpenIsUnhealthy
<1> QED  BY <1>1, <1>3, <1>4 DEF IInv

\* So does recordFailure, from a send or from a probe.
LEMMA FailureKeeps ==
    ASSUME IInv, NEW byProbe \in BOOLEAN, RecordFailure(byProbe), peerUp' = peerUp,
           admitted' \in [Sender -> Circuits \cup {"none"}]
    PROVE  IInv'
<1>1. /\ failures' \in 0..FailureThreshold /\ failures' > 0
      /\ failures = FailureThreshold => failures' = FailureThreshold
  BY BumpFacts DEF RecordFailure, IInv, TypeOK
<1>2. counter' \in 0..(Period - 1) /\ ramp' = 0 /\ ~probing' /\ cooled' = FALSE
  BY ZeroFacts DEF RecordFailure, IInv, TypeOK
<1>3. circuit' \in {"closed", "desensitized", "open"}
  BY DEF RecordFailure, AfterFailure, IInv, TypeOK, Circuits
<1>4. TypeOK'
  BY <1>1, <1>2, <1>3, ZeroFacts DEF RecordFailure, IInv, TypeOK, Circuits
<1>5. MarkerMatchesCircuit'
  BY <1>2, <1>3 DEF MarkerMatchesCircuit
<1>6. OpenIsUnhealthy'
  BY <1>3 DEF RecordFailure, IInv, TypeOK, Circuits, OpenIsUnhealthy
<1>7. CASE circuit \in {"open", "recovering"}
  <2>1. circuit' = "open" /\ failures' = FailureThreshold
    BY <1>1, <1>7, BreakerAssumption
    DEF RecordFailure, AfterFailure, IInv, TypeOK, CircuitMatchesFailures
  <2> QED
    BY <2>1, <1>4, <1>5, <1>6, BreakerAssumption DEF IInv, CircuitMatchesFailures
<1>8. CASE circuit \in {"closed", "desensitized"}
  <2>1. CASE failures' >= FailureThreshold
    BY <2>1, <1>4, <1>5, <1>6 DEF RecordFailure, AfterFailure, IInv, CircuitMatchesFailures
  <2>2. CASE failures' < FailureThreshold /\ circuit' = "desensitized"
    <3>1. SoftThreshold > 0 /\ failures' >= SoftThreshold
      BY <1>1, <1>8, <2>2, BumpFacts, BreakerAssumption
      DEF RecordFailure, AfterFailure, IInv, TypeOK, CircuitMatchesFailures, Bump
    <3> QED
      BY <3>1, <2>2, <1>1, <1>4, <1>5, <1>6, BreakerAssumption
      DEF IInv, CircuitMatchesFailures
  <2>3. CASE failures' < FailureThreshold /\ circuit' # "desensitized"
    <3>1. circuit' = "closed" /\ (SoftThreshold > 0 => failures' < SoftThreshold)
      BY <1>1, <1>8, <2>3, BreakerAssumption DEF RecordFailure, AfterFailure
    <3> QED
      BY <3>1, <2>3, <1>4, <1>5, <1>6 DEF IInv, CircuitMatchesFailures
  <2> QED
    BY <2>1, <2>2, <2>3, <1>1, BreakerAssumption
<1> QED  BY <1>7, <1>8 DEF IInv, TypeOK, Circuits

\* And so does isAvailable, in each of its branches.
LEMMA AskKeeps ==
    ASSUME IInv, NEW c \in Sender, Ask(c)
    PROVE  IInv'
<1> USE ZeroFacts, AdmitType
    DEF IInv, TypeOK, CircuitMatchesFailures, MarkerMatchesCircuit, OpenIsUnhealthy,
        Circuits, Complete, Admit
<1>1. CASE AskClosed(c)        BY <1>1 DEF Ask, AskClosed, breakerVars
<1>2. CASE AskDesensitized(c)  BY <1>2, CountedType DEF Ask, AskDesensitized
<1>3. CASE AskOpen(c)          BY <1>3 DEF Ask, AskOpen
<1>4. CASE AskRamping(c)       BY <1>4, CountedType DEF Ask, AskRamping
<1>5. CASE AskRecovered(c)
  <2>1. TypeOK'
    BY <1>5 DEF Ask, AskRecovered
  <2>2. circuit' = "closed" /\ failures' = 0 /\ probing' = FALSE
    BY <1>5 DEF AskRecovered
  <2>3. CircuitMatchesFailures'
    BY <2>2, BreakerAssumption
  <2>4. MarkerMatchesCircuit' /\ OpenIsUnhealthy'
    BY <2>2, Zenon
  <2> QED  BY <2>1, <2>3, <2>4
<1>6. CASE AskSingleProbe(c)   BY <1>6 DEF Ask, AskSingleProbe
<1> QED  BY <1>1, <1>2, <1>3, <1>4, <1>5, <1>6 DEF Ask

\* Every step keeps the invariant.
LEMMA NextIInv == IInv /\ [Next]_vars => IInv'
<1> SUFFICES ASSUME IInv, [Next]_vars PROVE IInv'
  OBVIOUS
<1>1. ASSUME NEW c \in Sender, Ask(c) PROVE IInv'
  BY <1>1, AskKeeps
<1>2. ASSUME NEW c \in Sender, SendEnds(c) PROVE IInv'
  <2>1. admitted' \in [Sender -> Circuits \cup {"none"}]
    BY <1>2, AdmitType DEF SendEnds, IInv, TypeOK
  <2> QED  BY <1>2, <2>1, SuccessKeeps, FailureKeeps DEF SendEnds
<1>3. CASE ProbeEnds
  <2>1. peerUp' = peerUp /\ admitted' \in [Sender -> Circuits \cup {"none"}]
    BY <1>3 DEF ProbeEnds, IInv, TypeOK
  <2> QED  BY <1>3, <2>1, SuccessKeeps, FailureKeeps DEF ProbeEnds
<1>4. CASE Cool
  BY <1>4 DEF Cool, IInv, TypeOK, CircuitMatchesFailures, MarkerMatchesCircuit,
              OpenIsUnhealthy
<1>5. CASE RampUp
  BY <1>5, BreakerAssumption
  DEF RampUp, IInv, TypeOK, CircuitMatchesFailures, MarkerMatchesCircuit,
      OpenIsUnhealthy, Complete
<1>6. CASE PeerFlips
  BY <1>6 DEF PeerFlips, breakerVars, IInv, TypeOK, CircuitMatchesFailures,
              MarkerMatchesCircuit, OpenIsUnhealthy
<1>7. CASE UNCHANGED vars
  BY <1>7 DEF vars, breakerVars, IInv, TypeOK, CircuitMatchesFailures,
              MarkerMatchesCircuit, OpenIsUnhealthy
<1> QED  BY <1>1, <1>2, <1>3, <1>4, <1>5, <1>6, <1>7 DEF Next

\* IInv holds in every reachable state.
LEMMA InductiveInvariant == Spec => []IInv
  BY InitIInv, NextIInv, PTL DEF Spec

\* Every variable of the breaker has its type.
THEOREM TypeCorrect == Spec => []TypeOK
<1>1. IInv => TypeOK  BY DEF IInv
<1> QED  BY <1>1, InductiveInvariant, PTL

\* Whatever late results, probes and recoveries come in, the circuit agrees
\* with the number of failures in a row.
THEOREM CircuitCounts == Spec => []CircuitMatchesFailures
<1>1. IInv => CircuitMatchesFailures  BY DEF IInv
<1> QED  BY <1>1, InductiveInvariant, PTL

\* The in-flight marker is set exactly while the circuit recovers, so that the
\* branch of isAvailable that would set it a second time is never reached.
THEOREM MarkerExact == Spec => []MarkerMatchesCircuit
<1>1. IInv => MarkerMatchesCircuit  BY DEF IInv
<1> QED  BY <1>1, InductiveInvariant, PTL

\* No peer with an open or recovering circuit is reported healthy.
THEOREM OpenReported == Spec => []OpenIsUnhealthy
<1>1. IInv => OpenIsUnhealthy  BY DEF IInv
<1> QED  BY <1>1, InductiveInvariant, PTL

\* An open circuit that has not cooled down lets nothing through.
THEOREM NothingPassesOpen == Spec => OpenBlocks
<1> DEFINE Blocked == circuit = "open" /\ ~cooled =>
          \A c \in Sender : admitted'[c] \in {admitted[c], "none"}
<1>1. ASSUME TypeOK, [Next]_vars, circuit = "open", ~cooled
      PROVE  \A c \in Sender : admitted'[c] \in {admitted[c], "none"}
  <2>1. ASSUME NEW d \in Sender, Ask(d) PROVE FALSE
    BY <1>1, <2>1
    DEF Ask, AskClosed, AskDesensitized, AskOpen, AskRamping, AskRecovered, AskSingleProbe
  <2>2. ASSUME NEW d \in Sender, SendEnds(d)
        PROVE  admitted' = [admitted EXCEPT ![d] = "none"]
    BY <2>2 DEF SendEnds, Admit
  <2>3. CASE UNCHANGED admitted
    BY <2>3
  <2>4. ASSUME ProbeEnds \/ Cool \/ RampUp \/ PeerFlips \/ UNCHANGED vars
        PROVE  UNCHANGED admitted
    BY <2>4 DEF ProbeEnds, Cool, RampUp, PeerFlips, vars
  <2> QED  BY <1>1, <2>1, <2>2, <2>3, <2>4 DEF Next, TypeOK
<1>2. TypeOK /\ [Next]_vars => [Blocked]_vars
  BY <1>1
<1> QED  BY <1>2, TypeCorrect, PTL DEF Spec, OpenBlocks

-----------------------------------------------------------------------------
(* Sends that are routed first.                                            *)

\* Every step of PeerRouting is a step of the breaker, or none to it.
LEMMA RoutedStep == [RoutedNext]_routedVars => [Next]_vars
<1> SUFFICES ASSUME RoutedNext PROVE [Next]_vars
  BY DEF routedVars
<1>1. ASSUME NEW c \in Sender, NEW p, Send(c, p) PROVE [Next]_vars
  BY <1>1 DEF Send, Next
<1>2. ASSUME NEW c \in Sender, Ends(c) PROVE [Next]_vars
  BY <1>2 DEF Ends, Next
<1>3. ASSUME NEW c \in Sender, NEW m \in Message, a2a_send(c, m) PROVE [Next]_vars
  BY <1>3, <1>1 DEF a2a_send
<1>4. ASSUME NEW c \in Sender, NEW p \in Effective, a2a_send_file(c, p) PROVE [Next]_vars
  BY <1>4 DEF a2a_send_file
<1>5. ASSUME NEW c \in Sender, UriRefused(c) \/ UriChecked(c) PROVE [Next]_vars
  BY <1>5, <1>1 DEF UriRefused, UriChecked
<1>6. CASE Probe \/ Passing(Cool) \/ Passing(RampUp) \/ Passing(PeerFlips) \/ Surroundings
  BY <1>6 DEF Probe, Passing, Surroundings, Next
<1> QED  BY <1>2, <1>3, <1>4, <1>5, <1>6 DEF RoutedNext

\* Whatever the rules, the skills and the discovered peers are, routing and
\* sending drive the breaker of the monitored peer as PeerHealth has it.
THEOREM RoutingDrivesBreaker == RoutedSpec => Spec
<1>1. RoutedInit => Init  BY DEF RoutedInit
<1> QED  BY <1>1, RoutedStep, PTL DEF RoutedSpec, Spec

\* Hence its circuit counts, reports and blocks as shown above.
THEOREM RoutedBreaker ==
    RoutedSpec => []CircuitMatchesFailures /\ []OpenIsUnhealthy /\ OpenBlocks
  BY RoutingDrivesBreaker, CircuitCounts, OpenReported, NothingPassesOpen, PTL
-----------------------------------------------------------------------------
(* Sends with retries and fallback.  OutboundSend drives the same breaker; *)
(* its result does not depend on the peer being up alone, which is why it  *)
(* is no refinement of Spec, but keeps what every result keeps.            *)

SendTypes ==
    /\ stage \in [Sender -> {"idle", "resolving", "sending", "single", "waiting"}]
    /\ card \in [Sender -> SUBSET Transport]
    /\ todo \in [Sender -> Seq(Transport)]
    /\ attempt \in [Sender -> 0..MaxRetries]
    /\ outcome \in [Sender -> {"none", "ok"} \cup Error]
    /\ stats \in [Transport -> {"untried", "working", "failing"}]
    /\ works \in SUBSET Transport /\ authorized \in BOOLEAN /\ steady \in SUBSET Sender

\* What an attempt has left to try covers what works, as long as it is steady.
Covered(c) ==
    /\ stage[c] = "waiting" => attempt[c] < MaxRetries
    /\ stage[c] = "single" => ~(Cardinality(card[c]) > 1)
    /\ stage[c] = "sending" => todo[c] # <<>>
    /\ stage[c] = "sending" /\ c \in steady =>
         \A t \in card[c] \cap works : \E i \in 1..Len(todo[c]) : todo[c][i] = t
    /\ outcome[c] = "connection" /\ stage[c] \in {"idle", "waiting"}
         /\ c \in steady /\ Cardinality(card[c]) > 1
       => card[c] \cap works = {}

SInv ==
    /\ IInv /\ SendTypes /\ ProbeHasOwner
    /\ steady # {} => peerUp
    /\ \A c \in Sender : Covered(c)

\* An order of the transports of a card, statistics or not, has all of them.
LEMMA OrdersCover ==
    ASSUME NEW T \in SUBSET Transport, NEW o \in Orders(T)
    PROVE  /\ o \in Seq(Transport)
           /\ Cardinality(T) > 0 => o # <<>>
           /\ \A t \in T : \E i \in 1..Len(o) : o[i] = t
<1>1. IsFiniteSet(T) /\ Cardinality(T) \in Nat
  <2>1. IsFiniteSet(1..Transports) /\ T \in SUBSET (1..Transports)
    BY SendAssumption, FS_Interval DEF Transport
  <2>2. IsFiniteSet(T)
    BY <2>1, FS_Subset
  <2> QED  BY <2>2, FS_CardinalityType
<1>3. PICK R \in SUBSET T : o \in SetToSeqs(R)
  BY DEF Orders, SetToAllKPermutations
<1>4. IsFiniteSet(R) /\ Cardinality(R) \in Nat
  BY <1>1, FS_Subset, FS_CardinalityType
<1>6. /\ o \in [1..Cardinality(R) -> R]
      /\ \A i, j \in 1..Cardinality(R) : i # j => o[i] # o[j]
  BY <1>3 DEF SetToSeqs
<1>7. o \in Seq(Transport) /\ Len(o) = Cardinality(R)
  BY <1>4, <1>6
<1>8. Cardinality(R) = Cardinality(T)
  BY <1>7 DEF Orders
<1>9. R = T
  BY <1>1, <1>8, FS_Subset
<1>10. o \in Injection(1..Cardinality(T), T)
  BY <1>6, <1>9 DEF Injection, IsInjective
<1>11. Cardinality(1..Cardinality(T)) = Cardinality(T)
  BY <1>1, FS_Interval
<1>12. o \in Surjection(1..Cardinality(T), T)
  BY <1>1, <1>10, <1>11, FS_Injection
<1>13. \A t \in T : \E i \in 1..Len(o) : o[i] = t
  BY <1>7, <1>8, <1>12 DEF Surjection
<1> QED  BY <1>1, <1>7, <1>8, <1>13

\* A send that a step leaves alone stays covered.
LEMMA OthersCovered ==
    ASSUME NEW d, Covered(d), UNCHANGED <<works, authorized>>,
           stage'[d] = stage[d], card'[d] = card[d], todo'[d] = todo[d],
           attempt'[d] = attempt[d], outcome'[d] = outcome[d],
           d \in steady' => d \in steady
    PROVE  Covered(d)'
  BY DEF Covered

\* With a result the marker is cleared.
LEMMA ReturnsFacts ==
    ASSUME SInv, NEW c \in Sender, NEW e \in Error \cup {"ok"}, Returns(c, e)
    PROVE  /\ IInv' /\ ProbeHasOwner'
           /\ stage' = [stage EXCEPT ![c] = "idle"]
           /\ outcome' = [outcome EXCEPT ![c] = e]
           /\ UNCHANGED <<peerUp, card, attempt, works, authorized, steady>>
<1>1. /\ stage' = [stage EXCEPT ![c] = "idle"]
      /\ outcome' = [outcome EXCEPT ![c] = e]
      /\ UNCHANGED <<peerUp, card, attempt, works, authorized, steady>>
  BY DEF Returns, env
<1>2. Admit(c, "none") /\ IF e = "ok" THEN RecordSuccess ELSE RecordFailure(FALSE)
  BY DEF Returns
<1>3. admitted' \in [Sender -> Circuits \cup {"none"}]
  BY <1>2, AdmitType DEF SInv, IInv, TypeOK
<1>4. IInv'
  BY <1>1, <1>2, <1>3, SuccessKeeps, FailureKeeps DEF SInv
<1>5. ~probing'
  BY <1>2 DEF RecordSuccess, RecordFailure
<1> QED  BY <1>1, <1>4, <1>5 DEF ProbeHasOwner

\* A failed attempt waits for the next one, if there is one, or returns.
LEMMA AttemptFailsFacts ==
    ASSUME SInv, NEW c \in Sender, NEW e \in Error, AttemptFails(c, e)
    PROVE  /\ IInv' /\ ProbeHasOwner'
           /\ \E s \in {"idle", "waiting"} :
                /\ stage' = [stage EXCEPT ![c] = s]
                /\ s = "waiting" => attempt[c] < MaxRetries
           /\ outcome' = [outcome EXCEPT ![c] = e]
           /\ UNCHANGED <<peerUp, card, attempt, works, authorized, steady>>
<1>1. CASE attempt[c] < MaxRetries
  <2>1. /\ stage' = [stage EXCEPT ![c] = "waiting"]
        /\ outcome' = [outcome EXCEPT ![c] = e]
        /\ UNCHANGED <<vars, card, attempt, works, authorized, steady>>
    BY <1>1 DEF AttemptFails, vars, breakerVars, env
  <2>2. IInv'
    BY <2>1, NextIInv DEF SInv
  <2>3. UNCHANGED <<probing, admitted, peerUp>>
    BY <2>1 DEF vars, breakerVars
  <2>4. ProbeHasOwner'
    BY <2>1, <2>3 DEF ProbeHasOwner, SInv, SendTypes
  <2> QED  BY <1>1, <2>1, <2>2, <2>3, <2>4
<1>2. CASE ~(attempt[c] < MaxRetries)
  <2>1. Returns(c, e)
    BY <1>2 DEF AttemptFails
  <2> QED  BY <2>1, ReturnsFacts
<1> QED  BY <1>1, <1>2

\* The breaker lets a send through, which then is on its way, or turns it away.
LEMMA SendAsks ==
    ASSUME SInv, NEW c \in Sender, SendBegins(c)
    PROVE  SInv'
<1>1. Ask(c)
  BY DEF SendBegins
<1>2. /\ stage[c] = "idle" /\ admitted[c] = "none"
      /\ stage' = [stage EXCEPT ![c] = IF admitted'[c] = "none" THEN "idle" ELSE "resolving"]
      /\ card' = [card EXCEPT ![c] = {}] /\ todo' = [todo EXCEPT ![c] = <<>>]
      /\ attempt' = [attempt EXCEPT ![c] = 0]
      /\ outcome' = [outcome EXCEPT ![c] = "none"] /\ steady' = steady \ {c}
      /\ UNCHANGED <<peerUp, stats, works, authorized>>
  BY <1>1 DEF SendBegins, Ask, env
<1>3. IInv'
  BY <1>1, AskKeeps DEF SInv
<1>4. <<>> \in Seq(Transport) /\ 0 \in 0..MaxRetries
  BY SendAssumption
<1>5. SendTypes'
  BY <1>2, <1>4 DEF SInv, SendTypes
<1>6. ProbeHasOwner'
  <2>1. CASE UNCHANGED probing /\ \A d \in Sender \ {c} : admitted'[d] = admitted[d]
    BY <1>2, <2>1 DEF SInv, SendTypes, ProbeHasOwner
  <2>2. CASE admitted' = [admitted EXCEPT ![c] = "recovering"]
    BY <1>2, <2>2 DEF SInv, IInv, TypeOK, SendTypes, ProbeHasOwner
  <2>3. CASE AskClosed(c)
    BY <2>3, <2>1 DEF AskClosed, Admit, breakerVars, SInv, IInv, TypeOK
  <2>4. CASE AskDesensitized(c)
    BY <2>4, <2>1 DEF AskDesensitized, Admit, SInv, IInv, TypeOK
  <2>5. CASE AskRamping(c) \/ AskRecovered(c)
    BY <2>5 DEF AskRamping, AskRecovered, ProbeHasOwner
  <2>6. CASE AskOpen(c) \/ AskSingleProbe(c)
    BY <2>6, <2>2 DEF AskOpen, AskSingleProbe, Admit
  <2> QED  BY <1>1, <2>3, <2>4, <2>5, <2>6 DEF Ask
<1>7. ASSUME NEW d \in Sender PROVE Covered(d)'
  <2>1. CASE d = c
    BY <1>2, <2>1 DEF Covered, SInv, SendTypes
  <2>2. CASE d # c
    BY <1>2, <2>2, OthersCovered DEF SInv, SendTypes
  <2> QED  BY <2>1, <2>2
<1> QED  BY <1>2, <1>3, <1>5, <1>6, <1>7 DEF SInv

\* doSendMessage is called again.
LEMMA SendWaits ==
    ASSUME SInv, NEW c \in Sender, WaitOver(c)
    PROVE  SInv'
<1>1. /\ stage[c] = "waiting"
      /\ attempt' = [attempt EXCEPT ![c] = attempt[c] + 1]
      /\ stage' = [stage EXCEPT ![c] = "resolving"]
      /\ UNCHANGED <<vars, card, todo, outcome, stats, works, authorized, steady>>
  BY DEF WaitOver, Again, env, vars, breakerVars
<1>2. IInv' /\ UNCHANGED <<probing, admitted, peerUp>>
  BY <1>1, NextIInv DEF SInv, vars, breakerVars
<1>3. attempt[c] \in 0..MaxRetries /\ attempt[c] < MaxRetries
  BY <1>1 DEF SInv, SendTypes, Covered
<1>4. attempt[c] + 1 \in 0..MaxRetries
  BY SendAssumption, <1>3
<1>5. SendTypes'
  BY <1>1, <1>4 DEF SInv, SendTypes
<1>6. ProbeHasOwner'
  BY <1>1, <1>2 DEF SInv, SendTypes, ProbeHasOwner
<1>7. ASSUME NEW d \in Sender PROVE Covered(d)'
  <2>1. CASE d = c
    BY <1>1, <2>1 DEF Covered, SInv, SendTypes
  <2>2. CASE d # c
    BY <1>1, <2>2, OthersCovered DEF SInv, SendTypes
  <2> QED  BY <2>1, <2>2
<1> QED  BY <1>1, <1>2, <1>5, <1>6, <1>7 DEF SInv

\* The card is resolved: a list of several transports has all of them.
LEMMA SendResolved ==
    ASSUME SInv, NEW c \in Sender, Resolved(c)
    PROVE  SInv'
<1>1. PICK T \in SUBSET Transport :
        /\ card' = [card EXCEPT ![c] = T]
        /\ \E o \in IF Cardinality(T) > 1 THEN Orders(T) ELSE {<<>>} :
             /\ todo' = [todo EXCEPT ![c] = o]
             /\ stage' = [stage EXCEPT ![c] = IF o = <<>> THEN "single" ELSE "sending"]
  BY DEF Resolved
<1>2. PICK o \in IF Cardinality(T) > 1 THEN Orders(T) ELSE {<<>>} :
        /\ todo' = [todo EXCEPT ![c] = o]
        /\ stage' = [stage EXCEPT ![c] = IF o = <<>> THEN "single" ELSE "sending"]
  BY <1>1
<1>3. /\ stage[c] = "resolving"
      /\ steady' = IF peerUp THEN steady \cup {c} ELSE steady \ {c}
      /\ UNCHANGED <<vars, attempt, outcome, stats, works, authorized>>
  BY DEF Resolved, env, vars, breakerVars
<1>4. IInv' /\ UNCHANGED <<probing, admitted, peerUp>>
  BY <1>3, NextIInv DEF SInv, vars, breakerVars
<1>5. /\ o \in Seq(Transport)
      /\ Cardinality(T) > 1 => o # <<>>
      /\ o # <<>> => \A t \in T : \E i \in 1..Len(o) : o[i] = t
  <2>1. CASE Cardinality(T) > 1
    <3>1. IsFiniteSet(1..Transports) /\ T \in SUBSET (1..Transports)
      BY SendAssumption, FS_Interval DEF Transport
    <3>2. IsFiniteSet(T)
      BY <3>1, FS_Subset
    <3>3. Cardinality(T) \in Nat
      BY <3>2, FS_CardinalityType
    <3>4. Cardinality(T) > 0
      BY <2>1, <3>3
    <3> QED  BY <2>1, <3>4, <1>2, OrdersCover
  <2>2. CASE ~(Cardinality(T) > 1)
    BY <2>2
  <2> QED  BY <2>1, <2>2
<1>6. SendTypes'
  BY <1>1, <1>2, <1>3, <1>5 DEF SInv, SendTypes
<1>7. ProbeHasOwner'
  BY <1>2, <1>4 DEF SInv, SendTypes, ProbeHasOwner
<1>8. steady' # {} => peerUp'
  BY <1>3, <1>4 DEF SInv
<1>9. ASSUME NEW d \in Sender PROVE Covered(d)'
  <2>1. CASE d = c
    <3>1. card'[c] = T /\ todo'[c] = o /\ stage'[c] = IF o = <<>> THEN "single" ELSE "sending"
      BY <1>1, <1>2 DEF SInv, SendTypes
    <3> QED  BY <2>1, <3>1, <1>5 DEF Covered
  <2>2. CASE d # c
    BY <1>1, <1>2, <1>3, <2>2, OthersCovered DEF SInv, SendTypes
  <2> QED  BY <2>1, <2>2
<1> QED  BY <1>4, <1>6, <1>7, <1>8, <1>9 DEF SInv

\* The SDK has sent to a peer without an alternative.
LEMMA SendSingle ==
    ASSUME SInv, NEW c \in Sender, NEW e \in Error \cup {"ok"}, SingleEnds(c, e)
    PROVE  SInv'
<1>1. stage[c] = "single" /\ UNCHANGED <<todo, stats>>
  BY DEF SingleEnds
<1>2. /\ IInv' /\ ProbeHasOwner'
      /\ \E s \in {"idle", "waiting"} :
           /\ stage' = [stage EXCEPT ![c] = s]
           /\ s = "waiting" => attempt[c] < MaxRetries
      /\ outcome' = [outcome EXCEPT ![c] = e]
      /\ UNCHANGED <<peerUp, card, attempt, works, authorized, steady>>
  <2>1. CASE Returns(c, e)
    BY <2>1, ReturnsFacts
  <2>2. CASE e \in Error /\ AttemptFails(c, e)
    BY <2>2, AttemptFailsFacts
  <2> QED  BY <2>1, <2>2 DEF SingleEnds
<1>3. SendTypes'
  BY <1>1, <1>2 DEF SInv, SendTypes
<1>4. ASSUME NEW d \in Sender PROVE Covered(d)'
  <2>1. CASE d = c
    BY <1>1, <1>2, <2>1 DEF Covered, SInv, SendTypes
  <2>2. CASE d # c
    BY <1>1, <1>2, <2>2, OthersCovered DEF SInv, SendTypes
  <2> QED  BY <2>1, <2>2
<1> QED  BY <1>2, <1>3, <1>4 DEF SInv

\* Without its head a list of two or more has something left.
LEMMA TailHasMore ==
    ASSUME NEW T, NEW l \in Seq(T), Len(l) > 1
    PROVE  Tail(l) # <<>>
<1>1. PICK n \in Nat : n = Len(l)
  OBVIOUS
<1>2. Len(Tail(l)) = n - 1 /\ n - 1 # 0
  BY <1>1, SMTT(30)
<1>3. Len(<<>>) = 0
  OBVIOUS
<1> QED  BY <1>2, <1>3

\* What the rest of a list has left, its head having turned out not to work.
LEMMA RestCovers ==
    ASSUME NEW l \in Seq(Transport), l # <<>>, NEW T, Head(l) \notin T,
           \A t \in T : \E i \in 1..Len(l) : l[i] = t
    PROVE  /\ Tail(l) \in Seq(Transport)
           /\ Len(l) > 1 => Tail(l) # <<>>
           /\ \A t \in T : \E i \in 1..Len(Tail(l)) : Tail(l)[i] = t
           /\ ~(Len(l) > 1) => T = {}
<1>1. /\ Len(l) \in Nat /\ Len(l) > 0 /\ Head(l) = l[1]
      /\ Tail(l) \in Seq(Transport) /\ Len(Tail(l)) = Len(l) - 1
      /\ \A i \in 1..(Len(l) - 1) : Tail(l)[i] = l[i + 1]
  OBVIOUS
<1>2. ASSUME NEW t \in T PROVE \E i \in 1..(Len(l) - 1) : l[i + 1] = t
  <2>1. PICK i \in 1..Len(l) : l[i] = t
    OBVIOUS
  <2>2. i # 1
    BY <1>1, <2>1
  <2>3. i - 1 \in 1..(Len(l) - 1) /\ (i - 1) + 1 = i
    BY <1>1, <2>2
  <2> QED  BY <2>1, <2>3
<1>3. ASSUME NEW t \in T PROVE \E i \in 1..Len(Tail(l)) : Tail(l)[i] = t
  BY <1>1, <1>2
<1>4. Len(l) > 1 => Tail(l) # <<>>
  BY TailHasMore
<1>5. ~(Len(l) > 1) => T = {}
  BY <1>1, <1>2
<1> QED  BY <1>1, <1>3, <1>4, <1>5

\* A transport of the list has been tried.
LEMMA SendTried ==
    ASSUME SInv, NEW c \in Sender, Tried(c)
    PROVE  SInv'
<1> DEFINE t == Head(todo[c])
<1>1. stage[c] = "sending" /\ todo' = [todo EXCEPT ![c] = Tail(todo[c])]
  BY DEF Tried
<1>2. todo[c] \in Seq(Transport) /\ todo[c] # <<>>
  BY <1>1 DEF SInv, SendTypes, Covered
<1>3. t \in Transport /\ Tail(todo[c]) \in Seq(Transport)
  BY <1>2
<1>4. PICK e \in Answers(t) :
        /\ Record(t, e = "ok")
        /\ IF e = "ok" THEN Returns(c, e)
           ELSE IF IsRetryable(e) /\ Len(todo[c]) > 1
                THEN UNCHANGED <<vars, stage, card, attempt, outcome, works, authorized, steady>>
                ELSE AttemptFails(c, e)
  BY DEF Tried, env, vars, breakerVars
<1>5. /\ e \in Error \cup {"ok"}
      /\ c \in steady /\ e = "connection" => t \notin works
  BY <1>4 DEF Answers, Error, SInv
<1>6. stats' \in [Transport -> {"untried", "working", "failing"}]
  BY <1>3, <1>4 DEF Record, SInv, SendTypes
<1>7. c \in steady =>
        \A u \in card[c] \cap works : \E i \in 1..Len(todo[c]) : todo[c][i] = u
  BY <1>1 DEF SInv, Covered
<1>8. CASE e = "ok"
  <2>1. /\ IInv' /\ ProbeHasOwner'
        /\ stage' = [stage EXCEPT ![c] = "idle"]
        /\ outcome' = [outcome EXCEPT ![c] = "ok"]
        /\ UNCHANGED <<peerUp, card, attempt, works, authorized, steady>>
    BY <1>4, <1>8, ReturnsFacts
  <2>2. SendTypes'
    BY <1>1, <1>3, <1>6, <2>1 DEF SInv, SendTypes
  <2>3. ASSUME NEW d \in Sender PROVE Covered(d)'
    <3>1. CASE d = c
      BY <2>1, <3>1 DEF Covered, SInv, SendTypes
    <3>2. CASE d # c
      BY <1>1, <2>1, <3>2, OthersCovered DEF SInv, SendTypes
    <3> QED  BY <3>1, <3>2
  <2> QED  BY <2>1, <2>2, <2>3 DEF SInv
<1>9. CASE e = "connection" /\ Len(todo[c]) > 1
  <2>1. UNCHANGED <<vars, stage, card, attempt, outcome, works, authorized, steady>>
    BY <1>4, <1>9 DEF IsRetryable
  <2>2. IInv' /\ UNCHANGED <<probing, admitted, peerUp>>
    BY <2>1, NextIInv DEF SInv, vars, breakerVars
  <2>3. ProbeHasOwner'
    BY <2>1, <2>2 DEF SInv, ProbeHasOwner
  <2>4. SendTypes'
    BY <1>1, <1>3, <1>6, <2>1 DEF SInv, SendTypes
  <2>5. Tail(todo[c]) # <<>>
    BY <1>2, <1>9, TailHasMore
  <2>6. ASSUME c \in steady
        PROVE  \A u \in card[c] \cap works :
                 \E i \in 1..Len(Tail(todo[c])) : Tail(todo[c])[i] = u
    <3>1. t \notin card[c] \cap works
      BY <1>5, <1>9, <2>6
    <3> QED  BY <1>2, <1>7, <2>6, <3>1, RestCovers
  <2>7. ASSUME NEW d \in Sender PROVE Covered(d)'
    <3>1. CASE d = c
      <4>1. todo'[c] = Tail(todo[c])
        BY <1>1 DEF SInv, SendTypes
      <4> QED  BY <1>1, <2>1, <2>5, <2>6, <3>1, <4>1 DEF Covered
    <3>2. CASE d # c
      BY <1>1, <2>1, <3>2, OthersCovered DEF SInv, SendTypes
    <3> QED  BY <3>1, <3>2
  <2> QED  BY <2>1, <2>2, <2>3, <2>4, <2>7 DEF SInv
<1>10. CASE e # "ok" /\ ~(e = "connection" /\ Len(todo[c]) > 1)
  <2>1. /\ IInv' /\ ProbeHasOwner'
        /\ \E s \in {"idle", "waiting"} :
             /\ stage' = [stage EXCEPT ![c] = s]
             /\ s = "waiting" => attempt[c] < MaxRetries
        /\ outcome' = [outcome EXCEPT ![c] = e]
        /\ UNCHANGED <<peerUp, card, attempt, works, authorized, steady>>
    BY <1>4, <1>5, <1>10, AttemptFailsFacts DEF IsRetryable
  <2>2. SendTypes'
    BY <1>1, <1>3, <1>5, <1>6, <2>1 DEF SInv, SendTypes
  <2>3. ASSUME c \in steady, e = "connection" PROVE card[c] \cap works = {}
    <3>1. t \notin card[c] \cap works /\ ~(Len(todo[c]) > 1)
      BY <1>5, <1>10, <2>3
    <3> QED  BY <1>2, <1>7, <2>3, <3>1, RestCovers
  <2>4. ASSUME NEW d \in Sender PROVE Covered(d)'
    <3>1. CASE d = c
      <4>1. outcome'[c] = e
        BY <2>1 DEF SInv, SendTypes
      <4> QED  BY <2>1, <2>3, <3>1, <4>1 DEF Covered, SInv, SendTypes
    <3>2. CASE d # c
      BY <1>1, <2>1, <3>2, OthersCovered DEF SInv, SendTypes
    <3> QED  BY <3>1, <3>2
  <2> QED  BY <2>1, <2>2, <2>4 DEF SInv
<1> QED  BY <1>8, <1>9, <1>10

\* The timers and the probes leave the owner of the marker alone, or clear it.
LEMMA SendHealth ==
    ASSUME SInv, Health \/ PeerTurns \/ UNCHANGED outboundVars
    PROVE  SInv'
<1>1. UNCHANGED <<stage, card, todo, attempt, outcome, stats, works, authorized>>
  BY DEF Health, PeerTurns, outboundVars, attemptVars, env
<1>2. [Next]_vars
  BY DEF Health, PeerTurns, outboundVars, Next, vars, breakerVars
<1>3. IInv'
  BY <1>2, NextIInv DEF SInv
<1>4. UNCHANGED admitted /\ (UNCHANGED probing \/ ~probing')
  BY DEF Health, PeerTurns, outboundVars, vars, breakerVars,
         PeerFlips, Cool, RampUp, ProbeEnds, RecordSuccess, RecordFailure
<1>5. ProbeHasOwner'
  BY <1>1, <1>4 DEF SInv, ProbeHasOwner
<1>6. (steady' = {} \/ UNCHANGED <<steady, peerUp>>) /\ steady' \subseteq steady
  BY DEF Health, PeerTurns, outboundVars, vars, Cool, RampUp, ProbeEnds
<1>7. SendTypes'
  BY <1>1, <1>6 DEF SInv, SendTypes
<1>8. ASSUME NEW d \in Sender PROVE Covered(d)'
  BY <1>1, <1>6, OthersCovered DEF SInv
<1> QED  BY <1>3, <1>5, <1>6, <1>7, <1>8 DEF SInv

\* Every step of a send keeps the invariant.
LEMMA SendKept ==
    ASSUME SInv, [SendNext]_outboundVars
    PROVE  SInv'
<1>1. ASSUME NEW c \in Sender, Progress(c) PROVE SInv'
  BY <1>1, SendResolved, SendTried, SendWaits, SendSingle DEF Progress
<1> QED  BY <1>1, SendAsks, SendHealth DEF SendNext

\* It holds before any send.
LEMMA SendStarts == ASSUME SendInit PROVE SInv
<1>1. Init
  BY DEF SendInit
<1>2. IInv
  BY <1>1, InitIInv
<1>3. <<>> \in Seq(Transport) /\ 0 \in 0..MaxRetries
  BY SendAssumption
<1>4. SendTypes
  BY <1>3 DEF SendInit, SendTypes
<1>5. ProbeHasOwner
  BY <1>1 DEF Init, ProbeHasOwner
<1>6. ASSUME NEW d \in Sender PROVE Covered(d)
  BY DEF SendInit, Covered
<1> QED  BY <1>2, <1>4, <1>5, <1>6 DEF SInv, SendInit

\* SInv holds in every reachable state.
LEMMA SendInductive == SendSpec => []SInv
<1>1. SendInit => SInv
  BY SendStarts
<1>2. SInv /\ [SendNext]_outboundVars => SInv'
  BY SendKept
<1> QED  BY <1>1, <1>2, PTL DEF SendSpec

\* Whatever the results, the retries and the fallbacks come to, the breaker
\* counts them as it should, and reports the peer.
THEOREM SendsCount ==
    SendSpec => [](SendTypeOK /\ CircuitMatchesFailures /\ OpenIsUnhealthy)
<1>1. SInv => SendTypeOK /\ CircuitMatchesFailures /\ OpenIsUnhealthy
  BY DEF SInv, IInv, SendTypeOK, SendTypes
<1> QED  BY <1>1, SendInductive, PTL

\* The probe marker of isAvailable always has an owner: a send that was let
\* through as the probe, and whose result will clear it.
THEOREM ProbeIsOwned == SendSpec => []ProbeHasOwner
<1>1. SInv => ProbeHasOwner  BY DEF SInv
<1> QED  BY <1>1, SendInductive, PTL

\* An attempt ends with a connection error only when every transport of the card
\* has had its turn and, the peer having been up all the time, none of them works.
THEOREM FallbackIsComplete == SendSpec => []FallbackReaches
<1>1. SInv => FallbackReaches  BY DEF SInv, Covered, FallbackReaches
<1> QED  BY <1>1, SendInductive, PTL

-----------------------------------------------------------------------------
(* The rules of routing: sorting, affinity and the choice among the matches. *)

\* A relation that a sort can go by: strict, and of three of which the first
\* comes before the second the third is after the one or before the other.
WeakOrder(kept, before) ==
    \A i, j \in kept : <<i, j>> \in before =>
        /\ <<j, i>> \notin before
        /\ \A k \in kept : <<i, k>> \in before \/ <<k, j>> \in before

\* With the ties broken by place it orders any two places.
LEMMA PrecedesOrders ==
    ASSUME NEW kept \in SUBSET Nat, NEW before, WeakOrder(kept, before)
    PROVE  /\ \A i \in kept : ~Precedes(before, i, i)
           /\ \A i, j \in kept : i # j => Precedes(before, i, j) \/ Precedes(before, j, i)
           /\ \A i, j, k \in kept :
                Precedes(before, i, j) /\ Precedes(before, j, k) => Precedes(before, i, k)
<1>1. ASSUME NEW i \in kept PROVE ~Precedes(before, i, i)
  <2>1. ~(i < i)
    OBVIOUS
  <2> QED  BY <2>1, Zenon DEF Precedes, WeakOrder
<1>2. ASSUME NEW i \in kept, NEW j \in kept, i # j
      PROVE  Precedes(before, i, j) \/ Precedes(before, j, i)
  BY <1>2 DEF Precedes
<1>3. ASSUME NEW i \in kept, NEW j \in kept, NEW k \in kept,
             Precedes(before, i, j), Precedes(before, j, k)
      PROVE  Precedes(before, i, k)
  <2>1. CASE <<i, j>> \in before
    BY <1>3, <2>1 DEF Precedes, WeakOrder
  <2>2. CASE <<i, j>> \notin before /\ <<j, k>> \in before
    BY <1>3, <2>2 DEF Precedes, WeakOrder
  <2>3. CASE <<i, j>> \notin before /\ <<j, k>> \notin before
    <3>1. <<k, i>> \notin before
      BY <1>3, <2>3 DEF Precedes, WeakOrder
    <3>2. i < k
      BY <1>3, <2>3 DEF Precedes
    <3> QED  BY <3>1, <3>2 DEF Precedes
  <2> QED  BY <2>1, <2>2, <2>3
<1> QED  BY <1>1, <1>2, <1>3

\* So a place has as many before it as its rank says, and no two the same rank.
LEMMA RanksDiffer ==
    ASSUME NEW kept \in SUBSET Nat, IsFiniteSet(kept), NEW before, WeakOrder(kept, before)
    PROVE  /\ \A i \in kept : Rank(kept, before, i) \in 0..(Cardinality(kept) - 1)
           /\ \A i, j \in kept :
                Precedes(before, i, j) => Rank(kept, before, i) < Rank(kept, before, j)
<1> DEFINE B(i) == {j \in kept : Precedes(before, j, i)}
<1>1. ASSUME NEW i \in kept
      PROVE  /\ Cardinality(B(i)) \in Nat
             /\ Cardinality(B(i)) < Cardinality(kept) /\ Cardinality(kept) \in Nat
             /\ IsFiniteSet(B(i))
  <2>1. B(i) \in SUBSET kept /\ B(i) # kept
    BY PrecedesOrders
  <2> HIDE DEF B
  <2>2. /\ IsFiniteSet(B(i)) /\ Cardinality(B(i)) <= Cardinality(kept)
        /\ Cardinality(kept) # Cardinality(B(i))
    BY <2>1, FS_Subset
  <2>3. Cardinality(B(i)) \in Nat /\ Cardinality(kept) \in Nat
    BY <2>2, FS_CardinalityType
  <2> QED  BY <2>2, <2>3
<1>2. ASSUME NEW i \in kept, NEW j \in kept, Precedes(before, i, j)
      PROVE  Cardinality(B(i)) < Cardinality(B(j))
  <2>1. B(i) \in SUBSET B(j) /\ B(i) # B(j)
    BY <1>2, PrecedesOrders
  <2> HIDE DEF B
  <2>2. /\ Cardinality(B(i)) <= Cardinality(B(j)) /\ Cardinality(B(j)) # Cardinality(B(i))
    BY <1>1, <2>1, FS_Subset
  <2> QED  BY <1>1, <2>2
<1>3. \A i \in kept : Rank(kept, before, i) = Cardinality(B(i))
  BY DEF Rank
<1> HIDE DEF B
<1> QED  BY <1>1, <1>2, <1>3

\* r lists the members of s at the kept places, each once, in the order.
ListsInOrder(r, s, kept, before) ==
    \E n \in Nat : \E at \in [1..n -> kept] :
        /\ r = [k \in 1..n |-> s[at[k]]]
        /\ \A i \in kept : \E k \in 1..n : at[k] = i
        /\ \A k, l \in 1..n : k < l => Precedes(before, at[k], at[l])

\* Which is what Arranged returns.
LEMMA ArrangedFacts ==
    ASSUME NEW s, NEW kept \in SUBSET Nat, IsFiniteSet(kept),
           NEW before, WeakOrder(kept, before)
    PROVE  ListsInOrder(Arranged(s, kept, before), s, kept, before)
<1>1. PICK n \in Nat : n = Cardinality(kept)
  BY FS_CardinalityType
<1> DEFINE R(i) == Rank(kept, before, i)
           rank == [i \in kept |-> R(i)]
           at == [k \in 1..n |-> CHOOSE i \in kept : R(i) = k - 1]
<1>2. /\ \A i \in kept : R(i) \in 0..(n - 1)
      /\ \A i, j \in kept : Precedes(before, i, j) => R(i) < R(j)
  BY <1>1, RanksDiffer
<1> HIDE DEF R
<1>3. \A i, j \in kept : R(i) = R(j) => i = j
  <2> SUFFICES ASSUME NEW i \in kept, NEW j \in kept, i # j PROVE R(i) # R(j)
    BY Zenon
  <2>1. Precedes(before, i, j) \/ Precedes(before, j, i)
    BY PrecedesOrders
  <2> QED  BY <1>2, <2>1
<1>4. rank \in Injection(kept, 0..(n - 1))
  BY <1>2, <1>3 DEF Injection, IsInjective
<1>5. IsFiniteSet(0..(n - 1)) /\ Cardinality(0..(n - 1)) = n
  BY FS_Interval
<1>6. rank \in Surjection(kept, 0..(n - 1))
  BY <1>1, <1>4, <1>5, FS_Injection
<1>7. ASSUME NEW k \in 1..n PROVE \E i \in kept : R(i) = k - 1
  <2>1. k - 1 \in 0..(n - 1)
    OBVIOUS
  <2> QED  BY <1>6, <2>1 DEF Surjection
<1>8. ASSUME NEW k \in 1..n PROVE at[k] \in kept /\ R(at[k]) = k - 1
  BY <1>7
<1>9. Arranged(s, kept, before) = [k \in 1..n |-> s[at[k]]]
  <2>1. Arranged(s, kept, before) = [k \in 1..n |-> s[CHOOSE i \in kept : R(i) = k - 1]]
    BY <1>1, Zenon DEF Arranged, R
  <2>2. \A k \in 1..n : at[k] = CHOOSE i \in kept : R(i) = k - 1
    BY Zenon
  <2> HIDE DEF at
  <2> QED  BY <2>1, <2>2, Zenon
<1> HIDE DEF at, rank
<1>10. ASSUME NEW i \in kept PROVE \E k \in 1..n : at[k] = i
  <2>1. R(i) + 1 \in 1..n /\ R(at[R(i) + 1]) = R(i)
    BY <1>2, <1>8
  <2> QED  BY <1>3, <1>8, <2>1
<1>11. ASSUME NEW k \in 1..n, NEW l \in 1..n, k < l PROVE Precedes(before, at[k], at[l])
  <2>1. PICK i \in kept, j \in kept : i = at[k] /\ j = at[l] /\ R(i) = k - 1 /\ R(j) = l - 1
    BY <1>8
  <2>2. ~(R(j) < R(i)) /\ i # j
    BY <1>11, <2>1
  <2>3. Precedes(before, i, j)
    BY <1>2, <2>2, PrecedesOrders
  <2> QED  BY <2>1, <2>3
<1>12. at \in [1..n -> kept]
  BY <1>8 DEF at
<1> QED  BY <1>9, <1>10, <1>11, <1>12 DEF ListsInOrder

\* Multiplying by a positive number changes no comparison.
LEMMA Scaled ==
    ASSUME NEW x \in Int, NEW y \in Int, NEW d \in Nat \ {0}
    PROVE  /\ x * d \in Int /\ y * d \in Int
           /\ x * d > y * d <=> x > y
<1>1. x > y => x * d > y * d
  OBVIOUS
<1>2. ~(x > y) => ~(x * d > y * d)
  OBVIOUS
<1> QED  BY <1>1, <1>2

IsFraction(a) == a[1] \in Int /\ a[2] \in Nat \ {0}

\* The order of the fractions is one that a sort can go by.
LEMMA HigherOrders ==
    ASSUME NEW a, NEW b, NEW c, IsFraction(a), IsFraction(b), IsFraction(c), Higher(a, b)
    PROVE  ~Higher(b, a) /\ (Higher(a, c) \/ Higher(c, b))
<1> DEFINE Cross(x1, x2, y1, y2) == x1 * y2 > y1 * x2
<1>1. ASSUME NEW a1 \in Int, NEW a2 \in Nat \ {0}, NEW b1 \in Int, NEW b2 \in Nat \ {0},
             NEW c1 \in Int, NEW c2 \in Nat \ {0}, Cross(a1, a2, b1, b2)
      PROVE  ~Cross(b1, b2, a1, a2) /\ (Cross(a1, a2, c1, c2) \/ Cross(c1, c2, b1, b2))
  <2>1. /\ a1 * b2 \in Int /\ b1 * a2 \in Int /\ a1 * c2 \in Int /\ c1 * a2 \in Int
        /\ c1 * b2 \in Int /\ b1 * c2 \in Int
    OBVIOUS
  <2>2. (a1 * b2) * c2 > (b1 * a2) * c2
    BY <1>1, <2>1, Scaled
  <2>3. (a1 * b2) * c2 = (a1 * c2) * b2 /\ (b1 * a2) * c2 = (b1 * c2) * a2
    OBVIOUS
  <2>4. (c1 * a2) * b2 = (c1 * b2) * a2
    OBVIOUS
  <2>5. (a1 * c2) * b2 > (c1 * a2) * b2 \/ (c1 * b2) * a2 > (b1 * c2) * a2
    <3>1. PICK x \in Int, y \in Int, z \in Int :
              x = (a1 * c2) * b2 /\ y = (b1 * c2) * a2 /\ z = (c1 * a2) * b2
      BY <2>1
    <3>2. x > y /\ z = (c1 * b2) * a2
      BY <2>2, <2>3, <2>4, <3>1
    <3>3. x > z \/ z > y
      BY <3>2
    <3> QED  BY <3>1, <3>2, <3>3
  <2>6. a1 * c2 > c1 * a2 \/ c1 * b2 > b1 * c2
    BY <2>1, <2>5, Scaled
  <2>7. ~(b1 * a2 > a1 * b2)
    BY <1>1, <2>1
  <2> QED  BY <2>6, <2>7
<1> HIDE DEF Cross
<1>2. \A x, y : Higher(x, y) <=> Cross(x[1], x[2], y[1], y[2])
  BY Zenon DEF Higher, Cross
<1>3. PICK a1 \in Int, b1 \in Int, c1 \in Int : a1 = a[1] /\ b1 = b[1] /\ c1 = c[1]
  BY DEF IsFraction
<1>4. PICK a2 \in Nat \ {0}, b2 \in Nat \ {0}, c2 \in Nat \ {0} :
          a2 = a[2] /\ b2 = b[2] /\ c2 = c[2]
  BY DEF IsFraction
<1>5. Cross(a1, a2, b1, b2)
  BY <1>2, <1>3, <1>4
<1>6. ~Cross(b1, b2, a1, a2) /\ (Cross(a1, a2, c1, c2) \/ Cross(c1, c2, b1, b2))
  BY <1>1, <1>5
<1> QED  BY <1>2, <1>3, <1>4, <1>6

\* A share is a fraction, and so is what computeAffinity makes of two of them.
LEMMA ShareFraction ==
    ASSUME NEW asked, NEW offered, IsFiniteSet(asked)
    PROVE  Share(asked, offered)[1] \in Nat /\ Share(asked, offered)[2] \in Nat \ {0}
<1>1. CASE asked = {}
  BY <1>1 DEF Share
<1>2. CASE asked # {}
  <2>1. Cardinality(asked) \in Nat /\ Cardinality(asked) # 0
    BY <1>2, FS_CardinalityType, FS_EmptySet
  <2>2. Cardinality(asked \cap offered) \in Nat
    BY FS_Intersection, FS_CardinalityType
  <2> QED  BY <1>2, <2>1, <2>2 DEF Share
<1> QED  BY <1>1, <1>2

LEMMA AffinityFraction ==
    ASSUME NEW r, NEW m, NEW known, IsFiniteSet(r.tags), IsFiniteSet(r.skills)
    PROVE  IsFraction(computeAffinity(r, m, known))
<1>1. PICK s : s = Share(r.skills, known[r.peer])
  OBVIOUS
<1>2. PICK t : t = Share(r.tags, m.tags)
  OBVIOUS
<1>3. /\ s[1] \in Nat /\ s[2] \in Nat \ {0} /\ t[1] \in Nat /\ t[2] \in Nat \ {0}
      /\ Weights.skills \in Nat /\ Weights.tags \in Nat /\ Weights.rest \in Nat
  BY <1>1, <1>2, ShareFraction, RoutingAssumption DEF WeightsAreNat
<1>4. ASSUME NEW x \in Nat, NEW y \in Nat, NEW z \in Nat PROVE x * y * z \in Nat
  OBVIOUS
<1>5. ASSUME NEW x \in Nat \ {0}, NEW y \in Nat \ {0} PROVE x * y \in Nat \ {0}
  OBVIOUS
<1>6. /\ Weights.skills * s[1] * t[2] + Weights.tags * t[1] * s[2] + Weights.rest * s[2] * t[2] \in Int
      /\ s[2] * t[2] \in Nat \ {0}
  <2>1. PICK x \in Nat, y \in Nat, z \in Nat :
            /\ x = Weights.skills * s[1] * t[2] /\ y = Weights.tags * t[1] * s[2]
            /\ z = Weights.rest * s[2] * t[2]
    BY <1>3, <1>4
  <2> QED  BY <1>3, <1>5, <2>1
<1> QED  BY <1>1, <1>2, <1>6 DEF computeAffinity, IsFraction

-----------------------------------------------------------------------------
(* Rules pick their best match.                                            *)

\* The places of a configured list.
LEMMA RawPlaces ==
    ASSUME NEW s \in RawRules
    PROVE  /\ Len(s) \in Nat /\ DOMAIN s = 1..Len(s)
           /\ \A i \in DOMAIN s : s[i].priority \in Int
           /\ \A i \in DOMAIN s : \A m, known : IsFraction(computeAffinity(s[i], m, known))
<1>1. /\ s \in Seq({s[i] : i \in DOMAIN s})
      /\ \A i \in DOMAIN s : s[i].priority \in Int /\ IsFiniteSet(s[i].tags) /\ IsFiniteSet(s[i].skills)
  BY RulesAssumption
<1>2. Len(s) \in Nat /\ DOMAIN s = 1..Len(s)
  BY <1>1, LenProperties
<1>3. \A i \in DOMAIN s : \A m, known : IsFraction(computeAffinity(s[i], m, known))
  BY <1>1, AffinityFraction
<1> QED  BY <1>1, <1>2, <1>3

\* r lists the places W of s, the k-th being at[k], by priority and then by place.
InPriorityOrder(r, s, W, n, at) ==
    /\ r = [k \in 1..n |-> s[at[k]]]
    /\ \A i \in W : \E k \in 1..n : at[k] = i
    /\ \A k, l \in 1..n : k < l =>
         \/ s[at[k]].priority > s[at[l]].priority
         \/ (s[at[k]].priority = s[at[l]].priority /\ at[k] < at[l])

\* What the plugin parses: the well-formed entries, each once, by priority and
\* then by their place in the configuration.
LEMMA ParsedFacts ==
    ASSUME NEW s \in RawRules
    PROVE  \E n \in Nat : \E at \in [1..n -> WellFormed(s)] :
             InPriorityOrder(parseRoutingRules(s), s, WellFormed(s), n, at)
<1> DEFINE W == WellFormed(s)
           by == {p \in W \X W : s[p[1]].priority > s[p[2]].priority}
<1>1. Len(s) \in Nat /\ W \in SUBSET (1..Len(s)) /\ \A i \in W : s[i].priority \in Int
  BY RawPlaces DEF WellFormed
<1> HIDE DEF W
<1>2. IsFiniteSet(W) /\ W \in SUBSET Nat
  <2>1. IsFiniteSet(1..Len(s))
    BY <1>1, FS_Interval
  <2>2. IsFiniteSet(W)
    BY <1>1, <2>1, FS_Subset, Zenon
  <2> QED  BY <1>1, <2>2
<1>3. \A i, j \in W : <<i, j>> \in by <=> s[i].priority > s[j].priority
  OBVIOUS
<1>4. parseRoutingRules(s) = Arranged(s, W, by)
  BY DEF parseRoutingRules, W
<1> HIDE DEF by
<1>5. WeakOrder(W, by)
  BY <1>1, <1>3 DEF WeakOrder
<1>6. ListsInOrder(Arranged(s, W, by), s, W, by)
  BY <1>2, <1>5, ArrangedFacts
<1>7. PICK n \in Nat : \E at \in [1..n -> W] :
        /\ Arranged(s, W, by) = [k \in 1..n |-> s[at[k]]]
        /\ \A i \in W : \E k \in 1..n : at[k] = i
        /\ \A k, l \in 1..n : k < l => Precedes(by, at[k], at[l])
  BY <1>6 DEF ListsInOrder
<1>8. PICK at \in [1..n -> W] :
        /\ Arranged(s, W, by) = [k \in 1..n |-> s[at[k]]]
        /\ \A i \in W : \E k \in 1..n : at[k] = i
        /\ \A k, l \in 1..n : k < l => Precedes(by, at[k], at[l])
  BY <1>7
<1>9. ASSUME NEW k \in 1..n, NEW l \in 1..n, k < l
      PROVE  \/ s[at[k]].priority > s[at[l]].priority
             \/ (s[at[k]].priority = s[at[l]].priority /\ at[k] < at[l])
  <2>1. PICK i \in W, j \in W : i = at[k] /\ j = at[l] /\ Precedes(by, i, j)
    BY <1>8, <1>9
  <2>2. s[i].priority > s[j].priority \/ (~(s[j].priority > s[i].priority) /\ i < j)
    BY <1>3, <2>1 DEF Precedes
  <2>3. s[i].priority > s[j].priority \/ (s[i].priority = s[j].priority /\ i < j)
    BY <1>1, <2>2
  <2> QED  BY <2>1, <2>3
<1>10. InPriorityOrder(parseRoutingRules(s), s, W, n, at)
  BY <1>4, <1>8, <1>9 DEF InPriorityOrder
<1>11. at \in [1..n -> W]
  OBVIOUS
<1> QED  BY <1>10, <1>11 DEF W

\* What the first of the matches is: no other match has a higher score, and none
\* with the same score stands before it.
LEMMA FirstMatch ==
    ASSUME NEW n \in Nat, NEW rs, DOMAIN rs = 1..n, NEW m, NEW known, NEW aff \in BOOLEAN,
           \A k \in 1..n : IsFraction(computeAffinity(rs[k], m, known))
    PROVE  LET Hit(k) == matchesRule(rs[k], m, known)
               Over(k, l) == aff /\ Higher(computeAffinity(rs[k], m, known),
                                           computeAffinity(rs[l], m, known))
           IN \/ /\ \A k \in 1..n : ~Hit(k)
                 /\ Target(rs, m, known, aff) = NoPeer
              \/ \E k \in 1..n :
                    /\ Hit(k) /\ Target(rs, m, known, aff) = rs[k].peer
                    /\ \A l \in 1..n \ {k} : Hit(l) => Over(k, l) \/ (~Over(l, k) /\ k < l)
<1> DEFINE Hit(k) == matchesRule(rs[k], m, known)
           Score(k) == computeAffinity(rs[k], m, known)
           Over(k, l) == aff /\ Higher(Score(k), Score(l))
           H == {k \in 1..n : Hit(k)}
           by == {p \in H \X H : Over(p[1], p[2])}
           all == Arranged(rs, H, by)
           Goal == \/ /\ \A k \in 1..n : ~Hit(k)
                      /\ Target(rs, m, known, aff) = NoPeer
                   \/ \E k \in 1..n :
                         /\ Hit(k) /\ Target(rs, m, known, aff) = rs[k].peer
                         /\ \A l \in 1..n \ {k} : Hit(l) => Over(k, l) \/ (~Over(l, k) /\ k < l)
<1> SUFFICES Goal
  OBVIOUS
<1>1. Target(rs, m, known, aff) = IF all = <<>> THEN NoPeer ELSE Head(all).peer
  BY DEF Target, matchAllRules
<1>2. IsFiniteSet(H) /\ H \in SUBSET Nat /\ H \in SUBSET (1..n)
  <2>1. H \in SUBSET (1..n) /\ 1..n \in SUBSET Nat
    OBVIOUS
  <2> QED  BY <2>1, FS_Interval, FS_Subset
<1>3. \A k, l \in H : <<k, l>> \in by <=> Over(k, l)
  OBVIOUS
<1>4. \A k \in 1..n : IsFraction(Score(k))
  OBVIOUS
<1>5. \A k \in 1..n : k \in H <=> Hit(k)
  OBVIOUS
<1> HIDE DEF Hit, Score, H, by, all
<1>6. WeakOrder(H, by)
  BY <1>2, <1>3, <1>4, HigherOrders DEF WeakOrder
<1>15. ListsInOrder(all, rs, H, by)
  BY <1>2, <1>6, ArrangedFacts DEF all
<1>16. PICK c \in Nat : \E at \in [1..c -> H] :
        /\ all = [k \in 1..c |-> rs[at[k]]]
        /\ \A i \in H : \E k \in 1..c : at[k] = i
        /\ \A k, l \in 1..c : k < l => Precedes(by, at[k], at[l])
  BY <1>15 DEF ListsInOrder
<1>8. PICK at \in [1..c -> H] :
        /\ all = [k \in 1..c |-> rs[at[k]]]
        /\ \A i \in H : \E k \in 1..c : at[k] = i
        /\ \A k, l \in 1..c : k < l => Precedes(by, at[k], at[l])
  BY <1>16
<1>9. CASE H = {}
  <2>1. c = 0
    BY <1>8, <1>9
  <2>2. all = <<>>
    BY <1>8, <2>1
  <2> QED  BY <1>1, <1>5, <1>9, <2>2
<1>10. CASE H # {}
  <2>1. 1 \in 1..c
    BY <1>8, <1>10
  <2>2. PICK k \in H : k = at[1]
    BY <1>8, <2>1
  <2>3. all # <<>> /\ Head(all) = rs[k]
    BY <1>8, <2>1, <2>2
  <2>4. ASSUME NEW l \in 1..n \ {k}, Hit(l) PROVE Over(k, l) \/ (~Over(l, k) /\ k < l)
    <3>1. PICK i \in 1..c : at[i] = l
      BY <1>5, <1>8, <2>4
    <3>2. 1 < i
      BY <2>2, <2>4, <3>1
    <3>3. Precedes(by, k, l) /\ l \in H
      BY <1>5, <1>8, <2>1, <2>2, <2>4, <3>1, <3>2
    <3> QED  BY <1>3, <3>3 DEF Precedes
  <2> QED  BY <1>1, <1>2, <1>5, <2>2, <2>3, <2>4
<1> QED  BY <1>9, <1>10

\* peer is that of the rule in s which matches m and which no other match precedes.
IsBest(peer, s, m, known, aff) ==
    LET hits == {i \in DOMAIN s : s[i].wellFormed /\ matchesRule(s[i], m, known)}
        Scores(i, j) == aff /\ Higher(computeAffinity(s[i], m, known),
                                      computeAffinity(s[j], m, known))
        Beats(i, j) ==
            \/ Scores(i, j)
            \/ ~Scores(j, i) /\ s[i].priority > s[j].priority
            \/ ~Scores(j, i) /\ s[i].priority = s[j].priority /\ i < j
        Best == {i \in hits : \A j \in hits \ {i} : Beats(i, j)}
    IN {peer} = IF hits = {} THEN {NoPeer} ELSE {s[i].peer : i \in Best}

\* Whatever is configured, known and asked for, the rules choose that peer.
LEMMA BestTarget ==
    ASSUME NEW s \in RawRules, NEW m, NEW known, NEW aff \in BOOLEAN
    PROVE  IsBest(Target(parseRoutingRules(s), m, known, aff), s, m, known, aff)
<1> DEFINE hits == {i \in DOMAIN s : s[i].wellFormed /\ matchesRule(s[i], m, known)}
           Scores(i, j) == aff /\ Higher(computeAffinity(s[i], m, known),
                                         computeAffinity(s[j], m, known))
           Beats(i, j) ==
               \/ Scores(i, j)
               \/ ~Scores(j, i) /\ s[i].priority > s[j].priority
               \/ ~Scores(j, i) /\ s[i].priority = s[j].priority /\ i < j
           Best == {i \in hits : \A j \in hits \ {i} : Beats(i, j)}
           chosen == Target(parseRoutingRules(s), m, known, aff)
<1> SUFFICES {chosen} = IF hits = {} THEN {NoPeer} ELSE {s[i].peer : i \in Best}
  BY DEF IsBest
<1>1. PICK n \in Nat : \E at \in [1..n -> WellFormed(s)] :
          InPriorityOrder(parseRoutingRules(s), s, WellFormed(s), n, at)
  BY ParsedFacts
<1>2. PICK at \in [1..n -> WellFormed(s)] :
          InPriorityOrder(parseRoutingRules(s), s, WellFormed(s), n, at)
  BY <1>1
<1> DEFINE rs == [k \in 1..n |-> s[at[k]]]
<1>3. /\ parseRoutingRules(s) = rs /\ DOMAIN rs = 1..n
      /\ \A k \in 1..n : rs[k] = s[at[k]] /\ at[k] \in DOMAIN s /\ at[k] \in WellFormed(s)
      /\ \A i \in DOMAIN s : IsFraction(computeAffinity(s[i], m, known)) /\ s[i].priority \in Int
  BY <1>2, RawPlaces DEF WellFormed, InPriorityOrder
<1> HIDE DEF rs
<1> DEFINE Hit(k) == matchesRule(rs[k], m, known)
           Over(k, l) == aff /\ Higher(computeAffinity(rs[k], m, known),
                                       computeAffinity(rs[l], m, known))
<1>4. \/ /\ \A k \in 1..n : ~Hit(k)
         /\ chosen = NoPeer
      \/ \E k \in 1..n :
            /\ Hit(k) /\ chosen = rs[k].peer
            /\ \A l \in 1..n \ {k} : Hit(l) => Over(k, l) \/ (~Over(l, k) /\ k < l)
  BY <1>3, FirstMatch
<1>5. /\ \A k \in 1..n : Hit(k) <=> at[k] \in hits
      /\ \A k, l \in 1..n : Over(k, l) <=> Scores(at[k], at[l])
      /\ \A i \in hits : \E k \in 1..n : at[k] = i
  BY <1>2, <1>3 DEF WellFormed, InPriorityOrder
<1>6. \A i, j \in hits : /\ Scores(i, j) => ~Scores(j, i)
                         /\ i \in Nat /\ s[i].priority \in Int
  <2>1. \A i \in hits : i \in Nat /\ s[i].priority \in Int
    BY RawPlaces
  <2>2. ASSUME NEW i \in hits, NEW j \in hits, Scores(i, j) PROVE ~Scores(j, i)
    BY <1>3, <2>2, HigherOrders
  <2> QED  BY <2>1, <2>2
<1> HIDE DEF Hit, Over, Scores, hits, chosen
<1>7. \A i, j \in hits : ~(Beats(i, j) /\ Beats(j, i))
  BY <1>6
<1>8. CASE \A k \in 1..n : ~Hit(k)
  <2>1. hits = {}
    BY <1>5, <1>8
  <2>2. chosen = NoPeer
    BY <1>4, <1>8
  <2> QED  BY <2>1, <2>2
<1>9. CASE \E k \in 1..n : /\ Hit(k) /\ chosen = rs[k].peer
                           /\ \A l \in 1..n \ {k} :
                                Hit(l) => Over(k, l) \/ (~Over(l, k) /\ k < l)
  <2>1. PICK k \in 1..n : /\ Hit(k) /\ chosen = rs[k].peer
                          /\ \A l \in 1..n \ {k} :
                                Hit(l) => Over(k, l) \/ (~Over(l, k) /\ k < l)
    BY <1>9
  <2>2. PICK i \in hits : i = at[k] /\ chosen = s[i].peer
    BY <1>3, <1>5, <2>1
  <2>3. ASSUME NEW j \in hits \ {i} PROVE Beats(i, j)
    <3>1. PICK l \in 1..n \ {k} : at[l] = j
      BY <1>5, <2>2, <2>3
    <3>2. Scores(i, j) \/ (~Scores(j, i) /\ k < l)
      BY <1>5, <2>1, <2>2, <3>1
    <3>3. k < l => \/ s[i].priority > s[j].priority
                   \/ (s[i].priority = s[j].priority /\ i < j)
      BY <1>2, <2>2, <3>1 DEF InPriorityOrder
    <3> QED  BY <3>2, <3>3
  <2> HIDE DEF Beats
  <2>4. Best = {i}
    BY <1>7, <2>3
  <2> QED  BY <2>2, <2>4
<1> QED  BY <1>4, <1>8, <1>9

\* The configuration is read once.
RoutingConfigured == raw \in RawRules /\ rules = parseRoutingRules(raw) /\ affinity \in BOOLEAN

\* Every message that names no peer goes to that of the best matching rule:
\* parsing sorts by priority, scoring sorts once more, and both keep the order of
\* what they do not tell apart (src/src/routing-rules.ts).
THEOREM RoutesToBest == RoutedSpec => []RouteIsBest
<1>1. RoutedInit => RoutingConfigured
  BY DEF RoutedInit, RoutingConfigured
<1>2. RoutingConfigured /\ [RoutedNext]_routedVars => RoutingConfigured'
  <2>1. [RoutedNext]_routedVars => UNCHANGED configVars
    BY DEF RoutedNext, routedVars, a2a_send, a2a_send_file, UriRefused, UriChecked, Ends,
           Probe, Passing, Surroundings
  <2> QED  BY <2>1 DEF RoutingConfigured, configVars
<1>3. RoutingConfigured => RouteIsBest
  <2> SUFFICES ASSUME RoutingConfigured, NEW m \in Message, m.peer = NoPeer
               PROVE  IsBest(Routed(m, skills), raw, m, getPeerSkills(skills), affinity)
    BY DEF RouteIsBest, IsBest
  <2>1. Routed(m, skills) = Target(parseRoutingRules(raw), m, getPeerSkills(skills), affinity)
    BY DEF Routed, RoutingConfigured
  <2> QED  BY <2>1, BestTarget DEF RoutingConfigured
<1> QED  BY <1>1, <1>2, <1>3, PTL DEF RoutedSpec
=============================================================================
