----------------------- MODULE GatewayExecutor_proofs -----------------------
(***************************************************************************)
(* Theorems about GatewayExecutor, for every finite set of calls, every    *)
(* assignment of tasks and contexts to them, every limit and either value  *)
(* of TaskStateBound: the composition drives the queue as its own          *)
(* specification allows, the dispatch chains are well formed and implement *)
(* SerialDispatch, the two executors agree, and the cache and the statuses *)
(* follow the calls.                                                       *)
(***************************************************************************)
EXTENDS GatewayExecutor, SequenceTheorems, FiniteSetTheorems,
        WellFoundedInduction, TLAPS

QP == INSTANCE QueueingExecutor_proofs

-----------------------------------------------------------------------------
(* The queue within the composition.                                       *)

\* What QueueingExecutor_proofs assumes of the constants holds here.
LEMMA QueueAssumptions ==
    /\ QP!CallAssumption /\ QP!LimitAssumption /\ QP!BoundAssumption
BY ExecutorAssumption
   DEF QP!CallAssumption, QP!LimitAssumption, QP!BoundAssumption, IsFiniteSet, QP!IsFiniteSet

\* Seen from the queue, the agent executor is a delegate as the queue knows it.
LEMMA StepOfQueue == [Next]_vars => [Q!Next]_Q!vars
<1> SUFFICES ASSUME [Next]_vars PROVE [Q!Next]_Q!vars
  OBVIOUS
<1>1. ASSUME NEW c \in Call, ExecuteNow(c) PROVE Q!Next
  BY <1>1 DEF ExecuteNow, Q!Next
<1>2. ASSUME NEW c \in Call, ExecuteRejected(c) PROVE Q!Next
  BY <1>2 DEF ExecuteRejected, Q!Next
<1>3. ASSUME NEW c \in Call, ExecuteQueued(c) PROVE Q!Next
  BY <1>3 DEF ExecuteQueued, Q!Next
<1>4. ASSUME NEW c \in Call, FinishRun(c) PROVE Q!Next
  BY <1>4 DEF FinishRun, Q!Next
<1>5. ASSUME NEW c \in Call, Agent(c) \/ Heartbeat(c) PROVE UNCHANGED Q!vars
  BY <1>5 DEF Agent, Heartbeat, queueVars, Q!vars
<1>6. ASSUME NEW t \in Task, CancelQueued(t) PROVE Q!Next
  BY <1>6 DEF CancelQueued, Q!Next
<1>7. ASSUME NEW t \in Task, CancelRunning(t) PROVE UNCHANGED Q!vars
  BY <1>7 DEF CancelRunning, queueVars, Q!vars
<1>8. CASE DrainQueue
  BY <1>8 DEF DrainQueue, Q!Next
<1>9. CASE DrainQueueEnds
  BY <1>9 DEF DrainQueueEnds, Q!Next
<1>10. CASE UNCHANGED vars
  BY <1>10 DEF vars, queueVars, Q!vars
<1> QED
  BY <1>1, <1>2, <1>3, <1>4, <1>5, <1>6, <1>7, <1>8, <1>9, <1>10 DEF Next

\* So what is proved of the queue for any delegate holds of the composition.
THEOREM DrivesQueue == Spec => Q!Spec
<1>1. Init => Q!Init
  BY DEF Init
<1> QED  BY <1>1, StepOfQueue, PTL DEF Spec, Q!Spec

\* The queue's steps are those its theorems are about.
LEMMA SameNext == Q!Next <=> QP!Next
BY DEF Q!Next, QP!Next, Q!ExecuteNow, QP!ExecuteNow, Q!ExecuteRejected, QP!ExecuteRejected, Q!ExecuteQueued, QP!ExecuteQueued, Q!FinishRun, QP!FinishRun, Q!CancelQueued, QP!CancelQueued, Q!DrainQueue, QP!DrainQueue, Q!DrainQueueEnds, QP!DrainQueueEnds,
       Q!Arrives, QP!Arrives, Q!SlotFree, QP!SlotFree, Q!QueueFull, QP!QueueFull, Q!Cap, QP!Cap, Q!QueueCap, QP!QueueCap, Q!RunEntry, QP!RunEntry, Q!QueueDelete, QP!QueueDelete, Q!FirstOf, QP!FirstOf, Q!Unqueue, QP!Unqueue, Q!RemoveAt, QP!RemoveAt, Q!Settle, QP!Settle, Q!Settled, QP!Settled, Q!Forget, QP!Forget, Q!Push, QP!Push, Q!DrainGuard, QP!DrainGuard

\* The invariant of the queue holds in the composition.
LEMMA QueueInvariant == Spec => []QP!IInv
<1>1. QP!Spec => []QP!IInv
  BY QP!InductiveInvariant, QueueAssumptions
     DEF QP!CallAssumption, QP!LimitAssumption, QP!BoundAssumption
<1>2. Q!Spec => QP!Spec
  <2>1. Q!Init => QP!Init
    BY DEF Q!Init, QP!Init
  <2>2. [Q!Next]_Q!vars => [QP!Next]_QP!vars
    BY SameNext DEF Q!vars, QP!vars
  <2> QED BY <2>1, <2>2, PTL DEF Q!Spec, QP!Spec
<1> QED  BY <1>1, <1>2, DrivesQueue, PTL

\* The plugin's executor keeps the limits of its queue: at most Cap agent runs
\* are under way and exactly those are counted, the queue never overflows, and
\* no slot is free while an entry waits, with the agent executor as delegate.
THEOREM AdmissionLimitsHold ==
    Spec => [](Q!ConcurrencyCap /\ Q!QueueBound /\ Q!WorkConservation)
<1>1. QP!IInv => Q!ConcurrencyCap /\ Q!QueueBound /\ Q!WorkConservation
  <2>1. \A S : QP!Cardinality(S) = Q!Cardinality(S)
    BY DEF QP!Cardinality, Q!Cardinality
  <2> QED
    BY <2>1
       DEF QP!IInv, QP!ConcurrencyCap, Q!ConcurrencyCap, QP!QueueBound, Q!QueueBound,
           QP!WorkConservation, Q!WorkConservation, QP!Cap, Q!Cap, QP!QueueCap, Q!QueueCap
<1> QED  BY <1>1, QueueInvariant, PTL

-----------------------------------------------------------------------------
(* Sequences.                                                              *)

\* c occurs in s; nothing occurs in s twice.
InSeq(c, s) == \E i \in 1..Len(s) : s[i] = c

Apart(s) == \A i, j \in 1..Len(s) : s[i] = s[j] => i = j

\* A set of natural numbers has a smallest one.
LEMMA Smallest ==
    ASSUME NEW T \in SUBSET Nat, T # {}
    PROVE  \E n \in T : \A m \in T : n <= m
<1> DEFINE R == OpToRel(<, Nat)
<1>1. IsWellFoundedOn(R, Nat)
  BY NatLessThanWellFounded
<1>2. R = {p \in Nat \X Nat : p[1] < p[2]}
  BY Zenon DEF OpToRel
<1> HIDE DEF R
<1>3. PICK n \in T : \A m \in T : <<m, n>> \notin R
  BY <1>1, WFMin, Zenon
<1>4. \A m \in T : ~(m < n)
  BY <1>2, <1>3
<1> QED  BY <1>4

\* What splicing one element out leaves.
LEMMA SplicedOut ==
    ASSUME NEW S, NEW s \in Seq(S), NEW i \in 1..Len(s), NEW r, r = A!RemoveAt(s, i)
    PROVE  /\ r \in Seq(S) /\ Len(r) = Len(s) - 1
           /\ \A k \in 1..Len(r) : r[k] = IF k < i THEN s[k] ELSE s[k + 1]
<1>1. r = QP!Unqueue(s, i)
  BY DEF QP!Unqueue, QP!RemoveAt, A!RemoveAt
<1> DEFINE u == QP!Unqueue(s, i)
<1>2. /\ u \in Seq(S) /\ Len(u) = Len(s) - 1
      /\ \A k \in 1..(Len(s) - 1) : u[k] = IF k < i THEN s[k] ELSE s[k + 1]
  BY QP!UnqueueFacts, QueueAssumptions, ZenonT(30)
     DEF QP!CallAssumption, QP!LimitAssumption, QP!BoundAssumption
<1> HIDE DEF u
<1>3. r = u
  BY <1>1 DEF u
<1> QED  BY <1>2, <1>3, Zenon

\* Of elements that are all different, the one spliced out is gone.
LEMMA SplicedAway ==
    ASSUME NEW S, NEW s \in Seq(S), NEW i \in 1..Len(s), Apart(s), NEW r, r = A!RemoveAt(s, i)
    PROVE  /\ Apart(r)
           /\ \A c : InSeq(c, r) => InSeq(c, s) /\ c # s[i]
<1>0. /\ r \in Seq(S) /\ Len(r) = Len(s) - 1
      /\ \A k \in 1..Len(r) : r[k] = IF k < i THEN s[k] ELSE s[k + 1]
  BY SplicedOut
<1>1. PICK n \in Nat : n = Len(s) /\ i \in 1..n
  OBVIOUS
<1>2. /\ Len(r) = n - 1
      /\ \A k \in 1..(n - 1) : r[k] = IF k < i THEN s[k] ELSE s[k + 1]
  BY <1>0, <1>1
<1>3. \A k, m \in 1..n : s[k] = s[m] => k = m
  BY <1>1 DEF Apart
<1>4. ASSUME NEW k \in 1..(n - 1)
      PROVE  \E a \in 1..n : r[k] = s[a] /\ a = (IF k < i THEN k ELSE k + 1)
  <2>1. k \in 1..n /\ k + 1 \in 1..n /\ (k < i \/ k >= i)
    BY <1>1
  <2>2. CASE k < i
    <3>1. r[k] = s[k]
      BY <1>2, <2>2
    <3> QED  BY <2>1, <2>2, <3>1
  <2>3. CASE k >= i
    <3>1. r[k] = s[k + 1]
      BY <1>1, <1>2, <2>3
    <3> QED  BY <1>1, <2>1, <2>3, <3>1
  <2> QED  BY <2>1, <2>2, <2>3
<1>5. Apart(r)
  <2>1. ASSUME NEW k \in 1..(n - 1), NEW m \in 1..(n - 1), r[k] = r[m] PROVE k = m
    <3>1. PICK a \in 1..n : r[k] = s[a] /\ a = (IF k < i THEN k ELSE k + 1)
      BY <1>4
    <3>2. PICK b \in 1..n : r[m] = s[b] /\ b = (IF m < i THEN m ELSE m + 1)
      BY <1>4
    <3>3. a = b
      BY <1>3, <2>1, <3>1, <3>2, Zenon
    <3> QED  BY <1>1, <3>1, <3>2, <3>3
  <2> QED  BY <1>2, <2>1, Zenon DEF Apart
<1>6. ASSUME NEW k \in 1..(n - 1) PROVE \E a \in 1..n : r[k] = s[a] /\ a # i
  <2>1. PICK a \in 1..n : r[k] = s[a] /\ a = (IF k < i THEN k ELSE k + 1)
    BY <1>4
  <2>2. a # i
    BY <1>1, <2>1
  <2> QED  BY <2>1, <2>2
<1>7. \A k \in 1..(n - 1) : InSeq(r[k], s) /\ r[k] # s[i]
  <2> SUFFICES ASSUME NEW k \in 1..(n - 1) PROVE InSeq(r[k], s) /\ r[k] # s[i]
    OBVIOUS
  <2>1. PICK a \in 1..n : r[k] = s[a] /\ a # i
    BY <1>6
  <2>2. a \in 1..Len(s)
    BY <1>1
  <2> QED  BY <1>1, <1>3, <2>1, <2>2, Zenon DEF InSeq
<1>8. ASSUME NEW c, InSeq(c, r) PROVE InSeq(c, s) /\ c # s[i]
  <2>1. PICK k \in 1..Len(r) : r[k] = c
    BY <1>8, Zenon DEF InSeq
  <2> QED  BY <1>2, <1>7, <2>1, Zenon
<1> QED  BY <1>5, <1>8

\* Map.delete(e): of keys that are all different, e is gone and the others stay.
LEMMA KeyRemoved ==
    ASSUME NEW S, NEW s \in Seq(S), NEW e, Apart(s), NEW r, r = A!RemoveFirst(s, e)
    PROVE  /\ r \in Seq(S) /\ Apart(r)
           /\ \A c : InSeq(c, r) <=> InSeq(c, s) /\ c # e
<1>1. CASE ~InSeq(e, s)
  <2>1. r = s
    BY <1>1 DEF InSeq, A!RemoveFirst
  <2> QED  BY <1>1, <2>1 DEF InSeq
<1>2. CASE InSeq(e, s)
  <2> DEFINE I == {i \in 1..Len(s) : s[i] = e}
  <2>1. I # {} /\ I \in SUBSET Nat
    BY <1>2 DEF InSeq
  <2>2. \E i \in I : \A m \in I : i <= m
    BY <2>1, Smallest
  <2>3. A!SelectInSeq(s, LAMBDA v : v = e) \in I
    BY <2>1, <2>2 DEF A!SelectInSeq, A!Min
  <2> DEFINE j == A!SelectInSeq(s, LAMBDA v : v = e)
  <2> HIDE DEF j
  <2>4. PICK i \in 1..Len(s) : r = A!RemoveAt(s, i) /\ s[i] = e
    <3>1. r = A!RemoveAt(s, j)
      BY <1>2, Zenon DEF A!RemoveFirst, InSeq, j
    <3>2. j \in 1..Len(s) /\ s[j] = e
      BY <2>3, Zenon DEF j
    <3> QED  BY <3>1, <3>2, Zenon
  <2>5. /\ r \in Seq(S) /\ Len(r) = Len(s) - 1
        /\ \A k \in 1..Len(r) : r[k] = IF k < i THEN s[k] ELSE s[k + 1]
    BY <2>4, SplicedOut, SMTT(30)
  <2>6. Apart(r) /\ \A c : InSeq(c, r) => InSeq(c, s) /\ c # e
    BY <2>4, SplicedAway, Zenon
  <2>7. ASSUME NEW k \in 1..Len(r) PROVE InSeq(r[k], s) /\ r[k] # e
    BY <2>6 DEF InSeq
  <2>8. ASSUME NEW k \in 1..Len(s), s[k] # e PROVE InSeq(s[k], r)
    <3>1. CASE k < i
      BY <2>5, <3>1 DEF InSeq
    <3>2. CASE k > i
      <4>1. k - 1 \in 1..Len(r) /\ r[k - 1] = s[k]
        BY <2>5, <3>2
      <4> QED  BY <4>1 DEF InSeq
    <3> QED  BY <2>4, <2>8, <3>1, <3>2
  <2>9. ASSUME NEW c, InSeq(c, r) PROVE InSeq(c, s) /\ c # e
    BY <2>7, <2>9 DEF InSeq
  <2>10. ASSUME NEW c, InSeq(c, s), c # e PROVE InSeq(c, r)
    BY <2>8, <2>10 DEF InSeq
  <2> QED  BY <2>5, <2>6, <2>9, <2>10
<1> QED  BY <1>1, <1>2

\* Appending an element.
LEMMA Appended ==
    ASSUME NEW S, NEW s \in Seq(S), NEW e \in S, NEW r, r = Append(s, e)
    PROVE  /\ r \in Seq(S) /\ Len(r) = Len(s) + 1 /\ r[Len(r)] = e
           /\ \A k \in 1..Len(s) : r[k] = s[k]
OBVIOUS

\* What an appended sequence contains.
LEMMA AppendedIn ==
    ASSUME NEW S, NEW s \in Seq(S), NEW e \in S, NEW r, r = Append(s, e)
    PROVE  /\ \A c : InSeq(c, r) <=> InSeq(c, s) \/ c = e
           /\ Apart(s) /\ ~InSeq(e, s) => Apart(r)
<1>1. 1..Len(r) = 1..Len(s) \cup {Len(r)} /\ Len(s) \in Nat
  BY Appended
<1> QED  BY <1>1, Appended DEF InSeq, Apart

\* Map.delete(e) and Map.set(e): e is the last key, and no other one changes.
LEMMA KeyRenewed ==
    ASSUME NEW S, NEW s \in Seq(S), NEW e \in S, Apart(s),
           NEW r, r = Append(A!RemoveFirst(s, e), e)
    PROVE  /\ r \in Seq(S) /\ Apart(r) /\ Len(r) \in Nat \ {0}
           /\ \A c : InSeq(c, r) <=> InSeq(c, s) \/ c = e
<1>1. PICK d : d = A!RemoveFirst(s, e)
  OBVIOUS
<1>2. /\ d \in Seq(S) /\ Apart(d)
      /\ \A c : InSeq(c, d) <=> InSeq(c, s) /\ c # e
  BY <1>1, KeyRemoved
<1>3. r = Append(d, e)
  BY <1>1
<1>4. r \in Seq(S) /\ Len(r) = Len(d) + 1
  BY <1>2, <1>3, Appended
<1>5. Apart(r) /\ \A c : InSeq(c, r) <=> InSeq(c, d) \/ c = e
  BY <1>2, <1>3, AppendedIn
<1> QED  BY <1>2, <1>4, <1>5

\* Dropping the first element.
LEMMA FirstDropped ==
    ASSUME NEW S, NEW s \in Seq(S), s # <<>>, NEW r, r = Tail(s)
    PROVE  /\ r \in Seq(S) /\ Len(s) \in Nat \ {0} /\ Len(r) = Len(s) - 1 /\ Head(s) = s[1]
           /\ \A k \in 1..Len(r) : r[k] = s[k + 1]
           /\ \A c : InSeq(c, s) <=> InSeq(c, r) \/ c = s[1]
           /\ Apart(s) => Apart(r) /\ ~InSeq(s[1], r)
<1>1. /\ r \in Seq(S) /\ Len(s) \in Nat \ {0} /\ Len(r) = Len(s) - 1 /\ Head(s) = s[1]
      /\ \A k \in 1..Len(r) : r[k] = s[k + 1]
  BY HeadTailProperties
<1>2. \A c : InSeq(c, s) <=> InSeq(c, r) \/ c = s[1]
  <2>1. ASSUME NEW k \in 1..Len(s), k # 1 PROVE k - 1 \in 1..Len(r) /\ r[k - 1] = s[k]
    BY <1>1, <2>1
  <2>2. ASSUME NEW k \in 1..Len(r) PROVE k + 1 \in 1..Len(s) /\ r[k] = s[k + 1]
    BY <1>1
  <2>3. 1 \in 1..Len(s)
    BY <1>1
  <2> QED  BY <2>1, <2>2, <2>3 DEF InSeq
<1>3. Apart(s) => Apart(r) /\ ~InSeq(s[1], r)
  <2>1. ASSUME NEW k \in 1..Len(r) PROVE k + 1 \in 1..Len(s) /\ k + 1 # 1
    BY <1>1
  <2>2. 1 \in 1..Len(s)
    BY <1>1
  <2> QED  BY <1>1, <2>1, <2>2 DEF Apart, InSeq
<1> QED  BY <1>1, <1>2, <1>3

\* The sequence up to its first element.
LEMMA FirstOnly ==
    ASSUME NEW S, NEW s \in Seq(S), 1 \in 1..Len(s) PROVE SubSeq(s, 1, 1) = <<s[1]>>
<1> DEFINE l == SubSeq(s, 1, 1)
<1>1. l \in Seq(S) /\ Len(l) = 1 /\ l[1] = s[1]
  OBVIOUS
<1> HIDE DEF l
<1>2. PICK r : r = <<s[1]>>
  OBVIOUS
<1>3. r \in Seq(S) /\ Len(r) = 1 /\ r[1] = s[1]
  BY <1>2
<1>4. \A i \in 1..Len(l) : l[i] = r[i]
  BY <1>1, <1>3
<1>5. l = r
  BY <1>1, <1>3, <1>4, SeqEqual
<1> QED  BY <1>2, <1>5 DEF l

-----------------------------------------------------------------------------
(* The dispatch chains.                                                    *)

\* c waits in its chain, or its fn runs.
Open(c) == phase[c] \in {"waiting", "dispatching"}

\* The calls with a link have started; those whose dispatch began waited for
\* the link before theirs.
LinksKnown == \A c \in Call :
    /\ c \in DOMAIN prev => phase[c] # "none"
    /\ c \in DOMAIN prev /\ phase[c] # "waiting" => A!LinkSettled(prev[c])
    /\ Open(c) => c \in DOMAIN prev

\* s lists the open calls of x as they are chained, up to the tail.
IsLine(s, x) ==
    /\ Apart(s)
    /\ \A c \in Call : InSeq(c, s) <=> ContextOf[c] = x /\ Open(c)
    /\ \A i \in 1..Len(s) : IF i = 1 THEN A!LinkSettled(prev[s[i]]) ELSE prev[s[i]] = s[i - 1]
    /\ IF s = <<>> THEN A!LinkSettled(tail[x]) ELSE tail[x] = s[Len(s)]

LinesExist == \A x \in Context : \E s \in Seq(Call) : IsLine(s, x)

-----------------------------------------------------------------------------
(* Steps of the agent executor.                                            *)

AgentStep ==
    \/ \E c \in Call : \/ A!Execute(c) \/ A!Heartbeat(c)
                       \/ A!DispatchStarts(c) \/ A!DispatchSettles(c)
                       \/ A!FallbackEnds(c) \/ A!CleanUp(c)
    \/ \E t \in Task, s \in {"rejected", "submitted", "canceled"} : OnlyPublish(t, s)
    \/ \E t \in Task : A!CancelTask(t)
    \/ UNCHANGED agentVars

\* What the steps of the composition do to the agent executor.
LEMMA StepOfAgent == QP!TypeOK /\ [Next]_vars => AgentStep
<1> SUFFICES ASSUME QP!TypeOK, [Next]_vars PROVE AgentStep
  OBVIOUS
<1> USE DEF AgentStep
<1>1. ASSUME NEW c \in Call, ExecuteNow(c) PROVE AgentStep
  BY <1>1 DEF ExecuteNow
<1>2. ASSUME NEW c \in Call, ExecuteRejected(c) PROVE AgentStep
  BY <1>2, ExecutorAssumption DEF ExecuteRejected
<1>3. ASSUME NEW c \in Call, ExecuteQueued(c) PROVE AgentStep
  BY <1>3, ExecutorAssumption DEF ExecuteQueued
<1>4. ASSUME NEW c \in Call, FinishRun(c) PROVE AgentStep
  BY <1>4 DEF FinishRun
<1>5. ASSUME NEW c \in Call, Agent(c) PROVE AgentStep
  BY <1>5 DEF Agent, A!Progress
<1>6. ASSUME NEW c \in Call, Heartbeat(c) PROVE AgentStep
  BY <1>6 DEF Heartbeat
<1>7. ASSUME NEW t \in Task, CancelQueued(t) PROVE AgentStep
  BY <1>7 DEF CancelQueued
<1>8. ASSUME NEW t \in Task, CancelRunning(t) PROVE AgentStep
  BY <1>8 DEF CancelRunning
<1>9. CASE DrainQueue
  <2>1. queue \in Seq(Call) /\ queue # <<>>
    BY <1>9 DEF QP!TypeOK, DrainQueue, Q!DrainQueue, Q!DrainGuard
  <2> QED  BY <1>9, <2>1, HeadTailProperties DEF DrainQueue
<1>10. CASE DrainQueueEnds
  BY <1>10 DEF DrainQueueEnds
<1>11. CASE UNCHANGED vars
  BY <1>11 DEF vars
<1> QED
  BY <1>1, <1>2, <1>3, <1>4, <1>5, <1>6, <1>7, <1>8, <1>9, <1>10, <1>11 DEF Next

\* rememberTaskContext(t): t is cached, nothing else comes, and nothing goes
\* unless there are more keys than the limit.
LEMMA Remembered ==
    ASSUME cache \in Seq(Task), Apart(cache), NEW t \in Task, A!Remember(t)
    PROVE  /\ cache' \in Seq(Task) /\ Apart(cache')
           /\ \A k : InSeq(k, cache') => InSeq(k, cache) \/ k = t
           /\ \/ \A k : InSeq(k, cache) \/ k = t => InSeq(k, cache')
              \/ \E kept \in Seq(Task) :
                    /\ Apart(kept) /\ Len(kept) > CacheLimit
                    /\ \A k : InSeq(k, kept) => InSeq(k, cache) \/ k = t
<1> DEFINE kept == Append(A!RemoveFirst(cache, t), t)
<1>1. cache' = IF Len(kept) > CacheLimit THEN Tail(kept) ELSE kept
  BY DEF A!Remember
<1>2. kept \in Seq(Task) /\ Apart(kept) /\ Len(kept) \in Nat \ {0}
  BY KeyRenewed
<1>3. \A k : InSeq(k, kept) <=> InSeq(k, cache) \/ k = t
  BY KeyRenewed
<1> HIDE DEF kept
<1>4. CASE ~(Len(kept) > CacheLimit)
  BY <1>1, <1>2, <1>3, <1>4
<1>5. CASE Len(kept) > CacheLimit
  <2>1. kept # <<>>
    BY <1>2
  <2>2. /\ cache' \in Seq(Task) /\ Apart(cache')
        /\ \A k : InSeq(k, cache') => InSeq(k, kept)
    BY <1>1, <1>2, <1>5, <2>1, FirstDropped
  <2> QED  BY <1>2, <1>3, <1>5, <2>2
<1> QED  BY <1>4, <1>5

\* The types, and no task is cached twice.
AgentTypes == A!TypeOK /\ Apart(cache)

\* The variables of the agent executor keep their types, and the cache its keys apart.
LEMMA AgentTypesKept == AgentTypes /\ AgentStep => AgentTypes'
<1> SUFFICES ASSUME AgentTypes, AgentStep PROVE AgentTypes'
  OBVIOUS
<1> USE DEF AgentTypes
<1>1. ASSUME NEW c \in Call, A!Execute(c) PROVE AgentTypes'
  <2>1. cache' \in Seq(Task) /\ Apart(cache')
    BY <1>1, Remembered, ExecutorAssumption DEF A!Execute, A!TypeOK
  <2>2. phase' \in [Call -> A!Phases] /\ cleaned' = cleaned
    BY <1>1 DEF A!Execute, A!TypeOK, A!Phases
  <2>3. state' \in [Task -> A!Terminal \cup {"none", "submitted", "working"}]
    BY <1>1 DEF A!Execute, A!Publish, A!TypeOK, A!Terminal
  <2>4. tail' \in [Context -> Call \cup {NoCall}]
    BY <1>1 DEF A!Execute, A!EnqueueDispatch, A!TypeOK
  <2>5. /\ DOMAIN prev \subseteq DOMAIN prev' /\ DOMAIN prev' \subseteq Call
        /\ prev' \in [DOMAIN prev' -> Call \cup {NoCall}]
    BY <1>1, ExecutorAssumption DEF A!Execute, A!EnqueueDispatch, A!TypeOK
  <2> QED  BY <2>1, <2>2, <2>3, <2>4, <2>5 DEF A!TypeOK
<1>2. ASSUME NEW c \in Call, A!Heartbeat(c) PROVE AgentTypes'
  BY <1>2 DEF A!Heartbeat, A!Publish, A!TypeOK
<1>3. ASSUME NEW c \in Call, A!DispatchStarts(c) PROVE AgentTypes'
  BY <1>3 DEF A!DispatchStarts, A!TypeOK, A!Phases
<1>4. ASSUME NEW c \in Call, A!DispatchSettles(c) PROVE AgentTypes'
  BY <1>4 DEF A!DispatchSettles, A!Publish, A!TypeOK, A!Phases, A!Terminal
<1>5. ASSUME NEW c \in Call, A!FallbackEnds(c) PROVE AgentTypes'
  BY <1>5 DEF A!FallbackEnds, A!Publish, A!TypeOK, A!Phases, A!Terminal
<1>6. ASSUME NEW c \in Call, A!CleanUp(c) PROVE AgentTypes'
  BY <1>6 DEF A!CleanUp, A!CleanUpDue, A!DropTail, A!TypeOK
<1>7. ASSUME NEW t \in Task, NEW s \in {"rejected", "submitted", "canceled"}, OnlyPublish(t, s)
      PROVE  AgentTypes'
  BY <1>7 DEF OnlyPublish, A!Publish, A!TypeOK, A!Terminal
<1>8. ASSUME NEW t \in Task, A!CancelTask(t) PROVE AgentTypes'
  <2>1. cache' \in Seq(Task) /\ Apart(cache')
    BY <1>8, KeyRemoved DEF A!CancelTask, A!TypeOK
  <2> QED  BY <1>8, <2>1 DEF A!CancelTask, A!Publish, A!TypeOK, A!Terminal
<1>9. CASE UNCHANGED agentVars
  BY <1>9 DEF agentVars, A!TypeOK
<1> QED
  BY <1>1, <1>2, <1>3, <1>4, <1>5, <1>6, <1>7, <1>8, <1>9 DEF AgentStep

-----------------------------------------------------------------------------
(* Steps, as the chains see them.                                          *)

\* execute(c) reaches enqueueDispatch.
Joins(c) ==
    /\ phase[c] = "none" /\ phase' = [phase EXCEPT ![c] = "waiting"]
    /\ A!EnqueueDispatch(c, ContextOf[c])
    /\ UNCHANGED cleaned

\* fn of c is called, and settles.
Serves(c) ==
    /\ phase[c] = "waiting" /\ A!LinkSettled(prev[c])
    /\ phase' = [phase EXCEPT ![c] = "dispatching"]
    /\ UNCHANGED <<prev, tail, cleaned>>

Leaves(c) ==
    /\ phase[c] = "dispatching"
    /\ \E p \in {"waking", "resolved"} : phase' = [phase EXCEPT ![c] = p]
    /\ UNCHANGED <<prev, tail, cleaned>>

\* execute(c) ends without ever chaining, or after the wake-up call.
Ends(c) ==
    /\ phase[c] \in {"none", "waking"}
    /\ \E p \in {"resolved", "rejected"} : phase' = [phase EXCEPT ![c] = p]
    /\ UNCHANGED <<prev, tail, cleaned>>

ChainStep ==
    \/ \E c \in Call : Joins(c) \/ Serves(c) \/ Leaves(c) \/ Ends(c) \/ A!CleanUp(c)
    \/ UNCHANGED <<phase, prev, tail, cleaned>>

\* Every step of the agent executor is one of these.
LEMMA StepOfChains == AgentStep => ChainStep
<1> SUFFICES ASSUME AgentStep PROVE ChainStep
  OBVIOUS
<1> USE DEF ChainStep
<1>1. ASSUME NEW c \in Call, A!Execute(c) PROVE ChainStep
  BY <1>1 DEF A!Execute, Joins, Ends
<1>2. ASSUME NEW c \in Call, A!Heartbeat(c) PROVE ChainStep
  BY <1>2 DEF A!Heartbeat
<1>3. ASSUME NEW c \in Call, A!DispatchStarts(c) PROVE ChainStep
  BY <1>3 DEF A!DispatchStarts, Serves
<1>4. ASSUME NEW c \in Call, A!DispatchSettles(c) PROVE ChainStep
  BY <1>4 DEF A!DispatchSettles, Leaves
<1>5. ASSUME NEW c \in Call, A!FallbackEnds(c) PROVE ChainStep
  BY <1>5 DEF A!FallbackEnds, Ends
<1>6. ASSUME NEW t \in Task, NEW s \in {"rejected", "submitted", "canceled"}, OnlyPublish(t, s)
      PROVE  ChainStep
  BY <1>6 DEF OnlyPublish
<1>7. ASSUME NEW t \in Task, A!CancelTask(t) PROVE ChainStep
  BY <1>7 DEF A!CancelTask
<1>8. CASE UNCHANGED agentVars
  BY <1>8 DEF agentVars
<1> QED
  BY <1>1, <1>2, <1>3, <1>4, <1>5, <1>6, <1>7, <1>8 DEF AgentStep

\* A link that has settled stays so, and a call is chained only once.
LEMMA LinksKept ==
    ASSUME A!TypeOK, LinksKnown, ChainStep
    PROVE  /\ \A c \in Call \cup {NoCall} : A!LinkSettled(c) => A!LinkSettled(c)'
           /\ \A c \in DOMAIN prev : c \in DOMAIN prev' /\ prev'[c] = prev[c]
<1> USE DEF A!TypeOK
<1>1. ASSUME NEW c \in Call, Joins(c)
      PROVE  /\ \A d \in Call \cup {NoCall} : A!LinkSettled(d) => A!LinkSettled(d)'
             /\ \A d \in DOMAIN prev : d \in DOMAIN prev' /\ prev'[d] = prev[d]
  <2>1. c \notin DOMAIN prev
    BY <1>1 DEF Joins, LinksKnown
  <2>2. phase[c] = "none" /\ \A d \in Call : d # c => phase'[d] = phase[d]
    BY <1>1 DEF Joins
  <2> QED  BY <1>1, <2>1, <2>2 DEF Joins, A!EnqueueDispatch, A!LinkSettled
<1>2. ASSUME NEW c \in Call, Serves(c) \/ Leaves(c) \/ Ends(c)
      PROVE  \A d \in Call \cup {NoCall} : A!LinkSettled(d) => A!LinkSettled(d)'
  BY <1>2 DEF Serves, Leaves, Ends, A!LinkSettled
<1>3. ASSUME NEW c \in Call, A!CleanUp(c) PROVE UNCHANGED <<phase, prev>>
  BY <1>3 DEF A!CleanUp
<1> QED
  BY <1>1, <1>2, <1>3 DEF ChainStep, A!LinkSettled, Serves, Leaves, Ends

\* What is known of the links stays known.
LEMMA LinksKnownKept ==
    ASSUME A!TypeOK, LinksKnown, ChainStep PROVE LinksKnown'
<1> SUFFICES ASSUME NEW d \in Call
    PROVE  /\ d \in DOMAIN prev' => phase'[d] # "none"
           /\ d \in DOMAIN prev' /\ phase'[d] # "waiting" => A!LinkSettled(prev[d])'
           /\ Open(d)' => d \in DOMAIN prev'
  BY DEF LinksKnown
<1> USE DEF A!TypeOK, Open
<1>1. d \in DOMAIN prev => prev[d] \in Call \cup {NoCall}
  OBVIOUS
<1>2. d \in DOMAIN prev /\ A!LinkSettled(prev[d]) => A!LinkSettled(prev[d])'
  BY <1>1, LinksKept
<1>3. ASSUME NEW c \in Call, Joins(c)
      PROVE  /\ d \in DOMAIN prev' => phase'[d] # "none"
             /\ d \in DOMAIN prev' /\ phase'[d] # "waiting" => A!LinkSettled(prev[d])'
             /\ Open(d)' => d \in DOMAIN prev'
  BY <1>2, <1>3 DEF Joins, A!EnqueueDispatch, LinksKnown
<1>4. ASSUME NEW c \in Call, Serves(c) \/ Leaves(c) \/ Ends(c)
      PROVE  /\ d \in DOMAIN prev' => phase'[d] # "none"
             /\ d \in DOMAIN prev' /\ phase'[d] # "waiting" => A!LinkSettled(prev[d])'
             /\ Open(d)' => d \in DOMAIN prev'
  BY <1>2, <1>4 DEF Serves, Leaves, Ends, LinksKnown
<1>5. ASSUME NEW c \in Call, A!CleanUp(c) PROVE UNCHANGED <<phase, prev>>
  BY <1>5 DEF A!CleanUp
<1> QED
  BY <1>2, <1>3, <1>4, <1>5 DEF ChainStep, LinksKnown, A!LinkSettled

\* An entry of the map is a call of its context whose cleanup is still to come.
LEMMA NoChainLeakKept ==
    ASSUME A!TypeOK, LinksKnown, A!NoChainLeak, ChainStep PROVE A!NoChainLeak'
<1> USE DEF A!TypeOK, A!NoChainLeak
<1>1. ASSUME NEW c \in Call, Joins(c) PROVE A!NoChainLeak'
  <2>1. c \notin cleaned
    BY <1>1 DEF Joins, LinksKnown
  <2> QED  BY <1>1, <2>1 DEF Joins, A!EnqueueDispatch
<1>2. ASSUME NEW c \in Call, Serves(c) \/ Leaves(c) \/ Ends(c) PROVE UNCHANGED <<tail, cleaned>>
  BY <1>2 DEF Serves, Leaves, Ends
<1>3. ASSUME NEW c \in Call, A!CleanUp(c) PROVE A!NoChainLeak'
  BY <1>3, ExecutorAssumption DEF A!CleanUp, A!DropTail, A!CleanUpDue
<1> QED  BY <1>1, <1>2, <1>3 DEF ChainStep

\* Only the head of a line has a predecessor that has settled.
LEMMA HeadOnly ==
    ASSUME LinksKnown, NEW x \in Context, NEW s \in Seq(Call), IsLine(s, x),
           NEW c \in Call, ContextOf[c] = x, Open(c), A!LinkSettled(prev[c])
    PROVE  Len(s) \in Nat \ {0} /\ c = s[1]
<1>1. PICK i \in 1..Len(s) : s[i] = c
  BY DEF IsLine, InSeq
<1>2. CASE i # 1
  <2>1. i - 1 \in 1..Len(s) /\ prev[c] = s[i - 1]
    BY <1>1, <1>2 DEF IsLine
  <2>2. s[i - 1] \in Call /\ Open(s[i - 1])
    BY <2>1 DEF IsLine, InSeq
  <2> QED  BY <2>1, <2>2, ExecutorAssumption DEF A!LinkSettled, Open
<1> QED  BY <1>1, <1>2

\* A call that chains goes to the end of its context's line.
LEMMA LineJoined ==
    ASSUME A!TypeOK, LinksKnown, NEW x \in Context, NEW s \in Seq(Call), IsLine(s, x),
           NEW c \in Call, Joins(c)
    PROVE  ContextOf[c] = x => IsLine(Append(s, c), x)'
<1> SUFFICES ASSUME ContextOf[c] = x PROVE IsLine(Append(s, c), x)'
  OBVIOUS
<1> USE DEF A!TypeOK
<1>1. PICK r : r = Append(s, c)
  OBVIOUS
<1>2. r \in Seq(Call) /\ Len(r) = Len(s) + 1 /\ r[Len(r)] = c /\ \A k \in 1..Len(s) : r[k] = s[k]
  BY <1>1, Appended
<1>3. /\ \A d : InSeq(d, r) <=> InSeq(d, s) \/ d = c
      /\ Apart(s) /\ ~InSeq(c, s) => Apart(r)
  BY <1>1, AppendedIn, ZenonT(30)
<1>4. /\ c \notin DOMAIN prev /\ ~Open(c) /\ Open(c)'
      /\ \A d \in Call : d # c => (Open(d)' <=> Open(d))
  BY DEF Joins, LinksKnown, Open
<1>5. prev'[c] = tail[x] /\ tail'[x] = c /\ \A d \in DOMAIN prev : prev'[d] = prev[d]
  BY <1>4 DEF Joins, A!EnqueueDispatch
<1>6. \A k \in 1..Len(s) : s[k] \in DOMAIN prev /\ s[k] # c
  BY <1>4 DEF IsLine, InSeq, LinksKnown
<1>7. ASSUME NEW i \in 1..Len(r)
      PROVE  IF i = 1 THEN A!LinkSettled(prev[r[i]])' ELSE prev'[r[i]] = r[i - 1]
  <2>1. CASE i \in 1..Len(s)
    <3>1. r[i] = s[i] /\ prev'[s[i]] = prev[s[i]]
      BY <1>2, <1>5, <1>6, <2>1
    <3>2. i # 1 => r[i - 1] = s[i - 1]
      BY <1>2, <2>1
    <3>3. prev[s[i]] \in Call \cup {NoCall}
      BY <1>6, <2>1
    <3>4. A!LinkSettled(prev[s[i]]) => A!LinkSettled(prev[s[i]])'
      BY <3>1, <3>3, LinksKept DEF ChainStep, A!LinkSettled
    <3> QED  BY <2>1, <3>1, <3>2, <3>4 DEF IsLine
  <2>2. CASE i = Len(s) + 1
    <3>1. r[i] = c /\ prev'[c] = tail[x]
      BY <1>2, <1>5, <2>2
    <3>2. CASE s = <<>>
      <4>1. A!LinkSettled(tail[x]) /\ i = 1
        BY <2>2, <3>2 DEF IsLine
      <4>2. tail[x] \in Call \cup {NoCall}
        OBVIOUS
      <4>3. A!LinkSettled(prev[c])'
        BY <3>1, <4>1, <4>2, LinksKept DEF ChainStep, A!LinkSettled
      <4> QED  BY <3>1, <4>1, <4>3
    <3>3. CASE s # <<>>
      BY <1>2, <2>2, <3>1, <3>3 DEF IsLine
    <3> QED  BY <3>2, <3>3
  <2> QED  BY <1>2, <2>1, <2>2
<1>8. Apart(r)
  BY <1>3, <1>6 DEF IsLine, InSeq
<1>9. \A d \in Call : InSeq(d, r) <=> ContextOf[d] = x /\ Open(d)'
  BY <1>3, <1>4 DEF IsLine
<1>10. r # <<>> /\ tail'[x] = r[Len(r)]
  BY <1>2, <1>5
<1>11. IsLine(r, x)'
  BY <1>7, <1>8, <1>9, <1>10 DEF IsLine
<1> QED  BY <1>1, <1>11

\* Whatever else happens, the line stays as long as its calls stay open.
LEMMA LineStays ==
    ASSUME A!TypeOK, LinksKnown, NEW x \in Context, NEW s \in Seq(Call), IsLine(s, x),
           ChainStep,
           \A d \in Call : ContextOf[d] = x => (Open(d)' <=> Open(d)),
           tail'[x] = tail[x] \/ (A!LinkSettled(tail[x]) /\ tail'[x] = NoCall)
    PROVE  IsLine(s, x)'
<1> USE DEF A!TypeOK
<1>1. \A d \in Call : InSeq(d, s) <=> ContextOf[d] = x /\ Open(d)'
  BY DEF IsLine
<1>2. \A k \in 1..Len(s) : s[k] \in Call /\ Open(s[k]) /\ s[k] \in DOMAIN prev
  BY DEF IsLine, InSeq, LinksKnown
<1>3. ASSUME NEW i \in 1..Len(s)
      PROVE  IF i = 1 THEN A!LinkSettled(prev[s[i]])' ELSE prev'[s[i]] = s[i - 1]
  <2>1. prev'[s[i]] = prev[s[i]] /\ prev[s[i]] \in Call \cup {NoCall}
    BY <1>2, LinksKept
  <2>2. A!LinkSettled(prev[s[i]]) => A!LinkSettled(prev[s[i]])'
    BY <2>1, LinksKept DEF ChainStep, A!LinkSettled
  <2> QED  BY <2>1, <2>2 DEF IsLine
<1>4. IF s = <<>> THEN A!LinkSettled(tail[x])' ELSE tail'[x] = s[Len(s)]
  <2>1. CASE s = <<>>
    <3>1. A!LinkSettled(tail[x]) /\ tail[x] \in Call \cup {NoCall}
      BY <2>1 DEF IsLine
    <3> QED  BY <2>1, <3>1, LinksKept DEF A!LinkSettled
  <2>2. CASE s # <<>>
    <3>1. Len(s) \in 1..Len(s) /\ tail[x] = s[Len(s)]
      BY <2>2 DEF IsLine
    <3>2. ~A!LinkSettled(tail[x])
      BY <1>2, <3>1, ExecutorAssumption DEF A!LinkSettled, Open
    <3> QED  BY <2>2, <3>1, <3>2
  <2> QED  BY <2>1, <2>2
<1> QED  BY <1>1, <1>3, <1>4 DEF IsLine

\* A call whose service ends was the head of its line, and leaves it.
LEMMA LineLeft ==
    ASSUME A!TypeOK, LinksKnown, NEW x \in Context, NEW s \in Seq(Call), IsLine(s, x),
           NEW c \in Call, Leaves(c), ContextOf[c] = x
    PROVE  s # <<>> /\ IsLine(Tail(s), x)'
<1> USE DEF A!TypeOK
<1>1. Open(c) /\ A!LinkSettled(prev[c])
  BY DEF Leaves, LinksKnown, Open
<1>2. Len(s) \in Nat \ {0} /\ c = s[1] /\ s # <<>>
  BY <1>1, HeadOnly
<1>3. PICK r : r = Tail(s)
  OBVIOUS
<1>4. /\ r \in Seq(Call) /\ Len(r) = Len(s) - 1
      /\ \A k \in 1..Len(r) : r[k] = s[k + 1]
  BY <1>2, <1>3, FirstDropped
<1>5. /\ \A d : InSeq(d, s) <=> InSeq(d, r) \/ d = c
      /\ Apart(s) => Apart(r) /\ ~InSeq(c, r)
  BY <1>2, <1>3, FirstDropped
<1>6. /\ A!LinkSettled(c)' /\ ~Open(c)' /\ prev' = prev /\ tail' = tail
      /\ \A d \in Call : d # c => (Open(d)' <=> Open(d))
  BY DEF Leaves, Open, A!LinkSettled
<1>7. ASSUME NEW i \in 1..Len(r)
      PROVE  IF i = 1 THEN A!LinkSettled(prev[r[i]])' ELSE prev'[r[i]] = r[i - 1]
  <2>1. i + 1 \in 1..Len(s) /\ r[i] = s[i + 1] /\ prev[s[i + 1]] = s[i]
    BY <1>4 DEF IsLine
  <2>2. CASE i = 1
    <3>1. prev[r[i]] = c
      BY <1>2, <2>1, <2>2
    <3> QED  BY <1>6, <2>2, <3>1 DEF A!LinkSettled
  <2>3. CASE i # 1
    <3>1. i - 1 \in 1..Len(r) /\ (i - 1) + 1 = i
      BY <1>4, <2>3
    <3>2. r[i - 1] = s[i]
      BY <1>4, <3>1
    <3> QED  BY <1>6, <2>1, <2>3, <3>2
  <2> QED  BY <2>2, <2>3
<1>8. IF r = <<>> THEN A!LinkSettled(tail[x])' ELSE tail'[x] = r[Len(r)]
  <2>1. tail[x] = s[Len(s)]
    BY <1>2 DEF IsLine
  <2>2. CASE r = <<>>
    <3>1. tail'[x] = c
      <4>1. Len(r) = 0
        BY <2>2
      <4>2. Len(s) = 1
        BY <1>2, <1>4, <4>1
      <4> QED  BY <1>2, <1>6, <2>1, <4>2
    <3> QED  BY <1>6, <2>2, <3>1 DEF A!LinkSettled
  <2>3. CASE r # <<>>
    BY <1>2, <1>4, <1>6, <2>1, <2>3
  <2> QED  BY <2>2, <2>3
<1>9. \A d \in Call : InSeq(d, r) <=> ContextOf[d] = x /\ Open(d)'
  BY <1>5, <1>6 DEF IsLine
<1>10. IsLine(r, x)'
  BY <1>5, <1>7, <1>8, <1>9 DEF IsLine
<1> QED  BY <1>2, <1>3, <1>10

\* The other lines of a step, and all of them when no call joins or leaves one.
LEMMA LineElsewhere ==
    ASSUME A!TypeOK, LinksKnown, NEW x \in Context, NEW s \in Seq(Call), IsLine(s, x),
           ChainStep, \A c \in Call : Joins(c) \/ Leaves(c) => ContextOf[c] # x
    PROVE  IsLine(s, x)'
<1> USE DEF A!TypeOK
<1>1. ASSUME NEW c \in Call, Joins(c) PROVE IsLine(s, x)'
  <2>1. ContextOf[c] # x
    BY <1>1
  <2>2. \A d \in Call : ContextOf[d] = x => (Open(d)' <=> Open(d))
    BY <1>1, <2>1 DEF Joins, Open
  <2>3. tail'[x] = tail[x]
    BY <1>1, <2>1, ExecutorAssumption DEF Joins, A!EnqueueDispatch
  <2> QED  BY <2>2, <2>3, LineStays
<1>2. ASSUME NEW c \in Call, Leaves(c) PROVE IsLine(s, x)'
  <2>1. \A d \in Call : ContextOf[d] = x => (Open(d)' <=> Open(d))
    BY <1>2 DEF Leaves, Open
  <2> QED  BY <1>2, <2>1, LineStays DEF Leaves
<1>3. ASSUME NEW c \in Call, Serves(c) \/ Ends(c) PROVE IsLine(s, x)'
  <2>1. \A d \in Call : Open(d)' <=> Open(d)
    BY <1>3 DEF Serves, Ends, Open
  <2> QED  BY <1>3, <2>1, LineStays DEF Serves, Ends
<1>4. ASSUME NEW c \in Call, A!CleanUp(c) PROVE IsLine(s, x)'
  <2>1. \A d \in Call : Open(d)' <=> Open(d)
    BY <1>4 DEF A!CleanUp, Open
  <2>2. tail'[x] = tail[x] \/ (A!LinkSettled(tail[x]) /\ tail'[x] = NoCall)
    BY <1>4, ExecutorAssumption DEF A!CleanUp, A!CleanUpDue, A!DropTail
  <2> QED  BY <2>1, <2>2, LineStays
<1>5. CASE UNCHANGED <<phase, prev, tail, cleaned>>
  BY <1>5, LineStays DEF Open
<1> QED  BY <1>1, <1>2, <1>3, <1>4, <1>5 DEF ChainStep

\* Every context keeps having a line.
LEMMA LinesExistKept ==
    ASSUME A!TypeOK, LinksKnown, LinesExist, ChainStep PROVE LinesExist'
<1> SUFFICES ASSUME NEW x \in Context PROVE \E r \in Seq(Call) : IsLine(r, x)'
  BY DEF LinesExist
<1>1. PICK s \in Seq(Call) : IsLine(s, x)
  BY DEF LinesExist
<1>2. CASE \A c \in Call : Joins(c) \/ Leaves(c) => ContextOf[c] # x
  BY <1>1, <1>2, LineElsewhere
<1>3. ASSUME NEW c \in Call, Joins(c), ContextOf[c] = x PROVE \E r \in Seq(Call) : IsLine(r, x)'
  BY <1>1, <1>3, LineJoined, AppendProperties
<1>4. ASSUME NEW c \in Call, Leaves(c), ContextOf[c] = x PROVE \E r \in Seq(Call) : IsLine(r, x)'
  <2>1. s # <<>> /\ IsLine(Tail(s), x)'
    BY <1>1, <1>4, LineLeft
  <2> QED  BY <2>1, HeadTailProperties
<1> QED  BY <1>2, <1>3, <1>4

-----------------------------------------------------------------------------
(* The inductive invariant of the chains.                                  *)

ChainInv == AgentTypes /\ LinksKnown /\ LinesExist /\ A!NoChainLeak

\* No chain exists at first.
LEMMA ChainInit == Init => ChainInv
<1> SUFFICES ASSUME A!Init PROVE ChainInv
  BY DEF Init
<1> USE DEF A!Init
<1>1. prev = <<>> /\ DOMAIN prev = {}
  OBVIOUS
<1>2. AgentTypes
  <2>1. cache \in Seq(Task) /\ Apart(cache)
    BY DEF Apart
  <2>2. prev \in [DOMAIN prev -> Call \cup {NoCall}]
    BY <1>1
  <2> QED  BY <1>1, <2>1, <2>2 DEF AgentTypes, A!TypeOK, A!Phases, A!Terminal
<1>3. LinksKnown
  BY <1>1 DEF LinksKnown, Open
<1>4. ASSUME NEW x \in Context PROVE <<>> \in Seq(Call) /\ IsLine(<<>>, x)
  BY DEF IsLine, Apart, InSeq, Open, A!LinkSettled
<1>5. A!NoChainLeak
  BY DEF A!NoChainLeak
<1> QED  BY <1>2, <1>3, <1>4, <1>5 DEF ChainInv, LinesExist

\* Every step preserves the invariant of the chains.
LEMMA ChainKept == ChainInv /\ AgentStep => ChainInv'
<1> SUFFICES ASSUME ChainInv, AgentStep PROVE ChainInv'
  OBVIOUS
<1>1. A!TypeOK /\ ChainStep
  BY StepOfChains DEF ChainInv, AgentTypes
<1>2. AgentTypes'
  BY AgentTypesKept DEF ChainInv
<1>3. LinksKnown'
  BY <1>1, LinksKnownKept DEF ChainInv
<1>4. LinesExist'
  BY <1>1, LinesExistKept DEF ChainInv
<1>5. A!NoChainLeak'
  BY <1>1, NoChainLeakKept DEF ChainInv
<1> QED  BY <1>2, <1>3, <1>4, <1>5 DEF ChainInv

\* The chains of the composition are always well formed.
THEOREM ChainsWellFormed == Spec => []ChainInv
<1>1. QP!IInv => QP!TypeOK
  BY DEF QP!IInv
<1>2. ChainInv /\ QP!TypeOK /\ [Next]_vars => ChainInv'
  BY StepOfAgent, ChainKept
<1> QED  BY <1>1, <1>2, ChainInit, QueueInvariant, PTL DEF Spec

\* No entry of dispatchQueues outlives the calls of its context, whichever
\* order the admission queue starts, ends and cancels calls in.
THEOREM ChainsDoNotLeak == Spec => []NoChainLeak
<1>1. ChainInv => NoChainLeak
  BY Zenon DEF ChainInv, NoChainLeak
<1> QED  BY <1>1, ChainsWellFormed, PTL

-----------------------------------------------------------------------------
(* The chains implement one line per context.                              *)

\* Following the links from an open call leads through the line before it.
LEMMA UpToEquation ==
    ASSUME ChainInv
    PROVE  A!UpTo = [c \in DOMAIN prev |-> IF A!LinkSettled(prev[c]) THEN <<c>>
                                           ELSE Append(A!UpTo[prev[c]], c)]
<1> DEFINE L == [x \in Context |-> CHOOSE s \in Seq(Call) : IsLine(s, x)]
           pos == [c \in Call |-> CHOOSE i \in 1..Len(L[ContextOf[c]]) : L[ContextOf[c]][i] = c]
           f == [c \in DOMAIN prev |-> IF A!LinkSettled(prev[c]) THEN <<c>>
                                       ELSE SubSeq(L[ContextOf[c]], 1, pos[c])]
           g == [c \in DOMAIN prev |-> IF A!LinkSettled(prev[c]) THEN <<c>>
                                       ELSE Append(f[prev[c]], c)]
<1>1. ASSUME NEW x \in Context PROVE L[x] \in Seq(Call) /\ IsLine(L[x], x)
  BY DEF ChainInv, LinesExist
<1>2. ASSUME NEW c \in Call, Open(c)
      PROVE  pos[c] \in 1..Len(L[ContextOf[c]]) /\ L[ContextOf[c]][pos[c]] = c
  <2>1. ContextOf[c] \in Context
    BY ExecutorAssumption
  <2> HIDE DEF L
  <2>2. IsLine(L[ContextOf[c]], ContextOf[c])
    BY <1>1, <2>1
  <2>3. \E i \in 1..Len(L[ContextOf[c]]) : L[ContextOf[c]][i] = c
    BY <1>2, <2>2 DEF IsLine, InSeq
  <2> QED  BY <2>3
<1>3. \A c \in DOMAIN prev : f[c] = IF A!LinkSettled(prev[c]) THEN <<c>>
                                    ELSE SubSeq(L[ContextOf[c]], 1, pos[c])
  OBVIOUS
<1> HIDE DEF L, pos, f
<1>4. ASSUME NEW c \in DOMAIN prev, ~A!LinkSettled(prev[c]) PROVE f[c] = Append(f[prev[c]], c)
  <2>1. c \in Call /\ Open(c) /\ ContextOf[c] \in Context
    BY <1>4, ExecutorAssumption DEF ChainInv, AgentTypes, A!TypeOK, LinksKnown, Open
  <2>2. PICK s \in Seq(Call), x \in Context : s = L[ContextOf[c]] /\ x = ContextOf[c] /\ IsLine(s, x)
    BY <1>1, <2>1
  <2>3. PICK i \in 1..Len(s) : i = pos[c] /\ s[i] = c
    BY <1>2, <2>1, <2>2
  <2>4. i # 1 /\ prev[c] = s[i - 1] /\ i - 1 \in 1..Len(s)
    BY <1>4, <2>2, <2>3 DEF IsLine
  <2>5. PICK d : d = prev[c]
    OBVIOUS
  <2>6. d \in Call /\ Open(d) /\ ContextOf[d] = x /\ d \in DOMAIN prev
    BY <2>2, <2>4, <2>5 DEF IsLine, InSeq, ChainInv, LinksKnown
  <2>7. SubSeq(s, 1, i) = Append(SubSeq(s, 1, i - 1), s[i])
    BY <2>3, <2>4, SMTT(30)
  <2>8. f[d] = SubSeq(s, 1, i - 1)
    <3>1. CASE i = 2
      <4>1. A!LinkSettled(prev[d]) /\ d = s[1]
        BY <2>2, <2>4, <2>5, <3>1 DEF IsLine
      <4>2. f[d] = <<d>>
        BY <1>3, <2>6, <4>1
      <4>3. SubSeq(s, 1, 1) = <<s[1]>>
        BY <2>4, FirstOnly
      <4> QED  BY <3>1, <4>1, <4>2, <4>3
    <3>2. CASE i # 2
      <4>1. pos[d] \in 1..Len(s) /\ s[pos[d]] = d
        BY <1>2, <2>2, <2>6
      <4>2. pos[d] = i - 1
        BY <2>2, <2>4, <2>5, <4>1 DEF IsLine, Apart
      <4>3. prev[d] = s[i - 2] /\ i - 2 \in 1..Len(s)
        BY <2>2, <2>4, <2>5, <3>2 DEF IsLine
      <4>4. ~A!LinkSettled(prev[d])
        <5>1. prev[d] \in Call /\ Open(prev[d])
          BY <2>2, <4>3 DEF IsLine, InSeq
        <5> QED  BY <5>1, ExecutorAssumption DEF A!LinkSettled, Open
      <4> QED  BY <1>3, <2>2, <2>6, <4>2, <4>4
    <3> QED  BY <3>1, <3>2
  <2>9. f[c] = SubSeq(s, 1, i)
    BY <1>3, <1>4, <2>2, <2>3
  <2> QED  BY <2>3, <2>5, <2>7, <2>8, <2>9
<1>5. f = [c \in DOMAIN prev |-> f[c]]
  BY DEF f
<1>6. f = g
  BY <1>3, <1>4, <1>5
<1>7. A!UpTo = CHOOSE h : h = [c \in DOMAIN prev |-> IF A!LinkSettled(prev[c]) THEN <<c>>
                                                     ELSE Append(h[prev[c]], c)]
  BY DEF A!UpTo
<1> QED  BY <1>6, <1>7

LinesAre == \A x \in Context, s \in Seq(Call) : IsLine(s, x) => A!Line(x) = s

\* The line that SerialDispatch sees is the one that exists.
LEMMA LineIs == ChainInv => LinesAre
<1> SUFFICES ASSUME ChainInv, NEW x \in Context, NEW s \in Seq(Call), IsLine(s, x)
             PROVE  A!Line(x) = s
  BY DEF LinesAre
<1>1. CASE s = <<>>
  BY <1>1 DEF A!Line, IsLine
<1>2. CASE s # <<>>
  <2>1. Len(s) \in 1..Len(s) /\ tail[x] = s[Len(s)]
    BY <1>2 DEF IsLine
  <2>2. \A k \in 1..Len(s) : s[k] \in DOMAIN prev /\ ~A!LinkSettled(s[k])
    <3>1. \A k \in 1..Len(s) : s[k] \in Call /\ Open(s[k])
      BY DEF IsLine, InSeq
    <3> QED  BY <3>1, ExecutorAssumption DEF ChainInv, LinksKnown, A!LinkSettled, Open
  <2>3. A!UpTo[s[1]] = SubSeq(s, 1, 1)
    <3>1. s[1] \in DOMAIN prev /\ A!LinkSettled(prev[s[1]])
      BY <2>1, <2>2 DEF IsLine
    <3>2. A!UpTo[s[1]] = <<s[1]>>
      BY <3>1, UpToEquation
    <3> QED  BY <2>1, <3>2, FirstOnly
  <2>4. ASSUME NEW i \in 1..Len(s), i # 1, A!UpTo[s[i - 1]] = SubSeq(s, 1, i - 1)
        PROVE  A!UpTo[s[i]] = SubSeq(s, 1, i)
    <3>1. prev[s[i]] = s[i - 1] /\ i - 1 \in 1..Len(s)
      BY <2>4 DEF IsLine
    <3>2. s[i] \in DOMAIN prev /\ ~A!LinkSettled(prev[s[i]])
      BY <2>2, <3>1
    <3>3. A!UpTo[s[i]] = Append(A!UpTo[prev[s[i]]], s[i])
      BY <3>2, UpToEquation
    <3>4. SubSeq(s, 1, i) = Append(SubSeq(s, 1, i - 1), s[i])
      BY <3>1
    <3> QED  BY <2>4, <3>1, <3>3, <3>4
  <2>5. \A i \in 1..Len(s) : A!UpTo[s[i]] = SubSeq(s, 1, i)
    <3> DEFINE T == {i \in 1..Len(s) : A!UpTo[s[i]] # SubSeq(s, 1, i)}
    <3>1. SUFFICES ASSUME T # {} PROVE FALSE
      OBVIOUS
    <3>2. T \in SUBSET Nat
      OBVIOUS
    <3>3. PICK i \in T : \A m \in T : i <= m
      BY <3>1, <3>2, Smallest
    <3>4. i # 1
      BY <2>3, <3>3
    <3>5. i - 1 \in 1..Len(s) /\ i - 1 \notin T
      BY <3>3, <3>4
    <3> QED  BY <2>4, <3>3, <3>4, <3>5
  <2>6. SubSeq(s, 1, Len(s)) = s
    BY SubSeqFull
  <2>7. A!Line(x) = A!UpTo[tail[x]]
    BY <2>1, <2>2 DEF A!Line
  <2> QED  BY <2>1, <2>5, <2>6, <2>7
<1> QED  BY <1>1, <1>2

Busy == {x \in Context : \E c \in Call : ContextOf[c] = x /\ phase[c] = "dispatching"}
LineOf == [x \in Context |-> A!Line(x)]

\* The line of a context, and its line after a step.
LEMMA LineUnchanged ==
    ASSUME ChainInv, ChainStep, LinesAre', NEW x \in Context,
           \A c \in Call : Joins(c) \/ Leaves(c) => ContextOf[c] # x
    PROVE  LineOf'[x] = LineOf[x]
<1>1. PICK s \in Seq(Call) : IsLine(s, x)
  BY DEF ChainInv, LinesExist
<1>2. IsLine(s, x)'
  BY <1>1, LineElsewhere DEF ChainInv, AgentTypes
<1> QED  BY <1>1, <1>2, LineIs DEF LinesAre, LineOf

\* A call that chains joins the line of its context.
LEMMA JoinRefines ==
    ASSUME ChainInv, LinesAre', NEW c \in Call, Joins(c)
    PROVE  A!Lines!Join(c)
<1> DEFINE y == ContextOf[c]
<1>1. y \in Context /\ ChainStep
  BY ExecutorAssumption DEF ChainStep
<1>2. \A d \in Call : Joins(d) \/ Leaves(d) => d = c
  BY DEF ChainInv, AgentTypes, A!TypeOK, Joins, Leaves
<1>3. ASSUME NEW x \in Context, x # y PROVE LineOf'[x] = LineOf[x]
  BY <1>1, <1>2, <1>3, LineUnchanged
<1>4. LineOf'[y] = Append(LineOf[y], c)
  <2>1. PICK s \in Seq(Call) : IsLine(s, y)
    BY <1>1 DEF ChainInv, LinesExist
  <2>2. IsLine(Append(s, c), y)'
    BY <1>1, <2>1, LineJoined DEF ChainInv, AgentTypes
  <2>3. Append(s, c) \in Seq(Call)
    BY AppendProperties
  <2> QED  BY <1>1, <2>1, <2>2, <2>3, LineIs DEF LinesAre, LineOf
<1>5. Busy' = Busy
  BY DEF Joins, Busy, ChainInv, AgentTypes, A!TypeOK
<1>6. LineOf' = [LineOf EXCEPT ![y] = Append(@, c)]
  BY <1>1, <1>3, <1>4 DEF LineOf
<1> QED  BY <1>5, <1>6 DEF A!Lines!Join, LineOf, Busy

\* fn is called for the head of a line that is not being served.
LEMMA ServeRefines ==
    ASSUME ChainInv, LinesAre', NEW c \in Call, Serves(c)
    PROVE  A!Lines!Serve(ContextOf[c])
<1> DEFINE y == ContextOf[c]
<1>1. y \in Context /\ ChainStep
  BY ExecutorAssumption DEF ChainStep
<1>2. \A d \in Call : ~Joins(d) /\ ~Leaves(d)
  BY DEF ChainInv, AgentTypes, A!TypeOK, Serves, Joins, Leaves
<1>3. LineOf' = LineOf
  <2>1. \A x \in Context : LineOf'[x] = LineOf[x]
    BY <1>1, <1>2, LineUnchanged
  <2> QED  BY <2>1 DEF LineOf
<1>4. PICK s \in Seq(Call) : IsLine(s, y)
  BY <1>1 DEF ChainInv, LinesExist
<1>5. Len(s) \in Nat \ {0} /\ c = s[1]
  BY <1>1, <1>4, HeadOnly DEF Serves, Open, ChainInv
<1>6. LineOf[y] # <<>>
  BY <1>1, <1>4, <1>5, LineIs DEF LinesAre, LineOf
<1>7. y \notin Busy
  <2>1. ASSUME NEW d \in Call, ContextOf[d] = y, phase[d] = "dispatching" PROVE FALSE
    <3>1. d = s[1]
      BY <1>1, <1>4, <2>1, HeadOnly DEF Open, ChainInv, LinksKnown
    <3> QED  BY <1>5, <2>1, <3>1 DEF Serves
  <2> QED  BY <2>1 DEF Busy
<1>8. Busy' = Busy \cup {y}
  BY <1>1 DEF Busy, Serves, ChainInv, AgentTypes, A!TypeOK
<1> QED  BY <1>3, <1>6, <1>7, <1>8 DEF A!Lines!Serve, LineOf, Busy

\* When fn has settled, the call that was served leaves the line.
LEMMA LeaveRefines ==
    ASSUME ChainInv, LinesAre', NEW c \in Call, Leaves(c)
    PROVE  A!Lines!Leave(ContextOf[c])
<1> DEFINE y == ContextOf[c]
<1>1. y \in Context /\ ChainStep
  BY ExecutorAssumption DEF ChainStep
<1>2. \A d \in Call : Joins(d) \/ Leaves(d) => d = c
  BY DEF ChainInv, AgentTypes, A!TypeOK, Joins, Leaves
<1>3. ASSUME NEW x \in Context, x # y PROVE LineOf'[x] = LineOf[x]
  BY <1>1, <1>2, <1>3, LineUnchanged
<1>4. PICK s \in Seq(Call) : IsLine(s, y)
  BY <1>1 DEF ChainInv, LinesExist
<1>5. LineOf'[y] = Tail(LineOf[y])
  <2>1. s # <<>> /\ IsLine(Tail(s), y)'
    BY <1>1, <1>4, LineLeft DEF ChainInv, AgentTypes
  <2>2. Tail(s) \in Seq(Call)
    BY <2>1, HeadTailProperties
  <2> QED  BY <1>1, <1>4, <2>1, <2>2, LineIs DEF LinesAre, LineOf
<1>6. LineOf' = [LineOf EXCEPT ![y] = Tail(@)]
  BY <1>1, <1>3, <1>5 DEF LineOf
<1>7. y \in Busy
  BY <1>1 DEF Busy, Leaves
<1>8. ASSUME NEW d \in Call, d # c, ContextOf[d] = y PROVE phase'[d] # "dispatching"
  <2>1. phase'[d] = phase[d]
    BY <1>8 DEF Leaves, ChainInv, AgentTypes, A!TypeOK
  <2>2. c = s[1]
    BY <1>1, <1>4, HeadOnly DEF Leaves, Open, ChainInv, LinksKnown
  <2>3. phase[d] = "dispatching" => d = s[1]
    BY <1>1, <1>4, <1>8, HeadOnly DEF Open, ChainInv, LinksKnown
  <2> QED  BY <1>8, <2>1, <2>2, <2>3
<1>9. Busy' = Busy \ {y}
  BY <1>1, <1>8 DEF Busy, Leaves, ChainInv, AgentTypes, A!TypeOK
<1> QED  BY <1>6, <1>7, <1>9 DEF A!Lines!Leave, LineOf, Busy

\* Every step of the chains is one of SerialDispatch, or leaves its variables alone.
LEMMA ChainRefines ==
    ASSUME ChainInv, LinesAre', ChainStep PROVE [A!Lines!Next]_A!Lines!vars
<1>1. ASSUME NEW c \in Call, Joins(c) PROVE A!Lines!Next
  BY <1>1, JoinRefines DEF A!Lines!Next
<1>2. ASSUME NEW c \in Call, Serves(c) PROVE A!Lines!Next
  BY <1>2, ServeRefines, ExecutorAssumption DEF A!Lines!Next
<1>3. ASSUME NEW c \in Call, Leaves(c) PROVE A!Lines!Next
  BY <1>3, LeaveRefines, ExecutorAssumption DEF A!Lines!Next
<1>4. ASSUME \A c \in Call : ~Joins(c) /\ ~Serves(c) /\ ~Leaves(c)
      PROVE  UNCHANGED A!Lines!vars
  <2>1. \A x \in Context : LineOf'[x] = LineOf[x]
    BY <1>4, LineUnchanged
  <2>2. LineOf' = LineOf
    BY <2>1 DEF LineOf
  <2>3. \A c \in Call : phase'[c] = "dispatching" <=> phase[c] = "dispatching"
    BY <1>4 DEF ChainStep, Ends, A!CleanUp, ChainInv, AgentTypes, A!TypeOK
  <2>4. Busy' = Busy
    BY <2>3 DEF Busy
  <2> QED  BY <2>2, <2>4 DEF A!Lines!vars, LineOf, Busy
<1> QED  BY <1>1, <1>2, <1>3, <1>4

\* Whatever order the queue starts calls in, those of a context are dispatched
\* one at a time, in that order, and contexts do not affect each other.
THEOREM ChainsAreLines == Spec => FifoPerContext
<1>1. Init => A!Lines!Init
  <2>1. ASSUME Init PROVE LineOf = [x \in Context |-> <<>>] /\ Busy = {}
    BY <2>1 DEF Init, A!Init, LineOf, Busy, A!Line, A!LinkSettled
  <2> QED  BY <2>1 DEF A!Lines!Init, LineOf, Busy
<1>2. ChainInv' => LinesAre'
  BY LineIs, PTL
<1>3. ChainInv /\ ChainInv' /\ QP!TypeOK /\ [Next]_vars => [A!Lines!Next]_A!Lines!vars
  BY <1>2, StepOfAgent, StepOfChains, ChainRefines
<1>4. QP!IInv => QP!TypeOK
  BY DEF QP!IInv
<1>5. Spec => A!Lines!Spec
  BY <1>1, <1>3, <1>4, QueueInvariant, ChainsWellFormed, PTL DEF Spec, A!Lines!Spec
<1> QED  BY <1>5 DEF FifoPerContext, A!FifoPerContext

-----------------------------------------------------------------------------
(* Steps, as the entries of the queue see them.                            *)

InQueue(c) == InSeq(c, queue)

\* execute(c) with a slot free: c runs; queueDelete may drop another entry.
Admits(c) ==
    /\ promise[c] = "none" /\ promise' = [promise EXCEPT ![c] = "pending"]
    /\ running' = running \cup {c}
    /\ \A d \in Call : InQueue(d)' => InQueue(d)
    /\ A!Execute(c)

\* execute(c) with the queue full, and with a place left.
TurnsAway(c) ==
    /\ promise[c] = "none" /\ promise' = [promise EXCEPT ![c] = "resolved"]
    /\ UNCHANGED <<running, queue>>
    /\ OnlyPublish(TaskOf[c], "rejected")

Queues(c) ==
    /\ promise[c] = "none"
    /\ promise' = [promise EXCEPT ![c] = IF TaskStateBound THEN "pending" ELSE "rejected"]
    /\ running' = running
    /\ \A d \in Call : InQueue(d)' <=> InQueue(d) \/ d = c
    /\ OnlyPublish(TaskOf[c], "submitted") \/ (~TaskStateBound /\ UNCHANGED agentVars)

\* The loop of drainQueue starts c.
Drains(c) ==
    /\ InQueue(c) /\ promise' = promise
    /\ running' = running \cup {c}
    /\ \A d \in Call : InQueue(d)' => InQueue(d) /\ d # c
    /\ A!Execute(c)

\* The run of c ends.
Settles(c) ==
    /\ c \in running /\ running' = running \ {c}
    /\ phase[c] \in {"resolved", "rejected"}
    /\ promise' = promise \/ promise' = [promise EXCEPT ![c] = phase[c]]
    /\ promise'[c] \in {"resolved", "rejected"}
    /\ UNCHANGED <<queue, agentVars>>

\* cancelTask() takes c out of the queue.
Withdraws(c) ==
    /\ InQueue(c) /\ TaskOf[c] \in Cancels
    /\ promise' = promise \/ promise' = [promise EXCEPT ![c] = "resolved"]
    /\ running' = running
    /\ \A d \in Call : InQueue(d)' => InQueue(d) /\ d # c
    /\ OnlyPublish(TaskOf[c], "canceled") \/ (~TaskStateBound /\ UNCHANGED agentVars)

JointStep ==
    \/ \E c \in Call : \/ Admits(c) \/ TurnsAway(c) \/ Queues(c)
                       \/ Drains(c) \/ Settles(c) \/ Withdraws(c)
    \/ /\ UNCHANGED <<promise, running, queue>>
       /\ \/ \E c \in Call : A!Progress(c) \/ A!Heartbeat(c)
          \/ \E t \in Task : A!CancelTask(t)
          \/ UNCHANGED agentVars

\* A thinned queue contains nothing new.
LEMMA ThinsIn ==
    ASSUME NEW q \in Seq(Call), NEW r, QP!Thins(r, q), NEW c, InSeq(c, r) PROVE InSeq(c, q)
BY DEF QP!Thins, InSeq

\* Every step of the composition is one of these.
LEMMA StepOfEntries == QP!IInv /\ [Next]_vars => JointStep
<1> SUFFICES ASSUME QP!IInv, [Next]_vars PROVE JointStep
  OBVIOUS
<1> USE DEF JointStep
<1>1. queue \in Seq(Call) /\ promise \in [Call -> {"none", "pending", "resolved", "rejected"}]
  BY DEF QP!IInv, QP!TypeOK, QP!Promises
<1>2. ASSUME NEW c \in Call, ExecuteNow(c) PROVE JointStep
  <2>1. queue' = QP!QueueDelete(queue, TaskOf[c])
    BY <1>2 DEF ExecuteNow, Q!ExecuteNow, Q!RunEntry, Q!QueueDelete, QP!QueueDelete,
               Q!FirstOf, QP!FirstOf, Q!Unqueue, QP!Unqueue, Q!RemoveAt, QP!RemoveAt
  <2>2. QP!Thins(queue', queue)
    BY <1>1, <2>1, QP!QueueDeleteThins, QueueAssumptions
       DEF QP!CallAssumption, QP!LimitAssumption, QP!BoundAssumption
  <2>3. \A d \in Call : InQueue(d)' => InQueue(d)
    BY <1>1, <2>2, ThinsIn DEF InQueue
  <2> QED  BY <1>2, <2>3 DEF ExecuteNow, Q!ExecuteNow, Q!Arrives, Q!RunEntry, Admits
<1>3. ASSUME NEW c \in Call, ExecuteRejected(c) PROVE JointStep
  BY <1>3 DEF ExecuteRejected, Q!ExecuteRejected, Q!Arrives, TurnsAway
<1>4. ASSUME NEW c \in Call, ExecuteQueued(c) PROVE JointStep
  <2>1. queue' = Append(queue, c)
    BY <1>4 DEF ExecuteQueued, Q!ExecuteQueued, Q!Push
  <2>2. \A d \in Call : InQueue(d)' <=> InQueue(d) \/ d = c
    BY <1>1, <2>1, AppendedIn DEF InQueue
  <2> QED  BY <1>4, <2>2, ExecutorAssumption DEF ExecuteQueued, Q!ExecuteQueued, Q!Arrives, Queues
<1>5. ASSUME NEW c \in Call, FinishRun(c) PROVE JointStep
  <2>1. Settles(c)
    BY <1>1, <1>5 DEF FinishRun, Q!FinishRun, Q!Settle, Q!Settled, Settles
  <2> QED  BY <2>1
<1>6. ASSUME NEW c \in Call, Agent(c) \/ Heartbeat(c) PROVE JointStep
  BY <1>6 DEF Agent, Heartbeat, queueVars
<1>7. ASSUME NEW t \in Task, CancelQueued(t) PROVE JointStep
  <2>1. PICK i \in 1..Len(queue) :
            /\ TaskOf[queue[i]] = t /\ queue' = QP!Unqueue(queue, i)
            /\ promise' = promise \/ promise' = [promise EXCEPT ![queue[i]] = "resolved"]
    BY <1>7 DEF CancelQueued, Q!CancelQueued, Q!FirstOf, Q!Unqueue, QP!Unqueue,
               Q!RemoveAt, QP!RemoveAt, Q!Settle
  <2>2. PICK c \in Call : c = queue[i]
    BY <1>1, <2>1
  <2>3. PICK q \in Seq(Call) : q = queue /\ i \in 1..Len(q)
    BY <1>1
  <2>4. \A k, m \in 1..Len(queue) : queue[k] = queue[m] => k = m
    BY DEF QP!IInv, QP!EntriesApart, QP!Apart
  <2>5. Apart(q) /\ queue' = A!RemoveAt(q, i) /\ c = q[i]
    BY <2>1, <2>2, <2>3, <2>4 DEF Apart, QP!Unqueue, QP!RemoveAt, A!RemoveAt
  <2>6. \A d : InSeq(d, queue') => InSeq(d, q) /\ d # q[i]
    BY <2>3, <2>5, SplicedAway
  <2>8. \A d \in Call : InQueue(d)' => InQueue(d) /\ d # c
    BY <2>3, <2>5, <2>6 DEF InQueue
  <2>9. InQueue(c)
    BY <2>2 DEF InQueue, InSeq
  <2>7. running' = running /\ t \in Cancels
    BY <1>7 DEF CancelQueued, Q!CancelQueued
  <2> QED  BY <1>7, <2>1, <2>2, <2>7, <2>8, <2>9, ExecutorAssumption DEF CancelQueued, Withdraws
<1>8. ASSUME NEW t \in Task, CancelRunning(t) PROVE JointStep
  BY <1>8 DEF CancelRunning, queueVars
<1>9. CASE DrainQueue
  <2>1. queue # <<>> /\ promise' = promise /\ running' = running \cup {Head(queue)}
    BY <1>9, SMTT(30) DEF DrainQueue, Q!DrainQueue, Q!DrainGuard, Q!RunEntry
  <2>2. queue' = QP!QueueDelete(Tail(queue), TaskOf[Head(queue)])
    BY <1>9 DEF DrainQueue, Q!DrainQueue, Q!RunEntry, Q!QueueDelete, QP!QueueDelete,
               Q!FirstOf, QP!FirstOf, Q!Unqueue, QP!Unqueue, Q!RemoveAt, QP!RemoveAt
  <2>3. PICK c \in Call : c = Head(queue)
    BY <1>1, <2>1, HeadTailProperties
  <2>4. PICK r \in Seq(Call) : r = Tail(queue)
    BY <1>1, <2>1, HeadTailProperties
  <2>5. QP!Thins(queue', r)
    BY <2>2, <2>4, QP!QueueDeleteThins, QueueAssumptions
       DEF QP!CallAssumption, QP!LimitAssumption, QP!BoundAssumption
  <2>6. \A d : InQueue(d) <=> InSeq(d, r) \/ d = c
    BY <1>1, <2>1, <2>3, <2>4, FirstDropped DEF InQueue
  <2>7. ~InSeq(c, r)
    <3>1. Apart(queue)
      BY DEF QP!IInv, QP!EntriesApart, QP!Apart, Apart
    <3>2. c = queue[1] /\ ~InSeq(queue[1], r)
      BY <1>1, <2>1, <2>3, <2>4, <3>1, FirstDropped
    <3> QED  BY <3>2
  <2>8. \A d \in Call : InQueue(d)' => InQueue(d) /\ d # c
    BY <2>4, <2>5, <2>6, <2>7, ThinsIn DEF InQueue
  <2> QED  BY <1>9, <2>1, <2>3, <2>6, <2>8 DEF DrainQueue, Drains
<1>10. CASE DrainQueueEnds
  BY <1>10 DEF DrainQueueEnds, Q!DrainQueueEnds
<1>11. CASE UNCHANGED vars
  BY <1>11 DEF vars, queueVars
<1> QED
  BY <1>2, <1>3, <1>4, <1>5, <1>6, <1>7, <1>8, <1>9, <1>10, <1>11 DEF Next

-----------------------------------------------------------------------------
(* The two executors agree.                                                *)

\* A call is started once, and not before it has come, nor while it is queued.
NotStarted == \A c \in Call : promise[c] = "none" \/ InQueue(c) => phase[c] = "none"

\* A slot is taken by calls that have started.  Where TaskState has a value
\* nothing but the end of its run, or a cancel, settles a call that was let in;
\* without one the promise of a queued call is rejected while its entry stays.
SlotsFollow == \A c \in Call :
    /\ c \in running => phase[c] # "none"
    /\ phase[c] # "none" /\ promise[c] = "pending" => c \in running
    /\ TaskStateBound /\ (c \in running \/ InQueue(c)) => promise[c] = "pending"

JointInv == NotStarted /\ SlotsFollow

\* execute() starts a call; no other step does, and none undoes it.
LEMMA ExecuteStarts ==
    ASSUME A!TypeOK, NEW c \in Call, A!Execute(c)
    PROVE  /\ phase[c] = "none" /\ phase'[c] # "none"
           /\ \A d \in Call : d # c => phase'[d] = phase[d]
BY DEF A!Execute, A!TypeOK

\* (The steps after execute(), the heartbeat and cancelTask.)
LEMMA OthersDoNotStart ==
    ASSUME A!TypeOK,
           \/ \E c \in Call : A!Progress(c) \/ A!Heartbeat(c)
           \/ \E t \in Task : A!CancelTask(t)
    PROVE  \A d \in Call : phase'[d] = "none" <=> phase[d] = "none"
BY DEF A!Progress, A!DispatchStarts, A!DispatchSettles, A!FallbackEnds, A!CleanUp,
       A!Heartbeat, A!CancelTask, A!TypeOK

\* Every step preserves the agreement of the two executors.
LEMMA JointKept ==
    ASSUME A!TypeOK, QP!TypeOK, QP!EntriesApart, JointInv, JointStep PROVE JointInv'
<1>1. /\ promise \in [Call -> {"none", "pending", "resolved", "rejected"}]
      /\ running \in SUBSET Call /\ queue \in Seq(Call)
  BY DEF QP!TypeOK, QP!Promises
<1>2. \A c \in Call : InQueue(c) => c \notin running /\ promise[c] # "none"
  BY <1>1 DEF QP!EntriesApart, InQueue, InSeq
<1>3. \A c \in running : promise[c] # "none"
  BY DEF QP!EntriesApart
<1> SUFFICES ASSUME NEW d \in Call
    PROVE  /\ promise'[d] = "none" \/ InQueue(d)' => phase'[d] = "none"
           /\ d \in running' => phase'[d] # "none"
           /\ phase'[d] # "none" /\ promise'[d] = "pending" => d \in running'
           /\ TaskStateBound /\ (d \in running' \/ InQueue(d)') => promise'[d] = "pending"
  BY DEF JointInv, NotStarted, SlotsFollow
<1>4. /\ promise[d] = "none" \/ InQueue(d) => phase[d] = "none"
      /\ d \in running => phase[d] # "none"
      /\ phase[d] # "none" /\ promise[d] = "pending" => d \in running
      /\ TaskStateBound /\ (d \in running \/ InQueue(d)) => promise[d] = "pending"
  BY DEF JointInv, NotStarted, SlotsFollow
<1> DEFINE Goal == /\ promise'[d] = "none" \/ InQueue(d)' => phase'[d] = "none"
                   /\ d \in running' => phase'[d] # "none"
                   /\ phase'[d] # "none" /\ promise'[d] = "pending" => d \in running'
                   /\ TaskStateBound /\ (d \in running' \/ InQueue(d)') => promise'[d] = "pending"
<1>5. ASSUME NEW c \in Call, Admits(c) PROVE Goal
  <2>1. /\ phase[c] = "none" /\ phase'[c] # "none"
        /\ d # c => phase'[d] = phase[d]
    BY <1>5, ExecuteStarts DEF Admits
  <2>2. promise[c] = "none" /\ promise'[c] = "pending" /\ (d # c => promise'[d] = promise[d])
    BY <1>1, <1>5 DEF Admits
  <2>3. running' = running \cup {c} /\ (InQueue(d)' => InQueue(d))
    BY <1>5 DEF Admits
  <2>4. CASE d = c
    BY <1>2, <2>1, <2>2, <2>3, <2>4
  <2>5. CASE d # c
    BY <1>4, <2>1, <2>2, <2>3, <2>5
  <2> QED  BY <2>4, <2>5
<1>6. ASSUME NEW c \in Call, TurnsAway(c) PROVE Goal
  <2>1. phase' = phase /\ running' = running /\ (InQueue(d)' <=> InQueue(d))
    BY <1>6 DEF TurnsAway, OnlyPublish, InQueue
  <2>2. promise[c] = "none" /\ promise'[c] = "resolved" /\ (d # c => promise'[d] = promise[d])
    BY <1>1, <1>6 DEF TurnsAway
  <2> QED  BY <1>2, <1>3, <1>4, <2>1, <2>2
<1>7. ASSUME NEW c \in Call, Queues(c) PROVE Goal
  <2>1. phase' = phase /\ running' = running /\ (InQueue(d)' <=> InQueue(d) \/ d = c)
    BY <1>7 DEF Queues, OnlyPublish, agentVars
  <2>2. /\ promise[c] = "none" /\ promise'[c] = (IF TaskStateBound THEN "pending" ELSE "rejected")
        /\ d # c => promise'[d] = promise[d]
    BY <1>1, <1>7 DEF Queues
  <2> QED  BY <1>2, <1>3, <1>4, <2>1, <2>2
<1>8. ASSUME NEW c \in Call, Drains(c) PROVE Goal
  <2>1. /\ phase[c] = "none" /\ phase'[c] # "none"
        /\ d # c => phase'[d] = phase[d]
    BY <1>8, ExecuteStarts DEF Drains
  <2>2. /\ promise' = promise /\ running' = running \cup {c} /\ InQueue(c)
        /\ InQueue(d)' => InQueue(d) /\ d # c
    BY <1>8 DEF Drains
  <2>3. CASE d = c
    BY <1>2, <1>4, <2>1, <2>2, <2>3
  <2>4. CASE d # c
    BY <1>4, <2>1, <2>2, <2>4
  <2> QED  BY <2>3, <2>4
<1>9. ASSUME NEW c \in Call, Settles(c) PROVE Goal
  <2>1. phase' = phase /\ running' = running \ {c} /\ (InQueue(d)' <=> InQueue(d))
    BY <1>9 DEF Settles, agentVars, InQueue
  <2>2. c \in running /\ promise'[c] \in {"resolved", "rejected"} /\ (d # c => promise'[d] = promise[d])
    BY <1>1, <1>9 DEF Settles
  <2> QED  BY <1>2, <1>4, <2>1, <2>2
<1>10. ASSUME NEW c \in Call, Withdraws(c) PROVE Goal
  <2>1. phase' = phase /\ running' = running /\ (InQueue(d)' => InQueue(d) /\ d # c)
    BY <1>10 DEF Withdraws, OnlyPublish, agentVars
  <2>2. /\ InQueue(c) /\ (d # c => promise'[d] = promise[d])
        /\ promise'[c] = promise[c] \/ promise'[c] = "resolved"
    BY <1>1, <1>10 DEF Withdraws
  <2> QED  BY <1>2, <1>4, <2>1, <2>2
<1>11. ASSUME UNCHANGED <<promise, running, queue>>,
              \/ \E c \in Call : A!Progress(c) \/ A!Heartbeat(c)
              \/ \E t \in Task : A!CancelTask(t)
       PROVE  Goal
  <2>1. phase'[d] = "none" <=> phase[d] = "none"
    BY <1>11, OthersDoNotStart
  <2>2. promise' = promise /\ running' = running /\ (InQueue(d)' <=> InQueue(d))
    BY <1>11 DEF InQueue
  <2> QED  BY <1>4, <2>1, <2>2
<1>12. ASSUME UNCHANGED <<promise, running, queue>>, UNCHANGED agentVars PROVE Goal
  <2>1. phase' = phase /\ promise' = promise /\ running' = running /\ (InQueue(d)' <=> InQueue(d))
    BY <1>12 DEF InQueue, agentVars
  <2> QED  BY <1>4, <2>1
<1> QED
  BY <1>5, <1>6, <1>7, <1>8, <1>9, <1>10, <1>11, <1>12 DEF JointStep

\* The executors agree on which calls wait, run and have ended.
THEOREM ExecutorsAgree == Spec => []JointInv
<1>1. Init => JointInv
  BY DEF Init, Q!Init, A!Init, JointInv, NotStarted, SlotsFollow, InQueue, InSeq
<1>2. JointInv /\ ChainInv /\ QP!IInv /\ [Next]_vars => JointInv'
  BY StepOfEntries, JointKept DEF ChainInv, AgentTypes, QP!IInv
<1> QED  BY <1>1, <1>2, QueueInvariant, ChainsWellFormed, PTL DEF Spec

\* The queue counts a slot as taken exactly while execute() of its call has not
\* been settled, provided that TaskState has a value at run time.
THEOREM SlotsAreRuns ==
    ASSUME TaskStateBound PROVE Spec => []SlotsMatchRuns
<1>1. JointInv => SlotsMatchRuns
  BY TaskStateBound DEF JointInv, SlotsFollow, SlotsMatchRuns
<1> QED  BY <1>1, ExecutorsAgree, PTL

-----------------------------------------------------------------------------
(* The cache of task contexts.                                             *)

\* The tasks for which anything was published.
Shown == {t \in Task : state[t] # "none"}

\* Each of them came with a call, so there are finitely many.
ShownCame == \A t \in Shown : \E c \in Call : TaskOf[c] = t

\* Tasks are cached when they are shown, or no call gets far enough to matter.
CacheShown == TaskStateBound => \A t \in Task : InSeq(t, cache) => state[t] # "none"
NothingRuns == ~TaskStateBound => \A c \in Call : phase[c] \in {"none", "rejected"}

Reached == \A c \in Call :
    /\ phase[c] \in {"waiting", "dispatching", "waking"}
    /\ TaskOf[c] \notin Cancels
    /\ Cardinality(Shown) <= CacheLimit
    => InSeq(TaskOf[c], cache)

CacheInv == ShownCame /\ CacheShown /\ NothingRuns /\ Reached

\* CancelReachesLiveTask in the terms used here.
LEMMA SameReached == Reached <=> A!CancelReachesLiveTask
<1>1. \A t : InSeq(t, cache) <=> A!Cached(t)
  BY DEF InSeq, A!Cached
<1>2. \A S : Cardinality(S) = A!Cardinality(S)
  BY DEF Cardinality, A!Cardinality
<1> QED  BY <1>1, <1>2 DEF Reached, A!CancelReachesLiveTask, Shown

\* What an agent executor's step publishes, and for which task.
LEMMA StepShows ==
    ASSUME AgentTypes, ShownCame, CacheShown, JointStep
    PROVE  ShownCame' /\ Shown \subseteq Shown'
<1> USE DEF AgentTypes, A!TypeOK, Shown, ShownCame
<1> DEFINE Goal == ShownCame' /\ Shown \subseteq Shown'
<1>1. ASSUME NEW t \in Task, NEW v, v # "none", A!Publish(t, v),
             \E c \in Call : TaskOf[c] = t
      PROVE  Goal
  BY <1>1 DEF A!Publish
<1>2. ASSUME state' = state PROVE Goal
  BY <1>2
<1>3. ASSUME NEW c \in Call PROVE TaskOf[c] \in Task /\ \E d \in Call : TaskOf[d] = TaskOf[c]
  BY ExecutorAssumption
<1> HIDE DEF Goal
<1>4. ASSUME NEW c \in Call, A!Execute(c) PROVE Goal
  BY <1>1, <1>2, <1>3, <1>4 DEF A!Execute
<1>5. ASSUME NEW c \in Call, NEW v \in {"rejected", "submitted", "canceled"}, OnlyPublish(TaskOf[c], v)
      PROVE  Goal
  BY <1>1, <1>3, <1>5 DEF OnlyPublish
<1>6. ASSUME NEW c \in Call, A!Progress(c) PROVE Goal
  BY <1>1, <1>2, <1>3, <1>6 DEF A!Progress, A!DispatchStarts, A!DispatchSettles, A!FallbackEnds, A!CleanUp
<1>7. ASSUME NEW c \in Call, A!Heartbeat(c) PROVE Goal
  BY <1>1, <1>3, <1>7 DEF A!Heartbeat
<1>8. ASSUME NEW t \in Task, A!CancelTask(t) PROVE Goal
  <2>1. TaskStateBound /\ InSeq(t, cache) /\ A!Publish(t, "canceled")
    BY <1>8 DEF A!CancelTask, A!Cached, InSeq
  <2>2. \E c \in Call : TaskOf[c] = t
    BY <2>1 DEF CacheShown
  <2> QED  BY <1>1, <2>1, <2>2
<1>9. ASSUME UNCHANGED agentVars PROVE Goal
  BY <1>2, <1>9 DEF agentVars
<1> QED
  BY <1>4, <1>5, <1>6, <1>7, <1>8, <1>9
     DEF JointStep, Admits, TurnsAway, Queues, Drains, Settles, Withdraws, Goal

\* A sequence of different elements of a finite set is no longer than the set.
LEMMA ApartBounded ==
    ASSUME NEW S, NEW s \in Seq(S), Apart(s), NEW T, IsFiniteSet(T),
           \A k : InSeq(k, s) => k \in T
    PROVE  Len(s) <= Cardinality(T)
<1>1. s \in [1..Len(s) -> T] /\ Len(s) \in Nat
  BY LenProperties DEF InSeq
<1>2. s \in Injection(1..Len(s), T)
  BY <1>1 DEF Injection, IsInjective, Apart
<1>3. Cardinality(1..Len(s)) <= Cardinality(T)
  BY <1>2, FS_Injection
<1>4. Cardinality(1..Len(s)) = Len(s)
  <2>1. PICK n \in Nat : n = Len(s)
    BY <1>1
  <2>2. Cardinality(1..n) = IF 1 > n THEN 0 ELSE n - 1 + 1
    BY FS_Interval
  <2>3. Cardinality(1..n) = n
    BY <2>2
  <2> QED  BY <2>1, <2>3, Zenon
<1> QED  BY <1>3, <1>4, Zenon

\* The tasks shown are no more than the calls that came.
LEMMA ShownFinite ==
    /\ ShownCame => IsFiniteSet(Shown)
    /\ ShownCame' => IsFiniteSet(Shown')
<1> DEFINE came == {TaskOf[c] : c \in Call}
           g == [c \in Call |-> TaskOf[c]]
<1>1. g \in Surjection(Call, came)
  BY DEF Surjection
<1>2. IsFiniteSet(came)
  BY <1>1, FS_Surjection, ExecutorAssumption
<1>3. ShownCame => Shown \in SUBSET came
  BY DEF ShownCame
<1>4. ShownCame' => Shown' \in SUBSET came
  BY DEF ShownCame
<1> QED  BY <1>2, <1>3, <1>4, FS_Subset

\* Every step preserves what is known of the cache.
LEMMA CacheKept ==
    ASSUME AgentTypes, CacheInv, JointStep PROVE CacheInv'
<1> USE DEF AgentTypes, A!TypeOK
<1>1. ShownCame' /\ Shown \subseteq Shown'
  BY StepShows DEF CacheInv
<1>2. CacheShown /\ NothingRuns /\ Reached
  BY DEF CacheInv
<1>3. \A c \in Call : TaskOf[c] \in Task
  BY ExecutorAssumption
\* What is cached is shown after the step as it was before.
<1>4. \A t \in Task : state[t] # "none" => state'[t] # "none"
  BY <1>1 DEF Shown
\* More tasks are not fewer: the bound held before the step, too.
<1>5. Cardinality(Shown') <= CacheLimit => Cardinality(Shown) <= CacheLimit
  <2>1. IsFiniteSet(Shown') /\ IsFiniteSet(Shown)
    BY <1>1, ShownFinite DEF CacheInv
  <2>2. Cardinality(Shown) <= Cardinality(Shown')
    BY <1>1, <2>1, FS_Subset
  <2>3. Cardinality(Shown) \in Nat /\ Cardinality(Shown') \in Nat /\ CacheLimit \in Nat
    BY <2>1, FS_CardinalityType, ExecutorAssumption
  <2> QED  BY <2>2, <2>3
<1> DEFINE Goal == CacheShown' /\ NothingRuns' /\ Reached'
<1>6. ASSUME NEW c \in Call, A!Execute(c) PROVE Goal
  <2>1. \A k : InSeq(k, cache') => InSeq(k, cache) \/ k = TaskOf[c]
    BY <1>3, <1>6, Remembered DEF A!Execute
  <2>2. CASE ~TaskStateBound
    <3>1. phase' = [phase EXCEPT ![c] = "rejected"]
      BY <1>6, <2>2 DEF A!Execute
    <3> QED  BY <1>2, <2>2, <3>1 DEF CacheShown, NothingRuns, Reached
  <2>3. CASE TaskStateBound
    <3>1. state'[TaskOf[c]] # "none"
      BY <1>3, <1>6, <2>3 DEF A!Execute, A!Publish
    <3>2. CacheShown'
      BY <1>2, <1>4, <2>1, <3>1 DEF CacheShown
    <3>3. \A d \in Call : d # c => phase'[d] = phase[d]
      BY <1>6, ExecuteStarts
    <3>4. CASE \A k : InSeq(k, cache) \/ k = TaskOf[c] => InSeq(k, cache')
      BY <1>2, <1>5, <2>3, <3>2, <3>3, <3>4 DEF NothingRuns, Reached
    <3>5. ASSUME NEW kept \in Seq(Task), Apart(kept), Len(kept) > CacheLimit,
                 \A k : InSeq(k, kept) => InSeq(k, cache) \/ k = TaskOf[c]
          PROVE  Goal
      <4>1. \A k : InSeq(k, kept) => k \in Shown'
        <5>1. \A k : InSeq(k, kept) => k \in Task
          BY DEF InSeq
        <5> QED  BY <1>2, <1>4, <2>3, <3>1, <3>5, <5>1 DEF CacheShown, Shown
      <4>2. PICK T : T = Shown' /\ IsFiniteSet(T)
        BY <1>1, ShownFinite
      <4>3. Len(kept) <= Cardinality(T)
        BY <3>5, <4>1, <4>2, ApartBounded
      <4>4. Cardinality(T) \in Nat /\ CacheLimit \in Nat /\ Len(kept) \in Nat
        BY <4>2, FS_CardinalityType, ExecutorAssumption
      <4>5. ~(Cardinality(Shown') <= CacheLimit)
        BY <3>5, <4>2, <4>3, <4>4
      <4> QED  BY <2>3, <3>2, <4>5 DEF NothingRuns, Reached
    <3> QED  BY <1>3, <1>6, <3>4, <3>5, Remembered DEF A!Execute
  <2> QED  BY <2>2, <2>3
<1>7. ASSUME cache' = cache,
             \A c \in Call : /\ phase'[c] \in {"none", "rejected", "resolved"} \/ phase'[c] = phase[c]
                                \/ {phase[c], phase'[c]} \subseteq {"waiting", "dispatching", "waking"}
                             /\ phase[c] \in {"none", "rejected"} => phase'[c] = phase[c]
      PROVE  Goal
  <2>1. CacheShown'
    BY <1>2, <1>4, <1>7 DEF CacheShown
  <2>2. NothingRuns'
    BY <1>2, <1>7 DEF NothingRuns
  <2>3. \A c \in Call : phase'[c] \in {"waiting", "dispatching", "waking"}
                        => phase[c] \in {"waiting", "dispatching", "waking"}
    BY <1>7
  <2>4. Reached'
    BY <1>2, <1>5, <1>7, <2>3 DEF Reached
  <2> QED  BY <2>1, <2>2, <2>4
<1>8. ASSUME NEW c \in Call, A!Progress(c) \/ A!Heartbeat(c) PROVE Goal
  BY <1>7, <1>8 DEF A!Progress, A!DispatchStarts, A!DispatchSettles, A!FallbackEnds, A!CleanUp, A!Heartbeat
<1>9. ASSUME NEW c \in Call, NEW v \in {"rejected", "submitted", "canceled"}, OnlyPublish(TaskOf[c], v)
      PROVE  Goal
  BY <1>7, <1>9 DEF OnlyPublish
<1>10. ASSUME UNCHANGED agentVars PROVE Goal
  BY <1>7, <1>10 DEF agentVars
<1>11. ASSUME NEW t \in Task, A!CancelTask(t) PROVE Goal
  <2>1. t \in Cancels /\ phase' = phase /\ cache' = A!RemoveFirst(cache, t)
    BY <1>11 DEF A!CancelTask
  <2>2. \A k : InSeq(k, cache') <=> InSeq(k, cache) /\ k # t
    BY <2>1, KeyRemoved
  <2>3. CacheShown'
    BY <1>2, <1>4, <2>2 DEF CacheShown
  <2> QED  BY <1>2, <1>5, <2>1, <2>2, <2>3 DEF NothingRuns, Reached
<1>12. Goal
  BY <1>6, <1>8, <1>9, <1>10, <1>11
     DEF JointStep, Admits, TurnsAway, Queues, Drains, Settles, Withdraws
<1> QED  BY <1>1, <1>12 DEF CacheInv

\* The context of every task under way that nobody canceled stays cached while
\* no more tasks have come by than the cache holds.
THEOREM LiveTasksCancelable == Spec => []CancelReachesLiveTask
<1>1. Init => CacheInv
  BY DEF Init, A!Init, CacheInv, ShownCame, Shown, CacheShown, NothingRuns, Reached, InSeq
<1>2. CacheInv /\ ChainInv /\ QP!IInv /\ [Next]_vars => CacheInv'
  BY StepOfEntries, CacheKept DEF ChainInv
<1>3. CacheInv => CancelReachesLiveTask
  BY SameReached DEF CacheInv, CancelReachesLiveTask
<1> QED  BY <1>1, <1>2, <1>3, QueueInvariant, ChainsWellFormed, PTL DEF Spec

-----------------------------------------------------------------------------
(* What is published for a task when no two calls are for the same one.    *)

\* Every message starts a task of its own (none continues an earlier task).
OwnTasks == \A c, d \in Call : TaskOf[c] = TaskOf[d] => c = d

Live == {"waiting", "dispatching", "waking"}

\* What has been published for the task of c when c has come as far as it has.
StatusFollows == \A c \in Call :
    /\ promise[c] = "none" => state[TaskOf[c]] = "none"
    /\ InQueue(c) => state[TaskOf[c]] \in {"none", "submitted"}
    /\ phase[c] \in Live /\ TaskOf[c] \notin Cancels => state[TaskOf[c]] = "working"

\* Only tasks of calls that have started are cached.
CacheStarted ==
    \A c \in Call : InSeq(TaskOf[c], cache) => phase[c] # "none"

TasksInv == StatusFollows /\ CacheStarted

\* What a step means for the call d, whose task is d's alone.
LEMMA OwnStatus ==
    ASSUME OwnTasks, A!TypeOK, NEW c \in Call, NEW v, A!Publish(TaskOf[c], v),
           NEW d \in Call
    PROVE  state'[TaskOf[d]] = IF d = c THEN v ELSE state[TaskOf[d]]
BY ExecutorAssumption DEF OwnTasks, A!TypeOK, A!Publish

\* Every step preserves what is known of the statuses.
LEMMA TasksKept ==
    ASSUME OwnTasks, AgentTypes, QP!TypeOK, QP!EntriesApart, JointInv, TasksInv, JointStep
    PROVE  TasksInv'
<1> USE DEF AgentTypes
<1>1. /\ promise \in [Call -> {"none", "pending", "resolved", "rejected"}]
      /\ running \in SUBSET Call /\ queue \in Seq(Call)
  BY DEF QP!TypeOK, QP!Promises
<1>2. \A c \in Call : InQueue(c) => promise[c] # "none"
  BY <1>1 DEF QP!EntriesApart, InQueue, InSeq
<1> SUFFICES ASSUME NEW d \in Call
    PROVE  /\ promise'[d] = "none" => state'[TaskOf[d]] = "none"
           /\ InQueue(d)' => state'[TaskOf[d]] \in {"none", "submitted"}
           /\ phase'[d] \in Live /\ TaskOf[d] \notin Cancels => state'[TaskOf[d]] = "working"
           /\ InSeq(TaskOf[d], cache') => phase'[d] # "none"
  BY DEF TasksInv, StatusFollows, CacheStarted
<1>3. /\ promise[d] = "none" => state[TaskOf[d]] = "none"
      /\ InQueue(d) => state[TaskOf[d]] \in {"none", "submitted"}
      /\ phase[d] \in Live /\ TaskOf[d] \notin Cancels => state[TaskOf[d]] = "working"
      /\ InSeq(TaskOf[d], cache) => phase[d] # "none"
  BY DEF TasksInv, StatusFollows, CacheStarted
<1>4. promise[d] = "none" \/ InQueue(d) => phase[d] = "none"
  BY DEF JointInv, NotStarted
<1>5. TaskOf \in [Call -> Task]
  BY ExecutorAssumption
<1> DEFINE Goal == /\ promise'[d] = "none" => state'[TaskOf[d]] = "none"
                   /\ InQueue(d)' => state'[TaskOf[d]] \in {"none", "submitted"}
                   /\ phase'[d] \in Live /\ TaskOf[d] \notin Cancels
                         => state'[TaskOf[d]] = "working"
                   /\ InSeq(TaskOf[d], cache') => phase'[d] # "none"
<1>6. ASSUME NEW c \in Call, A!Execute(c)
      PROVE  /\ d # c => phase'[d] = phase[d] /\ state'[TaskOf[d]] = state[TaskOf[d]]
             /\ phase'[c] # "none" /\ (phase'[c] \in Live => state'[TaskOf[c]] = "working")
             /\ InSeq(TaskOf[d], cache') => InSeq(TaskOf[d], cache) \/ d = c
  <2>1. phase'[c] # "none" /\ (d # c => phase'[d] = phase[d])
    BY <1>6, ExecuteStarts
  <2>2. InSeq(TaskOf[d], cache') => InSeq(TaskOf[d], cache) \/ d = c
    BY <1>5, <1>6, Remembered DEF A!Execute, A!TypeOK, OwnTasks
  <2>3. d # c => state'[TaskOf[d]] = state[TaskOf[d]]
    BY <1>6, OwnStatus DEF A!Execute
  <2>4. phase'[c] \in Live => state'[TaskOf[c]] = "working"
    BY <1>6, OwnStatus DEF A!Execute, A!TypeOK, Live
  <2> QED  BY <2>1, <2>2, <2>3, <2>4
<1>7. ASSUME NEW c \in Call, Admits(c) PROVE Goal
  <2>1. /\ promise'[c] # "none" /\ (d # c => promise'[d] = promise[d]) /\ ~InQueue(c)
        /\ InQueue(d)' => InQueue(d)
    BY <1>1, <1>2, <1>7 DEF Admits
  <2> QED  BY <1>3, <1>4, <1>6, <1>7, <2>1 DEF Admits
<1>8. ASSUME NEW c \in Call, Drains(c) PROVE Goal
  <2>1. promise[c] # "none" /\ promise' = promise /\ (InQueue(d)' => InQueue(d) /\ d # c)
    BY <1>2, <1>8 DEF Drains
  <2> QED  BY <1>3, <1>4, <1>6, <1>8, <2>1 DEF Drains
<1>9. ASSUME NEW c \in Call, NEW v, OnlyPublish(TaskOf[c], v)
      PROVE  /\ phase' = phase /\ cache' = cache
             /\ state'[TaskOf[d]] = IF d = c THEN v ELSE state[TaskOf[d]]
  BY <1>9, OwnStatus DEF OnlyPublish
<1>10. ASSUME NEW c \in Call, TurnsAway(c) PROVE Goal
  <2>1. /\ promise[c] = "none" /\ promise'[c] = "resolved" /\ (d # c => promise'[d] = promise[d])
        /\ (InQueue(d)' <=> InQueue(d))
    BY <1>1, <1>10 DEF TurnsAway, InQueue
  <2>2. /\ phase' = phase /\ cache' = cache
        /\ state'[TaskOf[d]] = IF d = c THEN "rejected" ELSE state[TaskOf[d]]
    BY <1>9, <1>10 DEF TurnsAway
  <2> QED  BY <1>2, <1>3, <1>4, <2>1, <2>2 DEF Live
<1>11. ASSUME NEW c \in Call, Queues(c) PROVE Goal
  <2>1. /\ promise[c] = "none" /\ promise'[c] # "none" /\ (d # c => promise'[d] = promise[d])
        /\ (InQueue(d)' <=> InQueue(d) \/ d = c)
    BY <1>1, <1>11 DEF Queues
  <2>2. /\ phase' = phase /\ cache' = cache
        /\ \/ state'[TaskOf[d]] = IF d = c THEN "submitted" ELSE state[TaskOf[d]]
           \/ state' = state
    BY <1>9, <1>11 DEF Queues, agentVars
  <2> QED  BY <1>2, <1>3, <1>4, <2>1, <2>2 DEF Live
<1>12. ASSUME NEW c \in Call, Settles(c) PROVE Goal
  <2>1. /\ c \in running /\ promise'[c] # "none" /\ (d # c => promise'[d] = promise[d])
        /\ (InQueue(d)' <=> InQueue(d)) /\ phase' = phase /\ cache' = cache /\ state' = state
    BY <1>1, <1>12 DEF Settles, InQueue, agentVars
  <2> QED  BY <1>3, <2>1
<1>13. ASSUME NEW c \in Call, Withdraws(c) PROVE Goal
  <2>1. /\ InQueue(c) /\ (d # c => promise'[d] = promise[d]) /\ (InQueue(d)' => InQueue(d) /\ d # c)
        /\ promise'[c] = promise[c] \/ promise'[c] = "resolved"
        /\ TaskOf[c] \in Cancels
    BY <1>1, <1>13 DEF Withdraws
  <2>2. /\ phase' = phase /\ cache' = cache
        /\ \/ state'[TaskOf[d]] = IF d = c THEN "canceled" ELSE state[TaskOf[d]]
           \/ state' = state
    BY <1>9, <1>13 DEF Withdraws, agentVars
  <2> QED  BY <1>2, <1>3, <2>1, <2>2
<1>14. ASSUME UNCHANGED <<promise, running, queue>>, NEW c \in Call, A!Progress(c) \/ A!Heartbeat(c)
       PROVE  Goal
  <2>1. /\ cache' = cache /\ promise' = promise /\ (InQueue(d)' <=> InQueue(d))
        /\ phase'[d] = "none" <=> phase[d] = "none"
    BY <1>14, OthersDoNotStart
       DEF A!Progress, A!DispatchStarts, A!DispatchSettles, A!FallbackEnds, A!CleanUp,
           A!Heartbeat, InQueue
  <2>2. d # c => phase'[d] = phase[d] /\ state'[TaskOf[d]] = state[TaskOf[d]]
    <3>1. d # c => phase'[d] = phase[d]
      BY <1>14
         DEF A!Progress, A!DispatchStarts, A!DispatchSettles, A!FallbackEnds, A!CleanUp,
             A!Heartbeat, A!TypeOK
    <3>2. state' = state \/ \E v : A!Publish(TaskOf[c], v)
      BY <1>14
         DEF A!Progress, A!DispatchStarts, A!DispatchSettles, A!FallbackEnds, A!CleanUp,
             A!Heartbeat
    <3> QED  BY <3>1, <3>2, OwnStatus
  <2>3. phase'[c] \in Live => \/ phase[c] \in Live /\ state'[TaskOf[c]] = state[TaskOf[c]]
                              \/ state'[TaskOf[c]] = "working"
    <3>1. CASE A!DispatchStarts(c) \/ A!DispatchSettles(c) \/ A!FallbackEnds(c)
      BY <3>1 DEF A!DispatchStarts, A!DispatchSettles, A!FallbackEnds, A!TypeOK, Live
    <3>2. CASE A!CleanUp(c)
      BY <3>2 DEF A!CleanUp
    <3>3. CASE A!Heartbeat(c)
      BY <3>3, OwnStatus DEF A!Heartbeat
    <3> QED  BY <1>14, <3>1, <3>2, <3>3 DEF A!Progress
  <2>4. phase[c] # "none" \/ state'[TaskOf[c]] = state[TaskOf[c]]
    BY <1>14
       DEF A!Progress, A!DispatchStarts, A!DispatchSettles, A!FallbackEnds, A!CleanUp,
           A!Heartbeat, A!HeartbeatOn
  <2> QED  BY <1>3, <1>4, <2>1, <2>2, <2>3, <2>4
<1>15. ASSUME UNCHANGED <<promise, running, queue>>, NEW t \in Task, A!CancelTask(t) PROVE Goal
  <2>1. /\ phase' = phase /\ promise' = promise /\ (InQueue(d)' <=> InQueue(d)) /\ t \in Cancels
        /\ InSeq(t, cache) /\ A!Publish(t, "canceled") /\ cache' = A!RemoveFirst(cache, t)
    BY <1>15 DEF A!CancelTask, A!Cached, InSeq, InQueue
  <2>2. InSeq(TaskOf[d], cache') => InSeq(TaskOf[d], cache)
    BY <2>1, KeyRemoved DEF A!TypeOK
  <2>3. TaskOf[d] # t => state'[TaskOf[d]] = state[TaskOf[d]]
    BY <1>5, <2>1 DEF A!Publish, A!TypeOK
  <2>4. TaskOf[d] = t => phase[d] # "none"
    BY <1>3, <2>1
  <2> QED  BY <1>3, <1>4, <2>1, <2>2, <2>3, <2>4
<1>16. ASSUME UNCHANGED <<promise, running, queue>>, UNCHANGED agentVars PROVE Goal
  <2>1. /\ phase' = phase /\ promise' = promise /\ (InQueue(d)' <=> InQueue(d))
        /\ cache' = cache /\ state' = state
    BY <1>16 DEF agentVars, InQueue
  <2> QED  BY <1>3, <2>1
<1> QED
  BY <1>7, <1>8, <1>10, <1>11, <1>12, <1>13, <1>14, <1>15, <1>16 DEF JointStep

\* The statuses go with how far the calls have come.
THEOREM StatusesFollow ==
    ASSUME OwnTasks PROVE Spec => []TasksInv
<1>1. Init => TasksInv
  BY ExecutorAssumption
     DEF Init, Q!Init, A!Init, TasksInv, StatusFollows, CacheStarted, InQueue, InSeq, Live
<1>2. TasksInv /\ JointInv /\ ChainInv /\ QP!IInv /\ [Next]_vars => TasksInv'
  BY OwnTasks, StepOfEntries, TasksKept DEF ChainInv, QP!IInv
<1> QED  BY <1>1, <1>2, QueueInvariant, ChainsWellFormed, ExecutorsAgree, PTL DEF Spec

\* A call whose task is canceled before it started is neither started nor is
\* anything published for it.
LEMMA CanceledStays ==
    ASSUME OwnTasks, A!TypeOK, JointInv, TasksInv, JointStep,
           NEW d \in Call, state[TaskOf[d]] = "canceled", phase[d] = "none"
    PROVE  phase'[d] = "none" /\ state'[TaskOf[d]] = "canceled"
<1>1. promise[d] # "none" /\ ~InQueue(d)
  BY DEF TasksInv, StatusFollows
<1> DEFINE Goal == phase'[d] = "none" /\ state'[TaskOf[d]] = "canceled"
<1>2. ASSUME NEW c \in Call, c # d, A!Execute(c) PROVE Goal
  BY <1>2, ExecuteStarts, OwnStatus, ZenonT(30) DEF A!Execute
<1>3. ASSUME NEW c \in Call, c # d, NEW v, OnlyPublish(TaskOf[c], v) PROVE Goal
  BY <1>3, OwnStatus DEF OnlyPublish
<1>4. ASSUME NEW c \in Call, c # d, A!Progress(c) \/ A!Heartbeat(c) PROVE Goal
  <2>1. phase'[d] = phase[d]
    BY <1>4
       DEF A!Progress, A!DispatchStarts, A!DispatchSettles, A!FallbackEnds, A!CleanUp,
           A!Heartbeat, A!TypeOK
  <2>2. state' = state \/ \E v : A!Publish(TaskOf[c], v)
    BY <1>4
       DEF A!Progress, A!DispatchStarts, A!DispatchSettles, A!FallbackEnds, A!CleanUp,
           A!Heartbeat
  <2> QED  BY <1>4, <2>1, <2>2, OwnStatus
<1>5. ASSUME A!Progress(d) \/ A!Heartbeat(d) PROVE Goal
  BY <1>5
     DEF A!Progress, A!DispatchStarts, A!DispatchSettles, A!FallbackEnds, A!CleanUp,
         A!Heartbeat, A!HeartbeatOn
<1>6. ASSUME NEW t \in Task, A!CancelTask(t) PROVE Goal
  <2>1. t # TaskOf[d]
    BY <1>6 DEF A!CancelTask, A!Terminal
  <2> QED  BY <1>6, <2>1, ExecutorAssumption DEF A!CancelTask, A!Publish, A!TypeOK
<1>7. ASSUME UNCHANGED agentVars PROVE Goal
  BY <1>7 DEF agentVars
<1> QED
  BY <1>1, <1>2, <1>3, <1>4, <1>5, <1>6, <1>7
     DEF JointStep, Admits, TurnsAway, Queues, Drains, Settles, Withdraws

\* A task that was canceled while it waited in the queue stays canceled: its
\* entry is never started, and nothing is published for it again.
THEOREM CanceledIsLeftAlone ==
    ASSUME OwnTasks PROVE Spec => CanceledInQueueStays
<1> DEFINE Kept == \A c \in Call : state[TaskOf[c]] = "canceled" /\ phase[c] = "none"
                      => phase'[c] = "none" /\ state'[TaskOf[c]] = "canceled"
<1>1. TasksInv /\ JointInv /\ ChainInv /\ QP!IInv /\ [Next]_vars => Kept
  BY OwnTasks, StepOfEntries, CanceledStays DEF ChainInv, AgentTypes
<1>2. Spec => [][Kept]_vars
  BY <1>1, QueueInvariant, ChainsWellFormed, ExecutorsAgree, StatusesFollow, OwnTasks, PTL DEF Spec
<1> QED  BY <1>2 DEF CanceledInQueueStays

-----------------------------------------------------------------------------
(* The statuses of tasks that nobody cancels.                              *)

Published == [t \in Task \ Cancels |-> state[t]]

\* Publishing v for t is a step of the lifecycle if it follows what came before.
LEMMA PublishIsStep ==
    ASSUME A!TypeOK, NEW t \in Task, NEW v, A!Publish(t, v)
    PROVE  /\ t \in Cancels => Published' = Published
           /\ t \notin Cancels => /\ Published' = [Published EXCEPT ![t] = v]
                                  /\ Published[t] = state[t]
BY DEF A!TypeOK, A!Publish, Published

\* Every step publishes what the lifecycle allows next, if anything.
LEMMA LifecycleStep ==
    ASSUME A!TypeOK, QP!TypeOK, JointInv, TasksInv, JointStep
    PROVE  [Life!Next]_Published
<1> DEFINE Goal == [Life!Next]_Published
<1>1. ASSUME NEW t \in Task, NEW v, A!Publish(t, v),
             t \notin Cancels =>
                \/ v = "submitted" /\ state[t] = "none"
                \/ v = "rejected" /\ state[t] = "none"
                \/ v = "working" /\ state[t] \in {"none", "submitted", "working"}
                \/ v = "completed" /\ state[t] = "working"
                \/ v = "failed" /\ state[t] \in {"none", "submitted", "working"}
      PROVE  Goal
  <2>1. CASE t \in Cancels
    BY <1>1, <2>1, PublishIsStep
  <2>2. CASE t \notin Cancels
    <3>1. t \in Task \ Cancels /\ Published' = [Published EXCEPT ![t] = v] /\ Published[t] = state[t]
      BY <1>1, <2>2, PublishIsStep
    <3> QED
      BY <1>1, <2>2, <3>1
         DEF Life!Next, Life!Submit, Life!TurnAway, Life!Work, Life!Complete, Life!Fail,
             Life!Step, Published
  <2> QED  BY <2>1, <2>2
<1>2. ASSUME state' = state PROVE Goal
  BY <1>2 DEF Published
<1> HIDE DEF Goal
<1>3. ASSUME NEW c \in Call
      PROVE  /\ TaskOf[c] \in Task
             /\ promise[c] = "none" => state[TaskOf[c]] = "none"
             /\ InQueue(c) => state[TaskOf[c]] \in {"none", "submitted"}
             /\ phase[c] \in Live /\ TaskOf[c] \notin Cancels => state[TaskOf[c]] = "working"
  BY ExecutorAssumption DEF TasksInv, StatusFollows
<1>4. ASSUME NEW c \in Call, A!Execute(c), promise[c] = "none" \/ InQueue(c) PROVE Goal
  BY <1>1, <1>2, <1>3, <1>4 DEF A!Execute
<1>5. ASSUME NEW c \in Call, NEW v \in {"rejected", "submitted"}, promise[c] = "none",
             OnlyPublish(TaskOf[c], v)
      PROVE  Goal
  BY <1>1, <1>3, <1>5 DEF OnlyPublish
<1>6. ASSUME NEW c \in Call, TaskOf[c] \in Cancels, OnlyPublish(TaskOf[c], "canceled") PROVE Goal
  BY <1>1, <1>3, <1>6 DEF OnlyPublish
<1>7. ASSUME NEW c \in Call, A!Progress(c) \/ A!Heartbeat(c) PROVE Goal
  <2>1. CASE A!DispatchStarts(c) \/ A!CleanUp(c)
    BY <1>2, <2>1 DEF A!DispatchStarts, A!CleanUp
  <2>2. CASE A!DispatchSettles(c)
    BY <1>1, <1>2, <1>3, <2>2 DEF A!DispatchSettles, Live
  <2>3. CASE A!FallbackEnds(c)
    BY <1>1, <1>3, <2>3 DEF A!FallbackEnds, Live
  <2>4. CASE A!Heartbeat(c)
    BY <1>1, <1>3, <2>4 DEF A!Heartbeat, A!HeartbeatOn, Live
  <2> QED  BY <1>7, <2>1, <2>2, <2>3, <2>4 DEF A!Progress
<1>8. ASSUME NEW t \in Task, A!CancelTask(t) PROVE Goal
  BY <1>1, <1>8 DEF A!CancelTask
<1>9. ASSUME UNCHANGED agentVars PROVE Goal
  BY <1>2, <1>9 DEF agentVars
<1>10. Goal
  BY <1>4, <1>5, <1>6, <1>7, <1>8, <1>9
     DEF JointStep, Admits, TurnsAway, Queues, Drains, Settles, Withdraws
<1> QED  BY <1>10 DEF Goal

\* What is published for a task that nobody cancels is a path of TaskLifecycle.
THEOREM LifecycleIsFollowed ==
    ASSUME OwnTasks PROVE Spec => FollowsLifecycle
<1>1. Init => Life!Init
  BY DEF Init, A!Init, Life!Init
<1>2. TasksInv /\ JointInv /\ ChainInv /\ QP!IInv /\ [Next]_vars
         => [Life!Next]_([t \in Task \ Cancels |-> state[t]])
  <2>1. TasksInv /\ JointInv /\ ChainInv /\ QP!IInv /\ [Next]_vars => [Life!Next]_Published
    BY StepOfEntries, LifecycleStep DEF ChainInv, AgentTypes, QP!IInv
  <2> QED  BY <2>1 DEF Published
<1>3. Spec => Life!Spec
  BY <1>1, <1>2, QueueInvariant, ChainsWellFormed, ExecutorsAgree, StatusesFollow, OwnTasks, PTL
     DEF Spec, Life!Spec
<1> QED  BY <1>3 DEF FollowsLifecycle

=============================================================================
