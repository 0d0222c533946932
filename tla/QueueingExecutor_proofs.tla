----------------------- MODULE QueueingExecutor_proofs -----------------------
(***************************************************************************)
(* Theorems about QueueingExecutor, for every set of calls, every          *)
(* assignment of task ids to calls (shared ones included), every limit and *)
(* either value of TaskStateBound.                                         *)
(***************************************************************************)
EXTENDS QueueingExecutor, SequenceTheorems, FiniteSetTheorems, TLAPS

-----------------------------------------------------------------------------
(* Sequences.                                                              *)

\* What splicing one element out of a sequence leaves.
LEMMA UnqueueFacts ==
    ASSUME NEW S, NEW q \in Seq(S), NEW i \in 1..Len(q)
    PROVE  /\ Unqueue(q, i) \in Seq(S)
           /\ Len(Unqueue(q, i)) = Len(q) - 1
           /\ \A k \in 1..(Len(q) - 1) :
                Unqueue(q, i)[k] = IF k < i THEN q[k] ELSE q[k + 1]
<1> DEFINE l == SubSeq(q, 1, i-1)
           r == SubSeq(q, i+1, Len(q))
<1>1. l \in Seq(S) /\ Len(l) = i - 1 /\ \A k \in 1..(i-1) : l[k] = q[k]
  OBVIOUS
<1>2. /\ r \in Seq(S) /\ Len(r) = Len(q) - i
      /\ \A k \in 1..(Len(q) - i) : r[k] = q[k + i]
  OBVIOUS
<1>3. Unqueue(q, i) = l \o r
  BY DEF Unqueue, RemoveAt, l, r
<1> HIDE DEF l, r
<1>4. /\ l \o r \in Seq(S)
      /\ Len(l \o r) = Len(l) + Len(r)
      /\ \A k \in 1..(Len(l) + Len(r)) :
           (l \o r)[k] = IF k <= Len(l) THEN l[k] ELSE r[k - Len(l)]
  BY <1>1, <1>2, ConcatProperties
<1>5. \A k \in 1..(Len(q) - 1) :
        (l \o r)[k] = IF k < i THEN q[k] ELSE q[k + 1]
  <2> SUFFICES ASSUME NEW k \in 1..(Len(q) - 1)
               PROVE  (l \o r)[k] = IF k < i THEN q[k] ELSE q[k + 1]
    OBVIOUS
  <2>1. CASE k < i
    BY <2>1, <1>1, <1>2, <1>4
  <2>2. CASE ~(k < i)
    <3> DEFINE m == k - (i - 1)
    <3>1. m \in 1..(Len(q) - i) /\ m + i = k + 1
      BY <2>2
    <3>2. (l \o r)[k] = r[m]
      BY <2>2, <1>1, <1>2, <1>4
    <3> HIDE DEF m
    <3>3. r[m] = q[m + i]
      BY <3>1, <1>2
    <3> QED BY <2>2, <3>1, <3>2, <3>3
  <2> QED BY <2>1, <2>2
<1> QED BY <1>1, <1>2, <1>3, <1>4, <1>5

\* q2 is a queue with entries of q only, none of them twice if q has none twice.
Thins(q2, q) ==
    /\ q2 \in Seq(Call)
    /\ Len(q2) <= Len(q)
    /\ \A k \in 1..Len(q2) : \E m \in 1..Len(q) : q2[k] = q[m]
    /\ Apart(q) => Apart(q2)

\* Splicing an entry out thins the queue.
LEMMA UnqueueThins ==
    ASSUME NEW q \in Seq(Call), NEW i \in 1..Len(q)
    PROVE  Thins(Unqueue(q, i), q)
<1> DEFINE u == Unqueue(q, i)
<1>1. /\ u \in Seq(Call) /\ Len(u) = Len(q) - 1
      /\ \A k \in 1..(Len(q) - 1) : u[k] = IF k < i THEN q[k] ELSE q[k + 1]
  BY UnqueueFacts
<1> HIDE DEF u
<1>2. \A k \in 1..Len(u) : \E m \in 1..Len(q) : u[k] = q[m]
  BY <1>1
<1>3. ASSUME Apart(q) PROVE Apart(u)
  BY <1>1, <1>3 DEF Apart
<1> QED BY <1>1, <1>2, <1>3 DEF Thins, u

\* So does queueDelete, whether or not it finds an entry.
LEMMA QueueDeleteThins ==
    ASSUME NEW q \in Seq(Call), NEW t
    PROVE  Thins(QueueDelete(q, t), q)
<1>1. CASE FirstOf(q, t) = {}
  BY <1>1 DEF QueueDelete, Thins
<1>2. CASE FirstOf(q, t) # {}
  <2> DEFINE i == CHOOSE k \in FirstOf(q, t) : TRUE
  <2>1. i \in 1..Len(q)
    BY <1>2 DEF FirstOf
  <2> QED BY <1>2, <2>1, UnqueueThins DEF QueueDelete
<1> QED BY <1>1, <1>2

\* So does shifting the head off, and the head is then no longer there.
LEMMA TailThins ==
    ASSUME NEW q \in Seq(Call), q # <<>>
    PROVE  /\ Thins(Tail(q), q)
           /\ Apart(q) => \A k \in 1..Len(Tail(q)) : Tail(q)[k] # Head(q)
<1> DEFINE r == Tail(q)
<1>1. /\ r \in Seq(Call) /\ Len(r) = Len(q) - 1 /\ Len(q) \in Nat \ {0}
      /\ Head(q) = q[1]
      /\ \A k \in 1..Len(r) : r[k] = q[k + 1]
  BY HeadTailProperties
<1> HIDE DEF r
<1>2. \A k \in 1..Len(r) : \E m \in 1..Len(q) : r[k] = q[m]
  BY <1>1
<1>3. ASSUME Apart(q) PROVE Apart(r)
  BY <1>1, <1>3 DEF Apart
<1>4. ASSUME Apart(q), NEW k \in 1..Len(r) PROVE r[k] # Head(q)
  BY <1>1, <1>4 DEF Apart
<1> QED BY <1>1, <1>2, <1>3, <1>4 DEF Thins, r

-----------------------------------------------------------------------------
(* The inductive invariant.  EntriesApart is what ConcurrencyCap needs: a  *)
(* started entry adds one to running only if it was not running already.   *)

IInv == TypeOK /\ EntriesApart /\ ConcurrencyCap /\ QueueBound /\ WorkConservation

LEMMA CapFacts == Cap \in Nat \ {0} /\ QueueCap \in Nat
BY LimitAssumption DEF Cap, QueueCap

\* Adding an entry to running, or taking one out, moves its size by one.
LEMMA RunningCount ==
    ASSUME NEW r \in SUBSET Call, NEW c \in Call
    PROVE  /\ Cardinality(r) \in Nat
           /\ c \notin r => Cardinality(r \cup {c}) = Cardinality(r) + 1
           /\ c \in r => Cardinality(r \ {c}) = Cardinality(r) - 1
<1>1. IsFiniteSet(r)
  BY CallAssumption, FS_Subset
<1> QED BY <1>1, FS_CardinalityType, FS_AddElement, FS_RemoveElement

\* What the synchronous part of runEntry does to the queue and the counter.
LEMMA RunEntryFacts ==
    ASSUME TypeOK, ConcurrencyCap, NEW c \in Call, NEW q \in Seq(Call),
           c \notin running, SlotFree, RunEntry(c, q)
    PROVE  /\ Thins(queue', q)
           /\ running' = running \cup {c}
           /\ running' \in SUBSET Call
           /\ activeTasks' \in Nat
           /\ ConcurrencyCap'
           /\ gauges' \in [active : Nat, queued : Nat]
<1>1. Thins(queue', q)
  BY QueueDeleteThins DEF RunEntry
<1>2. Len(queue') \in Nat
  BY <1>1, LenProperties DEF Thins
<1>3. /\ activeTasks' = activeTasks + 1 /\ running' = running \cup {c}
      /\ gauges' = [active |-> activeTasks + 1, queued |-> Len(queue')]
  BY DEF RunEntry
<1>4. activeTasks' \in Nat /\ running' \in SUBSET Call
  BY <1>3 DEF TypeOK
<1>5. gauges' \in [active : Nat, queued : Nat]
  BY <1>2, <1>3, <1>4
<1>6. activeTasks' = Cardinality(running') /\ activeTasks' <= Cap
  BY <1>3, RunningCount, CapFacts, SMTT(30) DEF TypeOK, ConcurrencyCap, SlotFree
<1>7. Cap' = Cap
  BY DEF Cap
<1> QED BY <1>1, <1>3, <1>4, <1>5, <1>6, <1>7 DEF ConcurrencyCap

LEMMA InitIInv == Init => IInv
<1> SUFFICES ASSUME Init PROVE IInv
  OBVIOUS
<1>1. TypeOK
  <2>1. queue \in Seq(Call)
    BY EmptySeq DEF Init
  <2>2. pendingByTaskId \in [Task -> Call \cup {NoCall}]
    BY DEF Init
  <2>3. promise \in [Call -> Promises] /\ finished \in [Call -> BOOLEAN]
    BY DEF Init, Promises
  <2> QED BY <2>1, <2>2, <2>3 DEF Init, TypeOK
<1>2. EntriesApart /\ QueueBound /\ WorkConservation
  BY CapFacts DEF Init, EntriesApart, Apart, QueueBound, WorkConservation
<1>3. ConcurrencyCap
  BY CapFacts, FS_EmptySet DEF Init, ConcurrencyCap
<1> QED BY <1>1, <1>2, <1>3 DEF IInv

LEMMA ExecuteNowIInv ==
    ASSUME IInv, NEW c \in Call, ExecuteNow(c) PROVE IInv'
<1> USE DEF IInv
<1>1. /\ c \notin running
      /\ queue = <<>>
  BY CapFacts DEF ExecuteNow, Arrives, SlotFree, EntriesApart, WorkConservation, TypeOK
<1>2. /\ Thins(queue', queue) /\ running' = running \cup {c}
      /\ running' \in SUBSET Call /\ activeTasks' \in Nat /\ ConcurrencyCap'
      /\ gauges' \in [active : Nat, queued : Nat]
  BY <1>1, RunEntryFacts DEF ExecuteNow, TypeOK
<1>3. queue' \in Seq(Call) /\ Len(queue') = 0 /\ queue' = <<>>
  BY <1>1, <1>2, LenProperties, EmptySeq DEF Thins
<1>4. TypeOK'
  BY <1>2, <1>3, CallAssumption DEF TypeOK, ExecuteNow, Promises
<1>5. EntriesApart'
  BY <1>2, <1>3 DEF EntriesApart, Apart, ExecuteNow, TypeOK
<1>6. QueueBound' /\ WorkConservation'
  BY <1>3, CapFacts DEF QueueBound, WorkConservation, QueueCap
<1> QED BY <1>2, <1>4, <1>5, <1>6

LEMMA ExecuteRejectedIInv ==
    ASSUME IInv, NEW c \in Call, ExecuteRejected(c) PROVE IInv'
<1> USE DEF IInv
<1>1. TypeOK'
  BY LenProperties, CallAssumption DEF TypeOK, ExecuteRejected, Forget, Promises
<1>2. EntriesApart'
  BY DEF EntriesApart, Apart, ExecuteRejected, TypeOK
<1>3. ConcurrencyCap' /\ QueueBound' /\ WorkConservation'
  BY DEF ExecuteRejected, ConcurrencyCap, QueueBound, WorkConservation, Cap, QueueCap
<1> QED BY <1>1, <1>2, <1>3

LEMMA ExecuteQueuedIInv ==
    ASSUME IInv, NEW c \in Call, ExecuteQueued(c) PROVE IInv'
<1> USE DEF IInv
<1>1. /\ queue' \in Seq(Call) /\ Len(queue') = Len(queue) + 1
      /\ Len(queue) \in Nat
      /\ \A k \in 1..Len(queue) : queue'[k] = queue[k]
      /\ queue'[Len(queue) + 1] = c
  BY AppendProperties DEF ExecuteQueued, Push, TypeOK
<1>2. /\ promise[c] = "none"
      /\ promise' \in [Call -> Promises]
      /\ \A d \in Call : promise[d] # "none" => promise'[d] # "none"
      /\ promise'[c] # "none"
  BY DEF ExecuteQueued, Arrives, TypeOK, Promises
<1>3. TypeOK'
  <2>1. gauges' \in [active : Nat, queued : Nat]
    BY <1>1 DEF ExecuteQueued, TypeOK
  <2>2. pendingByTaskId' \in [Task -> Call \cup {NoCall}]
    BY CallAssumption DEF ExecuteQueued, TypeOK
  <2> QED BY <1>1, <1>2, <2>1, <2>2 DEF ExecuteQueued, TypeOK
<1>4. EntriesApart'
  <2>1. \A k \in 1..Len(queue) : queue[k] \in Call /\ queue[k] # c
    BY <1>2, ElementOfSeq DEF EntriesApart, TypeOK
  <2>2. c \notin running
    BY <1>2 DEF EntriesApart
  <2>3. Apart(queue')
    BY <1>1, <2>1 DEF EntriesApart, Apart
  <2>4. \A k \in 1..Len(queue') : /\ queue'[k] \notin running'
                                  /\ promise'[queue'[k]] # "none"
    BY <1>1, <1>2, <2>1, <2>2 DEF ExecuteQueued, EntriesApart
  <2>5. \A d \in running' : promise'[d] # "none"
    BY <1>2 DEF ExecuteQueued, EntriesApart, TypeOK
  <2> QED BY <2>3, <2>4, <2>5 DEF EntriesApart
<1>5. ConcurrencyCap' /\ WorkConservation'
  BY CapFacts DEF ExecuteQueued, SlotFree, ConcurrencyCap, WorkConservation, Cap, TypeOK
<1>6. QueueBound'
  BY <1>1, CapFacts DEF ExecuteQueued, QueueFull, QueueBound, QueueCap
<1> QED BY <1>3, <1>4, <1>5, <1>6

\* A thinner queue of the same entries keeps EntriesApart if running does not
\* grow and no promise goes back to "none".
LEMMA ThinnedApart ==
    ASSUME IInv, Thins(queue', queue), running' \subseteq running,
           \A d \in Call : promise[d] # "none" => promise'[d] # "none"
    PROVE  EntriesApart'
<1> USE DEF IInv
<1>1. Apart(queue')
  BY DEF EntriesApart, Thins
<1>2. \A k \in 1..Len(queue') : /\ queue'[k] \notin running'
                                /\ promise'[queue'[k]] # "none"
  BY ElementOfSeq DEF EntriesApart, Thins, TypeOK
<1>3. \A d \in running' : promise'[d] # "none"
  BY DEF EntriesApart, TypeOK
<1> QED BY <1>1, <1>2, <1>3 DEF EntriesApart

\* Settling keeps the promises' type and never goes back to "none".
LEMMA SettleFacts ==
    ASSUME TypeOK, NEW c \in Call, NEW o \in {"resolved", "rejected"}, Settle(c, o)
    PROVE  /\ promise' \in [Call -> Promises]
           /\ \A d \in Call : promise[d] # "none" => promise'[d] # "none"
BY DEF TypeOK, Settle, Settled, Promises

LEMMA CancelQueuedIInv ==
    ASSUME IInv, NEW t \in Task, CancelQueued(t) PROVE IInv'
<1> USE DEF IInv
<1>1. PICK i \in FirstOf(queue, t) :
         /\ queue' = Unqueue(queue, i)
         /\ Forget(t)
         /\ IF TaskStateBound
            THEN /\ finished' = [finished EXCEPT ![queue[i]] = TRUE]
                 /\ Settle(queue[i], "resolved")
                 /\ gauges' = [active |-> activeTasks, queued |-> Len(queue')]
            ELSE UNCHANGED <<finished, promise, gauges>>
  BY DEF CancelQueued
<1>2. i \in 1..Len(queue) /\ queue[i] \in Call
  BY ElementOfSeq DEF FirstOf, TypeOK
<1>3. Thins(queue', queue)
  BY <1>1, <1>2, UnqueueThins DEF TypeOK
<1>4. Len(queue') \in Nat /\ Len(queue) \in Nat
  BY <1>3, LenProperties DEF Thins, TypeOK
<1>5. /\ promise' \in [Call -> Promises]
      /\ \A d \in Call : promise[d] # "none" => promise'[d] # "none"
  BY <1>1, <1>2, SettleFacts, BoundAssumption DEF TypeOK
<1>6. TypeOK'
  <2>1. pendingByTaskId' \in [Task -> Call \cup {NoCall}]
    BY <1>1 DEF Forget, TypeOK
  <2>2. CASE TaskStateBound
    <3>1. gauges' \in [active : Nat, queued : Nat]
      BY <1>1, <1>4, <2>2 DEF TypeOK
    <3>2. finished' \in [Call -> BOOLEAN]
      BY <1>1, <2>2 DEF TypeOK
    <3> QED BY <3>1, <3>2, <2>1, <1>3, <1>5 DEF CancelQueued, Thins, TypeOK
  <2>3. CASE ~TaskStateBound
    BY <1>1, <2>3, <2>1, <1>3, <1>5 DEF CancelQueued, Thins, TypeOK
  <2> QED BY <2>2, <2>3
<1>7. EntriesApart'
  BY <1>3, <1>5, ThinnedApart DEF CancelQueued
<1>8. queue' # <<>> => queue # <<>>
  BY <1>2, <1>4 DEF TypeOK
<1>9. ConcurrencyCap' /\ QueueBound' /\ WorkConservation'
  BY <1>3, <1>4, <1>8, CapFacts
  DEF CancelQueued, Thins, ConcurrencyCap, QueueBound, WorkConservation, Cap, QueueCap
<1> QED BY <1>6, <1>7, <1>9

LEMMA FinishRunIInv ==
    ASSUME IInv, NEW c \in Call, NEW o \in {"resolved", "rejected"}, FinishRun(c, o)
    PROVE  IInv'
<1> USE DEF IInv
<1>1. /\ running' = running \ {c} /\ c \in running /\ queue' = queue
      /\ running' \in SUBSET Call
  BY DEF FinishRun, TypeOK
<1>2. /\ activeTasks' = Cardinality(running')
      /\ activeTasks' \in Nat /\ activeTasks' = activeTasks - 1
  <2>1. /\ Cardinality(running') = activeTasks - 1
        /\ activeTasks \in Nat
    BY <1>1, RunningCount DEF ConcurrencyCap, TypeOK
  <2>2. Cardinality(running') \in Nat
    BY <1>1, RunningCount
  <2>3. activeTasks' = IF activeTasks < 1 THEN 0 ELSE activeTasks - 1
    BY DEF FinishRun
  <2> QED BY <2>1, <2>2, <2>3
<1>3. /\ promise' \in [Call -> Promises]
      /\ \A d \in Call : promise[d] # "none" => promise'[d] # "none"
  BY SettleFacts DEF FinishRun
<1>4. TypeOK'
  <2>1. gauges' \in [active : Nat, queued : Nat]
    BY <1>2, LenProperties DEF FinishRun, TypeOK
  <2>2. pendingByTaskId' \in [Task -> Call \cup {NoCall}]
    BY DEF FinishRun, Forget, TypeOK
  <2>3. finished' \in [Call -> BOOLEAN] /\ draining' = TRUE
    BY DEF FinishRun, TypeOK
  <2> QED BY <1>1, <1>2, <1>3, <2>1, <2>2, <2>3 DEF TypeOK
<1>5. EntriesApart'
  BY <1>1, <1>3, ThinnedApart DEF Thins, TypeOK
<1>6. ConcurrencyCap' /\ QueueBound' /\ WorkConservation'
  BY <1>1, <1>2, CapFacts
  DEF FinishRun, ConcurrencyCap, QueueBound, WorkConservation, Cap, QueueCap
<1> QED BY <1>4, <1>5, <1>6

LEMMA DrainQueueIInv ==
    ASSUME IInv, DrainQueue PROVE IInv'
<1> USE DEF IInv
<1> DEFINE c == Head(queue)
           q == Tail(queue)
<1>1. queue # <<>> /\ SlotFree /\ RunEntry(c, q) /\ draining' = TRUE
  BY DEF DrainQueue, DrainGuard
<1>2. /\ c \in Call /\ q \in Seq(Call) /\ Thins(q, queue)
      /\ \A k \in 1..Len(q) : q[k] # c
      /\ c = queue[1] /\ 1 \in 1..Len(queue)
  BY <1>1, HeadTailProperties, TailThins, EmptySeq DEF EntriesApart, TypeOK
<1>3. c \notin running /\ promise[c] # "none"
  BY <1>2 DEF EntriesApart
<1> HIDE DEF c, q
<1>4. /\ Thins(queue', q) /\ running' = running \cup {c}
      /\ running' \in SUBSET Call /\ activeTasks' \in Nat /\ ConcurrencyCap'
      /\ gauges' \in [active : Nat, queued : Nat]
  BY <1>1, <1>2, <1>3, RunEntryFacts
<1>5. Thins(queue', queue)
  BY <1>2, <1>4, LenProperties DEF Thins, TypeOK
<1>6. TypeOK'
  BY <1>1, <1>4 DEF DrainQueue, Thins, TypeOK
<1>7. EntriesApart'
  <2>1. Apart(queue')
    BY <1>5 DEF Thins, EntriesApart
  <2>2. \A k \in 1..Len(queue') : /\ queue'[k] \notin running'
                                  /\ promise'[queue'[k]] # "none"
    <3> SUFFICES ASSUME NEW k \in 1..Len(queue')
                 PROVE  queue'[k] \notin running' /\ promise[queue'[k]] # "none"
      BY DEF DrainQueue
    <3>1. queue'[k] # c
      BY <1>2, <1>4 DEF Thins
    <3>2. PICK m \in 1..Len(queue) : queue'[k] = queue[m]
      BY <1>5 DEF Thins
    <3> QED BY <1>4, <3>1, <3>2 DEF EntriesApart
  <2>3. \A d \in running' : promise'[d] # "none"
    BY <1>3, <1>4 DEF DrainQueue, EntriesApart
  <2> QED BY <2>1, <2>2, <2>3 DEF EntriesApart
<1>8. QueueBound' /\ WorkConservation'
  <2>1. Len(queue') \in Nat /\ Len(queue) \in Nat
    BY <1>5, LenProperties DEF Thins, TypeOK
  <2> QED BY <1>1, <1>5, <2>1, CapFacts DEF Thins, QueueBound, WorkConservation, QueueCap
<1> QED BY <1>4, <1>6, <1>7, <1>8

LEMMA DrainQueueEndsIInv ==
    ASSUME IInv, DrainQueueEnds PROVE IInv'
<1> USE DEF IInv
<1>1. TypeOK' /\ EntriesApart'
  BY DEF DrainQueueEnds, TypeOK, EntriesApart, Apart
<1>2. ConcurrencyCap' /\ QueueBound' /\ WorkConservation'
  BY CapFacts DEF DrainQueueEnds, DrainGuard, SlotFree, TypeOK, ConcurrencyCap,
                  QueueBound, WorkConservation, Cap, QueueCap
<1> QED BY <1>1, <1>2

LEMMA StutterIInv == ASSUME IInv, UNCHANGED vars PROVE IInv'
BY DEF IInv, vars, TypeOK, EntriesApart, Apart, ConcurrencyCap, QueueBound,
       WorkConservation, Cap, QueueCap

LEMMA NextIInv == IInv /\ [Next]_vars => IInv'
BY ExecuteNowIInv, ExecuteRejectedIInv, ExecuteQueuedIInv, CancelQueuedIInv,
   FinishRunIInv, DrainQueueIInv, DrainQueueEndsIInv, StutterIInv DEF Next

LEMMA InductiveInvariant == Spec => []IInv
<1> QED BY InitIInv, NextIInv, PTL DEF Spec

-----------------------------------------------------------------------------

\* Every variable keeps its type, whatever the calls, their task ids and the
\* limits.
THEOREM TypeCorrect == Spec => []TypeOK
<1>1. IInv => TypeOK
  BY DEF IInv
<1> QED BY <1>1, InductiveInvariant, PTL

\* The number of delegate runs under way is exactly activeTasks and never
\* above the configured concurrency: no interleaving of arrivals, cancels and
\* settlements leaks or doubles a slot (execute, runEntry and its finally).
THEOREM NeverOverCap == Spec => []ConcurrencyCap
<1>1. IInv => ConcurrencyCap
  BY DEF IInv
<1> QED BY <1>1, InductiveInvariant, PTL

\* The queue never holds more than the configured number of entries.
THEOREM QueueNeverOverflows == Spec => []QueueBound
<1>1. IInv => QueueBound
  BY DEF IInv
<1> QED BY <1>1, InductiveInvariant, PTL

\* Between two handlers an entry waits only if every slot is taken: drainQueue
\* refills what a finishing run frees.
THEOREM NeverIdleWhileQueued == Spec => []WorkConservation
<1>1. IInv => WorkConservation
  BY DEF IInv
<1> QED BY <1>1, InductiveInvariant, PTL

-----------------------------------------------------------------------------
(* Order.                                                                  *)

\* Two entries of q2 come from two entries of q in the same order.
KeepsOrder(q2, q) == \A k, l \in 1..Len(q2) : k < l =>
    \E m, n \in 1..Len(q) : m < n /\ q2[k] = q[m] /\ q2[l] = q[n]

\* Splicing an entry out keeps the order of the others.
LEMMA UnqueueOrder ==
    ASSUME NEW q \in Seq(Call), NEW i \in 1..Len(q)
    PROVE  KeepsOrder(Unqueue(q, i), q)
<1> DEFINE u == Unqueue(q, i)
           From(k) == IF k < i THEN k ELSE k + 1
<1>1. Len(u) = Len(q) - 1 /\ \A k \in 1..Len(u) : u[k] = q[From(k)]
  BY UnqueueFacts
<1>2. Len(q) \in Nat
  BY LenProperties
<1> HIDE DEF u
<1>3. ASSUME NEW k \in 1..Len(u), NEW l \in 1..Len(u), k < l
      PROVE  From(k) \in 1..Len(q) /\ From(l) \in 1..Len(q) /\ From(k) < From(l)
  BY <1>1, <1>2, <1>3
<1> HIDE DEF From
<1>4. KeepsOrder(u, q)
  BY <1>1, <1>3 DEF KeepsOrder
<1> QED  BY <1>4 DEF u

\* So does queueDelete.
LEMMA QueueDeleteOrder ==
    ASSUME NEW q \in Seq(Call), NEW t
    PROVE  KeepsOrder(QueueDelete(q, t), q)
<1>1. CASE FirstOf(q, t) = {}
  BY <1>1 DEF QueueDelete, KeepsOrder
<1>2. CASE FirstOf(q, t) # {}
  <2>1. (CHOOSE k \in FirstOf(q, t) : TRUE) \in 1..Len(q)
    BY <1>2 DEF FirstOf
  <2> QED  BY <1>2, <2>1, UnqueueOrder DEF QueueDelete
<1> QED  BY <1>1, <1>2

\* In a queue without repetitions, two entries that are kept stay as they are.
LEMMA StayInOrder ==
    ASSUME NEW q \in Seq(Call), NEW q2 \in Seq(Call), Apart(q), KeepsOrder(q2, q),
           NEW i \in 1..Len(q), NEW j \in 1..Len(q), i < j,
           NEW k \in 1..Len(q2), NEW l \in 1..Len(q2), q2[k] = q[i], q2[l] = q[j]
    PROVE  k < l
<1>1. CASE k = l
  BY <1>1 DEF Apart
<1>2. ASSUME l < k PROVE FALSE
  <2>1. PICK m, n \in 1..Len(q) : m < n /\ q2[l] = q[m] /\ q2[k] = q[n]
    BY <1>2 DEF KeepsOrder
  <2>2. m = j /\ n = i
    BY <2>1 DEF Apart
  <2> QED  BY <2>1, <2>2
<1> QED  BY <1>1, <1>2

\* The property for the calls a and b in one step.
Ordered(a, b) == AheadOf(a, b) /\ InQueue(a)' =>
    /\ b \notin running' \ running
    /\ InQueue(b)' => AheadOf(a, b)'

\* A call that is yet to come is not in the queue.
LEMMA ToComeNotQueued ==
    ASSUME EntriesApart, NEW b, InQueue(b) PROVE promise[b] # "none"
BY DEF EntriesApart, InQueue

\* When the queue only loses entries, and what starts is not behind another that
\* stays, calls start in order.
LEMMA ThinnedOrdered ==
    ASSUME IInv, queue' \in Seq(Call), Thins(queue', queue), KeepsOrder(queue', queue),
           NEW a \in Call, NEW b \in Call,
           AheadOf(a, b) /\ InQueue(a)' => b \notin running' \ running
    PROVE  Ordered(a, b)
<1> SUFFICES ASSUME AheadOf(a, b), InQueue(a)', InQueue(b)' PROVE AheadOf(a, b)'
  BY DEF Ordered
<1>1. PICK k \in 1..Len(queue') : queue'[k] = a
  BY DEF InQueue
<1>2. PICK l \in 1..Len(queue') : queue'[l] = b
  BY DEF InQueue
<1>3. InQueue(b)
  BY <1>2 DEF Thins, InQueue
<1>4. PICK i, j \in 1..Len(queue) : i < j /\ queue[i] = a /\ queue[j] = b
  BY <1>3, ToComeNotQueued DEF AheadOf, IInv
<1>5. k < l
  BY <1>1, <1>2, <1>4, StayInOrder DEF IInv, TypeOK, EntriesApart
<1> QED  BY <1>1, <1>2, <1>5 DEF AheadOf

\* When the queue and what runs stay as they are, so does the order.
LEMMA SameOrdered ==
    ASSUME EntriesApart, queue' = queue, running' \subseteq running, NEW a, NEW b
    PROVE  Ordered(a, b)
<1> SUFFICES ASSUME AheadOf(a, b), InQueue(b)' PROVE AheadOf(a, b)'
  BY DEF Ordered
<1>1. InQueue(b)
  BY DEF InQueue
<1>2. \E i, j \in 1..Len(queue) : i < j /\ queue[i] = a /\ queue[j] = b
  BY <1>1, ToComeNotQueued DEF AheadOf
<1> QED  BY <1>2 DEF AheadOf

LEMMA NextOrdered ==
    ASSUME IInv, [Next]_vars, NEW a \in Call, NEW b \in Call
    PROVE  Ordered(a, b)
<1> USE DEF IInv
<1>1. ASSUME NEW c \in Call, ExecuteNow(c) PROVE Ordered(a, b)
  <2>1. queue = <<>>
    BY <1>1, CapFacts DEF ExecuteNow, SlotFree, Arrives, WorkConservation, TypeOK
  <2> QED  BY <2>1 DEF Ordered, AheadOf, InQueue
<1>2. ASSUME NEW c \in Call, ExecuteRejected(c) PROVE Ordered(a, b)
  BY <1>2, SameOrdered DEF ExecuteRejected
<1>3. ASSUME NEW c \in Call, ExecuteQueued(c) PROVE Ordered(a, b)
  <2>1. /\ Len(queue') = Len(queue) + 1 /\ Len(queue) \in Nat
        /\ \A k \in 1..Len(queue) : queue'[k] = queue[k]
        /\ queue'[Len(queue) + 1] = c
    BY <1>3, AppendProperties DEF ExecuteQueued, Push, TypeOK
  <2>2. running' = running
    BY <1>3 DEF ExecuteQueued
  <2> SUFFICES ASSUME AheadOf(a, b), InQueue(b)' PROVE AheadOf(a, b)'
    BY <2>2 DEF Ordered
  <2>3. CASE \E i, j \in 1..Len(queue) : i < j /\ queue[i] = a /\ queue[j] = b
    BY <2>1, <2>3 DEF AheadOf
  <2>4. CASE InQueue(a) /\ promise[b] = "none"
    <3>1. b = c
      BY <2>1, <2>4, ToComeNotQueued DEF InQueue
    <3>2. PICK i \in 1..Len(queue) : queue[i] = a
      BY <2>4 DEF InQueue
    <3>3. i \in 1..Len(queue') /\ Len(queue) + 1 \in 1..Len(queue') /\ i < Len(queue) + 1
      BY <2>1
    <3> QED  BY <2>1, <3>1, <3>2, <3>3 DEF AheadOf
  <2> QED  BY <2>3, <2>4 DEF AheadOf
<1>4. ASSUME NEW t \in Task, CancelQueued(t) PROVE Ordered(a, b)
  <2>1. PICK i \in FirstOf(queue, t) : queue' = Unqueue(queue, i)
    BY <1>4 DEF CancelQueued
  <2>2. i \in 1..Len(queue)
    BY DEF FirstOf
  <2>3. Thins(queue', queue) /\ KeepsOrder(queue', queue)
    BY <2>1, <2>2, UnqueueThins, UnqueueOrder DEF TypeOK
  <2> QED  BY <1>4, <2>3, ThinnedOrdered DEF CancelQueued, Thins
<1>5. ASSUME NEW c \in Call, NEW o \in {"resolved", "rejected"}, FinishRun(c, o)
      PROVE  Ordered(a, b)
  BY <1>5, SameOrdered DEF FinishRun
<1>6. CASE DrainQueue
  <2> DEFINE q == Tail(queue)
  <2>1. queue # <<>> /\ queue' = QueueDelete(q, TaskOf[Head(queue)])
        /\ running' = running \cup {Head(queue)}
    BY <1>6 DEF DrainQueue, DrainGuard, RunEntry
  <2>2. /\ q \in Seq(Call) /\ Thins(q, queue) /\ Len(queue) \in Nat /\ Len(q) = Len(queue) - 1
        /\ Head(queue) = queue[1] /\ 1 \in 1..Len(queue)
        /\ \A k \in 1..Len(q) : q[k] = queue[k + 1]
    BY <2>1, HeadTailProperties, TailThins, EmptySeq DEF TypeOK
  <2> HIDE DEF q
  <2>3. Thins(queue', q) /\ KeepsOrder(queue', q)
    BY <2>1, <2>2, QueueDeleteThins, QueueDeleteOrder
  <2>4. KeepsOrder(q, queue)
    <3>1. ASSUME NEW k \in 1..Len(q), NEW l \in 1..Len(q), k < l
          PROVE  k + 1 \in 1..Len(queue) /\ l + 1 \in 1..Len(queue) /\ k + 1 < l + 1
      BY <2>2, <3>1
    <3> QED  BY <2>2, <3>1 DEF KeepsOrder
  <2>5. KeepsOrder(queue', queue)
    <3> SUFFICES ASSUME NEW k \in 1..Len(queue'), NEW l \in 1..Len(queue'), k < l
                 PROVE  \E m, n \in 1..Len(queue) :
                           m < n /\ queue'[k] = queue[m] /\ queue'[l] = queue[n]
      BY DEF KeepsOrder
    <3>1. PICK m, n \in 1..Len(q) : m < n /\ queue'[k] = q[m] /\ queue'[l] = q[n]
      BY <2>3 DEF KeepsOrder
    <3> QED  BY <2>4, <3>1 DEF KeepsOrder
  <2>6. Thins(queue', queue)
    BY <2>2, <2>3, LenProperties DEF Thins, TypeOK
  <2>7. ASSUME AheadOf(a, b), b \in running' \ running PROVE FALSE
    <3>1. b = queue[1] /\ InQueue(b)
      BY <2>1, <2>2, <2>7 DEF InQueue
    <3>2. PICK i, j \in 1..Len(queue) : i < j /\ queue[i] = a /\ queue[j] = b
      BY <2>7, <3>1, ToComeNotQueued DEF AheadOf
    <3>3. j = 1
      BY <2>2, <3>1, <3>2 DEF EntriesApart, Apart
    <3> QED  BY <3>2, <3>3
  <2> QED  BY <2>5, <2>6, <2>7, ThinnedOrdered DEF Thins
<1>7. CASE DrainQueueEnds
  BY <1>7, SameOrdered DEF DrainQueueEnds
<1>8. CASE UNCHANGED vars
  BY <1>8, SameOrdered DEF vars
<1> QED  BY <1>1, <1>2, <1>3, <1>4, <1>5, <1>6, <1>7, <1>8 DEF Next

\* Calls start in arrival order, also when calls share a task id.
THEOREM FirstComeFirstServed == Spec => ArrivalOrder
<1>1. IInv /\ [Next]_vars =>
        [\A a, b \in Call : AheadOf(a, b) /\ InQueue(a)' =>
            /\ b \notin running' \ running
            /\ InQueue(b)' => AheadOf(a, b)']_vars
  BY NextOrdered DEF Ordered
<1> QED  BY <1>1, InductiveInvariant, PTL DEF Spec, ArrivalOrder

-----------------------------------------------------------------------------
(* The books, for calls of tasks of their own and TaskState as a value:    *)
(* otherwise forgetting one call's entry may forget another's, and a       *)
(* CANCELED that cannot be built leaves gauges behind.                     *)

OwnTasks == \A c, d \in Call : TaskOf[c] = TaskOf[d] => c = d

GaugesExact == gauges.active = activeTasks /\ gauges.queued = Len(queue)

\* No step makes a book wrong.
LEMMA NextBooks ==
    ASSUME OwnTasks, TaskStateBound, IInv, PendingExact, GaugesExact, [Next]_vars
    PROVE  PendingExact' /\ GaugesExact'
<1> USE DEF IInv
<1>1. ASSUME NEW c \in Call, ExecuteNow(c) PROVE PendingExact' /\ GaugesExact'
  <2>1. PendingExact'
    BY <1>1, CallAssumption, ZenonT(40) DEF ExecuteNow, PendingExact, OwnTasks, TypeOK
  <2>2. GaugesExact'
    BY <1>1 DEF ExecuteNow, RunEntry, GaugesExact
  <2> QED  BY <2>1, <2>2
<1>2. ASSUME NEW c \in Call, ExecuteRejected(c) PROVE PendingExact' /\ GaugesExact'
  <2>1. PendingExact'
    BY <1>2, CallAssumption, ZenonT(40) DEF ExecuteRejected, Forget, PendingExact, OwnTasks, TypeOK
  <2>2. GaugesExact'
    BY <1>2 DEF ExecuteRejected, GaugesExact, TypeOK
  <2> QED  BY <2>1, <2>2
<1>3. ASSUME NEW c \in Call, ExecuteQueued(c) PROVE PendingExact' /\ GaugesExact'
  <2>1. PendingExact'
    BY <1>3, CallAssumption DEF ExecuteQueued, PendingExact, OwnTasks, TypeOK
  <2>2. GaugesExact'
    BY <1>3 DEF ExecuteQueued, GaugesExact, TypeOK
  <2> QED  BY <2>1, <2>2
<1>4. ASSUME NEW t \in Task, CancelQueued(t) PROVE PendingExact' /\ GaugesExact'
  <2>1. PICK i \in FirstOf(queue, t) :
           /\ Forget(t) /\ Settle(queue[i], "resolved")
           /\ gauges' = [active |-> activeTasks, queued |-> Len(queue')]
    BY <1>4 DEF CancelQueued
  <2>2. queue[i] \in Call /\ TaskOf[queue[i]] = t
    BY ElementOfSeq DEF FirstOf, TypeOK
  <2>3. promise'[queue[i]] # "pending"
    BY <2>1, <2>2 DEF Settle, Settled, TypeOK
  <2>4. \A d \in Call : d # queue[i] => promise'[d] = promise[d]
    BY <2>1 DEF Settle, TypeOK
  <2>5. PendingExact'
    BY <2>1, <2>2, <2>3, <2>4, CallAssumption DEF Forget, PendingExact, OwnTasks, TypeOK
  <2>6. GaugesExact'
    BY <1>4, <2>1 DEF CancelQueued, GaugesExact
  <2> QED  BY <2>5, <2>6
<1>5. ASSUME NEW c \in Call, NEW o \in {"resolved", "rejected"}, FinishRun(c, o)
      PROVE  PendingExact' /\ GaugesExact'
  <2>1. promise'[c] # "pending" /\ \A d \in Call : d # c => promise'[d] = promise[d]
    BY <1>5 DEF FinishRun, Settle, Settled, TypeOK
  <2>2. PendingExact'
    BY <1>5, <2>1, CallAssumption, ZenonT(40) DEF FinishRun, Forget, PendingExact, OwnTasks, TypeOK
  <2>3. GaugesExact'
    BY <1>5 DEF FinishRun, GaugesExact
  <2> QED  BY <2>2, <2>3
<1>6. CASE DrainQueue
  BY <1>6 DEF DrainQueue, RunEntry, PendingExact, GaugesExact
<1>7. CASE DrainQueueEnds
  BY <1>7 DEF DrainQueueEnds, PendingExact, GaugesExact
<1>8. CASE UNCHANGED vars
  BY <1>8 DEF vars, PendingExact, GaugesExact
<1> QED  BY <1>1, <1>2, <1>3, <1>4, <1>5, <1>6, <1>7, <1>8 DEF Next

\* The map of pending tasks and the gauges agree with the entries.
THEOREM BooksExact ==
    ASSUME OwnTasks, TaskStateBound
    PROVE  Spec => []BookkeepingExact
<1>1. Init => PendingExact /\ GaugesExact
  <2> SUFFICES ASSUME Init PROVE PendingExact /\ GaugesExact
    OBVIOUS
  <2>1. PendingExact
    BY CallAssumption DEF Init, PendingExact
  <2>2. GaugesExact
    BY DEF Init, GaugesExact
  <2> QED  BY <2>1, <2>2
<1>2. IInv /\ PendingExact /\ GaugesExact /\ [Next]_vars => (PendingExact /\ GaugesExact)'
  BY NextBooks
<1>3. PendingExact /\ GaugesExact => BookkeepingExact
  BY DEF BookkeepingExact, GaugesCurrent, GaugesExact
<1> QED  BY <1>1, <1>2, <1>3, InductiveInvariant, PTL DEF Spec
=============================================================================
