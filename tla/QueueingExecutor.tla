-------------------------- MODULE QueueingExecutor --------------------------
(***************************************************************************)
(* QueueingAgentExecutor (src/src/queueing-executor.ts): the bounded       *)
(* admission queue between the SDK's request handler and the agent         *)
(* executor it wraps (the delegate).                                       *)
(*                                                                         *)
(* JavaScript runs a handler up to its first await without interleaving,   *)
(* so one action is one such run.  The drain loop at the end of a run is   *)
(* the exception: it is unrolled, one iteration per DrainQueue step, and   *)
(* `draining` keeps every other action out until the loop has ended.       *)
(***************************************************************************)
EXTENDS Integers, Sequences, FiniteSets, SequencesExt

CONSTANTS
    Call,                 \* the invocations of execute()
    Task,                 \* task ids
    TaskOf,               \* the task id each invocation is for
    MaxConcurrentTasks,   \* options.maxConcurrentTasks, before the clamping
    MaxQueuedTasks,       \* options.maxQueuedTasks, before the clamping
    TaskStateBound,       \* does TaskState name a value at run time?
    NoCall                \* "no entry" in pendingByTaskId

(***************************************************************************)
(* queueing-executor.ts imports TaskState with "import type", which every  *)
(* transpiler erases, and then uses it as a value: as the file stands, any *)
(* expression that mentions TaskState throws a ReferenceError              *)
(* (TaskStateBound = FALSE).  TaskStateBound = TRUE is the same code with  *)
(* the enum imported as a value, as the comment above statusMessage wants. *)
(***************************************************************************)
ASSUME CallAssumption == IsFiniteSet(Call) /\ TaskOf \in [Call -> Task]
                         /\ NoCall \notin Call
ASSUME LimitAssumption == MaxConcurrentTasks \in Int /\ MaxQueuedTasks \in Int
ASSUME BoundAssumption == TaskStateBound \in BOOLEAN

Cap      == IF MaxConcurrentTasks < 1 THEN 1 ELSE MaxConcurrentTasks
QueueCap == IF MaxQueuedTasks < 0 THEN 0 ELSE MaxQueuedTasks

VARIABLES
    activeTasks,      \* this.activeTasks
    queue,            \* this.queue
    pendingByTaskId,  \* this.pendingByTaskId, NoCall for an absent key
    running,          \* the entries whose runEntry awaits the delegate
    promise,          \* the promise execute() returned, "none" before the call
    finished,         \* did the executor call finished() for this entry?
    draining,         \* is the loop of drainQueue under way?
    gauges            \* telemetry's tasks.active and tasks.queue_depth

vars == <<activeTasks, queue, pendingByTaskId, running, promise, finished,
          draining, gauges>>

Settled(c) == promise[c] \in {"resolved", "rejected"}

Init ==
    /\ activeTasks = 0
    /\ queue = <<>>
    /\ pendingByTaskId = [t \in Task |-> NoCall]
    /\ running = {}
    /\ promise = [c \in Call |-> "none"]
    /\ finished = [c \in Call |-> FALSE]
    /\ draining = FALSE
    /\ gauges = [active |-> 0, queued |-> 0]

-----------------------------------------------------------------------------
(* Helpers.                                                                *)

\* The position of the first queued entry of task t, if there is one.
FirstOf(q, t) == {i \in 1..Len(q) : /\ TaskOf[q[i]] = t
                                    /\ \A j \in 1..(i-1) : TaskOf[q[j]] # t}

\* Mutant: queue.unshift for queue.push.
Push_Front(q, c) == <<c>> \o q

\* queue.push(entry)
Push(q, c) == Append(q, c)

\* Mutant: splices the entry after the one found.
Unqueue_Next(q, i) == RemoveAt(q, i + 1)

\* queue.splice(i, 1)
Unqueue(q, i) == RemoveAt(q, i)

\* queueDelete(t): drops the first queued entry of t, whichever call made it.
QueueDelete(q, t) ==
    IF FirstOf(q, t) = {} THEN q
    ELSE Unqueue(q, CHOOSE i \in FirstOf(q, t) : TRUE)

\* The synchronous part of runEntry(c), called with the queue being q.  The
\* saturation delay is dead code: the constructor drops options.saturation.
RunEntry(c, q) ==
    /\ queue' = QueueDelete(q, TaskOf[c])
    /\ activeTasks' = activeTasks + 1
    /\ running' = running \cup {c}
    /\ gauges' = [active |-> activeTasks + 1, queued |-> Len(queue')]

\* A promise settles once; a later resolve or reject does nothing.
Settle(c, outcome) ==
    promise' = IF Settled(c) THEN promise ELSE [promise EXCEPT ![c] = outcome]

\* Mutant: the map entry stays behind.
Forget_Not(t) == UNCHANGED pendingByTaskId

\* pendingByTaskId.delete(t)
Forget(t) == pendingByTaskId' = [pendingByTaskId EXCEPT ![t] = NoCall]

\* Mutants: off by one at either limit.
SlotFree_OffByOne  == activeTasks <= Cap
QueueFull_OffByOne == Len(queue) > QueueCap

SlotFree  == activeTasks < Cap
QueueFull == Len(queue) >= QueueCap

-----------------------------------------------------------------------------
(* execute(): a free slot, a full queue, or a place in the queue.          *)

Arrives(c) == ~draining /\ promise[c] = "none"

ExecuteNow(c) ==
    /\ Arrives(c)
    /\ SlotFree
    /\ pendingByTaskId' = [pendingByTaskId EXCEPT ![TaskOf[c]] = c]
    /\ promise' = [promise EXCEPT ![c] = "pending"]
    /\ RunEntry(c, queue)
    /\ UNCHANGED <<finished, draining>>

ExecuteRejected(c) ==
    /\ Arrives(c)
    /\ ~SlotFree /\ QueueFull
    /\ Forget(TaskOf[c])
    /\ gauges' = [gauges EXCEPT !.queued = Len(queue)]
    /\ finished' = [finished EXCEPT ![c] = TRUE]
    /\ promise' = [promise EXCEPT ![c] = "resolved"]
    /\ UNCHANGED <<activeTasks, queue, running, draining>>

\* The entry is in the queue before the SUBMITTED event is built; if building
\* it throws, the promise is rejected and the entry stays queued.
ExecuteQueued(c) ==
    /\ Arrives(c)
    /\ ~SlotFree /\ ~QueueFull
    /\ pendingByTaskId' = [pendingByTaskId EXCEPT ![TaskOf[c]] = c]
    /\ queue' = Push(queue, c)
    /\ gauges' = [gauges EXCEPT !.queued = Len(queue')]
    /\ promise' = [promise EXCEPT
                     ![c] = IF TaskStateBound THEN "pending" ELSE "rejected"]
    /\ UNCHANGED <<activeTasks, running, finished, draining>>

-----------------------------------------------------------------------------
(* cancelTask(t) of a queued task; when t is not queued the call goes to   *)
(* the delegate and changes nothing here.  The CANCELED event is built     *)
(* after the entry is removed: if that throws, nothing else happens.       *)

CancelQueued(t) ==
    /\ ~draining
    /\ \E i \in FirstOf(queue, t) :
         LET c == queue[i] IN
         /\ queue' = Unqueue(queue, i)
         /\ Forget(t)
         /\ IF TaskStateBound
            THEN /\ finished' = [finished EXCEPT ![c] = TRUE]
                 /\ Settle(c, "resolved")
                 /\ gauges' = [active |-> activeTasks, queued |-> Len(queue')]
            ELSE UNCHANGED <<finished, promise, gauges>>
    /\ UNCHANGED <<activeTasks, running, draining>>

-----------------------------------------------------------------------------
(* The delegate settles: the rest of runEntry up to the call of drainQueue.*)
(* Without TaskState no delegate run succeeds: the observer of the wrapped *)
(* bus throws out of its first publish.                                    *)

FinishRun(c, outcome) ==
    /\ ~draining
    /\ c \in running
    /\ outcome = "resolved" => TaskStateBound
    /\ running' = running \ {c}
    /\ Settle(c, outcome)
    /\ Forget(TaskOf[c])
    /\ activeTasks' = IF activeTasks < 1 THEN 0 ELSE activeTasks - 1
    /\ gauges' = [active |-> activeTasks', queued |-> Len(queue)]
    /\ finished' = [finished EXCEPT ![c] = TRUE]
    /\ draining' = TRUE
    /\ UNCHANGED queue

\* Mutant: queue.length > 1 for queue.length > 0.
DrainGuard_LeavesLast == SlotFree /\ Len(queue) > 1

DrainGuard == SlotFree /\ queue # <<>>

\* One iteration of the loop in drainQueue: shift an entry and start it.
DrainQueue ==
    /\ draining /\ DrainGuard
    /\ RunEntry(Head(queue), Tail(queue))
    /\ UNCHANGED <<pendingByTaskId, promise, finished, draining>>

DrainQueueEnds ==
    /\ draining /\ ~DrainGuard
    /\ draining' = FALSE
    /\ UNCHANGED <<activeTasks, queue, pendingByTaskId, running, promise,
                   finished, gauges>>

Next ==
    \/ \E c \in Call : \/ ExecuteNow(c) \/ ExecuteRejected(c) \/ ExecuteQueued(c)
                       \/ \E o \in {"resolved", "rejected"} : FinishRun(c, o)
    \/ \E t \in Task : CancelQueued(t)
    \/ DrainQueue \/ DrainQueueEnds

Spec == Init /\ [][Next]_vars

(***************************************************************************)
(* The loop is synchronous code, and a delegate run always settles: each   *)
(* of its waits (connect, agent request, wake fallback) has a timer        *)
(* (withTimeout and the request timers of executor.ts).                    *)
(***************************************************************************)
Fairness ==
    /\ WF_vars(DrainQueue \/ DrainQueueEnds)
    /\ \A c \in Call : WF_vars(\E o \in {"resolved", "rejected"} : FinishRun(c, o))

FairSpec == Spec /\ Fairness

-----------------------------------------------------------------------------
(* Properties.                                                             *)

Promises == {"none", "pending", "resolved", "rejected"}

\* Every variable has its type.
TypeOK ==
    /\ activeTasks \in Nat
    /\ queue \in Seq(Call)
    /\ pendingByTaskId \in [Task -> Call \cup {NoCall}]
    /\ running \in SUBSET Call
    /\ promise \in [Call -> Promises]
    /\ finished \in [Call -> BOOLEAN]
    /\ draining \in BOOLEAN
    /\ gauges \in [active : Nat, queued : Nat]

Apart(q) == \A i, j \in 1..Len(q) : q[i] = q[j] => i = j

\* No entry is in the queue twice or both queued and running, and only calls
\* that arrived are in either.
EntriesApart ==
    /\ Apart(queue)
    /\ \A i \in 1..Len(queue) : queue[i] \notin running /\ promise[queue[i]] # "none"
    /\ \A c \in running : promise[c] # "none"

\* The counter activeTasks is exactly the number of delegate runs under way
\* (no slot leaks on any path, and the clamp Math.max(0, n - 1) never hides a
\* double release), and it never exceeds the configured concurrency.
ConcurrencyCap == activeTasks = Cardinality(running) /\ activeTasks <= Cap

\* The queue never outgrows maxQueuedTasks.
QueueBound == Len(queue) <= QueueCap

\* No slot idles while an entry waits: between handlers the queue is
\* non-empty only if every slot is taken.
WorkConservation == ~draining /\ queue # <<>> => activeTasks = Cap

InQueue(c) == \E i \in 1..Len(queue) : queue[i] = c

\* Between handlers the executor's books agree with its entries: the map has
\* one exactly for each call that is queued or running, neither leaking a task
\* nor forgetting a live one, and the gauges telemetry exposes are current.
PendingExact == \A c \in Call :
    (pendingByTaskId[TaskOf[c]] = c) <=> (promise[c] = "pending")
GaugesCurrent == ~draining => /\ gauges.active = activeTasks
                              /\ gauges.queued = Len(queue)
BookkeepingExact == PendingExact /\ GaugesCurrent

\* a waits ahead of b: b came to the queue after a or has yet to come.
AheadOf(a, b) ==
    \/ InQueue(a) /\ promise[b] = "none"
    \/ \E i, j \in 1..Len(queue) : i < j /\ queue[i] = a /\ queue[j] = b

\* Calls start in arrival order: as long as a waits, no call that came after
\* it starts, and none moves ahead of it in the queue.
ArrivalOrder ==
    [][\A a, b \in Call : AheadOf(a, b) /\ InQueue(a)' =>
          /\ b \notin running' \ running
          /\ InQueue(b)' => AheadOf(a, b)']_vars

\* Every execute() eventually settles its promise.
EveryCallSettles == \A c \in Call : promise[c] = "pending" ~> Settled(c)
=============================================================================
