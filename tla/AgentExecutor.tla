--------------------------- MODULE AgentExecutor ---------------------------
(***************************************************************************)
(* OpenClawAgentExecutor (src/src/executor.ts) with the per-context        *)
(* dispatch chains of enqueueDispatch (src/src/dispatch-queue.ts): what    *)
(* happens to a call between execute() and the settling of its promise,    *)
(* while heartbeats fire and cancelTask() comes in.                        *)
(*                                                                         *)
(* The call to the gateway is one step here, DispatchSettles; the          *)
(* connection pool under it is WsPool's subject.                           *)
(***************************************************************************)
EXTENDS Integers, Sequences, FiniteSets, SequencesExt

CONSTANTS
    Call, Task, TaskOf,   \* invocations of execute() and their task ids
    Context, ContextOf,   \* requestContext.contextId of each invocation
    CacheLimit,           \* TASK_CONTEXT_CACHE_LIMIT
    Cancels,              \* the tasks that clients may cancel
    TaskStateBound,       \* does TaskState name a value at run time?
    NoCall                \* no predecessor, or no tail, in a dispatch chain

VARIABLES
    phase,   \* how far execute(c) has come
    prev,    \* for each call in a dispatch chain, the link it waits for
    tail,    \* dispatchQueues: the last link of each context's chain
    cleaned, \* the calls whose cleanup callback has run
    cache,   \* the keys of taskContextByTaskId, oldest first
    state    \* the status last published on the bus of each task

vars == <<phase, prev, tail, cleaned, cache, state>>

Terminal == {"completed", "failed", "canceled", "rejected"}

\* "waiting": in its chain; "dispatching": fn runs; "waking": the dispatch
\* failed and /hooks/wake is being tried; the last two: execute() has settled.
Phases == {"none", "waiting", "dispatching", "waking", "resolved", "rejected"}

Init ==
    /\ phase = [c \in Call |-> "none"]
    /\ prev = <<>>
    /\ tail = [x \in Context |-> NoCall]
    /\ cleaned = {}
    /\ cache = <<>>
    /\ state = [t \in Task |-> "none"]

-----------------------------------------------------------------------------

Cached(t) == \E i \in 1..Len(cache) : cache[i] = t

\* Mutant: the limit is checked with >=.
Remember_OffByOne(t) ==
    LET kept == Append(RemoveFirst(cache, t), t) IN
    cache' = IF Len(kept) >= CacheLimit THEN Tail(kept) ELSE kept

\* rememberTaskContext(t): t becomes the youngest key; past the limit the
\* oldest key goes, whether or not its task is still running.
Remember(t) ==
    LET kept == Append(RemoveFirst(cache, t), t) IN
    cache' = IF Len(kept) > CacheLimit THEN Tail(kept) ELSE kept

Publish(t, s) == state' = [state EXCEPT ![t] = s]

\* Mutant: the map keeps the link that was there first.
EnqueueDispatch_KeepsTail(c, x) ==
    /\ prev' = [d \in DOMAIN prev \cup {c} |-> IF d = c THEN tail[x] ELSE prev[d]]
    /\ tail' = IF tail[x] = NoCall THEN [tail EXCEPT ![x] = c] ELSE tail

\* enqueueDispatch(dispatchQueues, x, fn): chain behind the tail of x.
EnqueueDispatch(c, x) ==
    /\ prev' = [d \in DOMAIN prev \cup {c} |-> IF d = c THEN tail[x] ELSE prev[d]]
    /\ tail' = [tail EXCEPT ![x] = c]

\* Mutant: previous.then(...) without the catch; fn runs after a success only.
LinkSettled_NoCatch(c) ==
    c # NoCall => phase[c] = "resolved" /\ state[TaskOf[c]] = "completed"

LinkSettled(c) == c # NoCall => phase[c] \in {"waking", "resolved", "rejected"}

DropTail_Never(c) == UNCHANGED tail

DropTail(c) ==
    tail' = IF tail[ContextOf[c]] = c
            THEN [tail EXCEPT ![ContextOf[c]] = NoCall] ELSE tail

\* Mutant: clearInterval is missing on the failure path.
HeartbeatOn_WhileWaking(c) ==
    phase[c] \in {"waiting", "dispatching", "waking"} \/ state[TaskOf[c]] = "failed"

\* The interval is set before the dispatch and cleared when it settles.
HeartbeatOn(c) == phase[c] \in {"waiting", "dispatching"}

CleanUpDue(c) == c \in DOMAIN prev \ cleaned /\ LinkSettled(c)

-----------------------------------------------------------------------------

\* execute(c) up to its first await.  Without TaskState it throws at the first
\* event it builds; a bad file part fails the task without dispatching it.
Execute(c) ==
    /\ phase[c] = "none"
    /\ Remember(TaskOf[c])
    /\ UNCHANGED cleaned
    /\ \/ /\ ~TaskStateBound
          /\ phase' = [phase EXCEPT ![c] = "rejected"]
          /\ UNCHANGED <<prev, tail, state>>
       \/ /\ TaskStateBound
          /\ phase' = [phase EXCEPT ![c] = "resolved"]
          /\ Publish(TaskOf[c], "failed")
          /\ UNCHANGED <<prev, tail>>
       \/ /\ TaskStateBound
          /\ phase' = [phase EXCEPT ![c] = "waiting"]
          /\ Publish(TaskOf[c], "working")
          /\ EnqueueDispatch(c, ContextOf[c])

\* The predecessor, if there was one, has settled either way: fn is called.
DispatchStarts(c) ==
    /\ phase[c] = "waiting"
    /\ LinkSettled(prev[c])
    /\ phase' = [phase EXCEPT ![c] = "dispatching"]
    /\ UNCHANGED <<prev, tail, cleaned, cache, state>>

\* fn settles, and execute() resumes in the same run of microtasks: a success
\* ends it, a failure goes on to the wake-up call.
DispatchSettles(c) ==
    /\ phase[c] = "dispatching"
    /\ UNCHANGED <<prev, tail, cleaned, cache>>
    /\ \/ /\ phase' = [phase EXCEPT ![c] = "resolved"]
          /\ Publish(TaskOf[c], "completed")
       \/ /\ phase' = [phase EXCEPT ![c] = "waking"]
          /\ UNCHANGED state

\* tryHooksWakeFallback has returned (answered, failed or timed out, or no
\* hooks token and hence no call at all).
FallbackEnds(c) ==
    /\ phase[c] = "waking"
    /\ phase' = [phase EXCEPT ![c] = "resolved"]
    /\ Publish(TaskOf[c], "failed")
    /\ UNCHANGED <<prev, tail, cleaned, cache>>

\* The cleanup callback of the link: drops the map entry unless a later call
\* has chained behind it.
CleanUp(c) ==
    /\ CleanUpDue(c)
    /\ cleaned' = cleaned \cup {c}
    /\ DropTail(c)
    /\ UNCHANGED <<phase, prev, cache, state>>

\* One tick of the interval.
Heartbeat(c) ==
    /\ HeartbeatOn(c)
    /\ Publish(TaskOf[c], "working")
    /\ UNCHANGED <<phase, prev, tail, cleaned, cache>>

\* cancelTask(t).  Nothing tells the dispatch or the heartbeat; with t unknown
\* (never executed, evicted, already canceled) only finished() is called.  The
\* SDK's handler refuses to cancel a task in a terminal state.
CancelTask(t) ==
    /\ t \in Cancels /\ state[t] \notin Terminal
    /\ Cached(t) /\ TaskStateBound
    /\ Publish(t, "canceled")
    /\ cache' = RemoveFirst(cache, t)
    /\ UNCHANGED <<phase, prev, tail, cleaned>>

Progress(c) == DispatchStarts(c) \/ DispatchSettles(c) \/ FallbackEnds(c) \/ CleanUp(c)

Next ==
    \/ \E c \in Call : Execute(c) \/ Progress(c) \/ Heartbeat(c)
    \/ \E t \in Task : CancelTask(t)

Spec == Init /\ [][Next]_vars

-----------------------------------------------------------------------------
(* Properties.                                                             *)

TypeOK ==
    /\ phase \in [Call -> Phases]
    /\ DOMAIN prev \subseteq Call /\ prev \in [DOMAIN prev -> Call \cup {NoCall}]
    /\ tail \in [Context -> Call \cup {NoCall}]
    /\ cleaned \subseteq DOMAIN prev
    /\ cache \in Seq(Task)
    /\ state \in [Task -> Terminal \cup {"none", "submitted", "working"}]

\* The chains are dropped with their last call: once no call of a context is
\* under way and the cleanup callbacks have run, the map has no entry for it.
NoChainLeak == \A x \in Context :
    tail[x] # NoCall => tail[x] \notin cleaned /\ ContextOf[tail[x]] = x

\* The context of every task under way that nobody canceled is known, so that
\* cancelTask can publish CANCELED for it, unless more tasks than the cache
\* holds have come by.
CancelReachesLiveTask == \A c \in Call :
    /\ phase[c] \in {"waiting", "dispatching", "waking"}
    /\ TaskOf[c] \notin Cancels
    /\ Cardinality({t \in Task : state[t] # "none"}) <= CacheLimit
    => Cached(TaskOf[c])

\* A terminal status is the last thing published for any task.
TerminalIsFinal ==
    [][\A t \in Task : state[t] \in Terminal => state'[t] = state[t]]_vars

\* The unsettled links from the head of c's chain up to c.
UpTo[c \in DOMAIN prev] ==
    IF LinkSettled(prev[c]) THEN <<c>> ELSE Append(UpTo[prev[c]], c)

\* The calls of a context that wait or dispatch, in the order of their chain.
Line(x) == IF LinkSettled(tail[x]) THEN <<>> ELSE UpTo[tail[x]]

\* The dispatch chains implement one first-come-first-served line per context.
Lines == INSTANCE SerialDispatch WITH
             line <- [x \in Context |-> Line(x)],
             busy <- {x \in Context : \E c \in Call :
                         ContextOf[c] = x /\ phase[c] = "dispatching"}
FifoPerContext == Lines!Spec
=============================================================================
