-------------------------- MODULE GatewayExecutor --------------------------
(***************************************************************************)
(* The executor the plugin hands to the SDK (src/index.ts): a              *)
(* QueueingAgentExecutor around an OpenClawAgentExecutor.  The two modules *)
(* are composed by joint actions: the entries the queue starts are the     *)
(* calls the agent executor executes, and a run finishes when its execute  *)
(* has settled.  `state` is shared: both publish on the bus of a task.     *)
(***************************************************************************)
EXTENDS Integers, Sequences, FiniteSets

CONSTANTS
    Call, Task, TaskOf, Context, ContextOf, NoCall,
    MaxConcurrentTasks, MaxQueuedTasks, CacheLimit, Cancels, TaskStateBound

ASSUME ExecutorAssumption ==
    /\ IsFiniteSet(Call)
    /\ TaskOf \in [Call -> Task] /\ ContextOf \in [Call -> Context]
    /\ MaxConcurrentTasks \in Int /\ MaxQueuedTasks \in Int
    /\ CacheLimit \in Nat \ {0} /\ TaskStateBound \in BOOLEAN
    /\ NoCall \notin Call /\ Cancels \subseteq Task

VARIABLES
    activeTasks, queue, pendingByTaskId, running, promise, finished, draining, gauges,
    phase, prev, tail, cleaned, cache, state

Q == INSTANCE QueueingExecutor
A == INSTANCE AgentExecutor

queueVars == <<activeTasks, queue, pendingByTaskId, running, promise, finished,
               draining, gauges>>
agentVars == <<phase, prev, tail, cleaned, cache, state>>
vars      == <<queueVars, agentVars>>

\* The agent executor does nothing but publish the status s of task t.
OnlyPublish(t, s) ==
    A!Publish(t, s) /\ UNCHANGED <<phase, prev, tail, cleaned, cache>>

Init == Q!Init /\ A!Init

-----------------------------------------------------------------------------

ExecuteNow(c) == Q!ExecuteNow(c) /\ A!Execute(c)

ExecuteRejected(c) ==
    Q!ExecuteRejected(c) /\ OnlyPublish(TaskOf[c], "rejected")

ExecuteQueued(c) ==
    /\ Q!ExecuteQueued(c)
    /\ IF TaskStateBound THEN OnlyPublish(TaskOf[c], "submitted")
                         ELSE UNCHANGED agentVars

DrainQueue     == Q!DrainQueue /\ A!Execute(Head(queue))
DrainQueueEnds == Q!DrainQueueEnds /\ UNCHANGED agentVars

\* delegate.execute(c) has settled: the rest of runEntry runs.
FinishRun(c) ==
    /\ phase[c] \in {"resolved", "rejected"}
    /\ Q!FinishRun(c, phase[c])
    /\ UNCHANGED agentVars

\* cancelTask(t): taken out of the queue, or passed on to the agent executor.
CancelQueued(t) ==
    /\ t \in Cancels /\ Q!CancelQueued(t)
    /\ IF TaskStateBound THEN OnlyPublish(t, "canceled") ELSE UNCHANGED agentVars

CancelRunning(t) ==
    /\ ~draining /\ Q!FirstOf(queue, t) = {}
    /\ A!CancelTask(t)
    /\ UNCHANGED queueVars

Agent(c) == ~draining /\ A!Progress(c) /\ UNCHANGED queueVars

Heartbeat(c) == ~draining /\ A!Heartbeat(c) /\ UNCHANGED queueVars

Next ==
    \/ \E c \in Call : \/ ExecuteNow(c) \/ ExecuteRejected(c) \/ ExecuteQueued(c)
                       \/ FinishRun(c) \/ Agent(c) \/ Heartbeat(c)
    \/ \E t \in Task : CancelQueued(t) \/ CancelRunning(t)
    \/ DrainQueue \/ DrainQueueEnds

Spec == Init /\ [][Next]_vars

(***************************************************************************)
(* Promise callbacks run; every wait of a dispatch and of the wake-up call *)
(* has a timer (agentResponseTimeoutMs, GATEWAY_CONNECT_TIMEOUT_MS,        *)
(* GATEWAY_REQUEST_TIMEOUT_MS, HOOKS_WAKE_TIMEOUT_MS).  That a delegate    *)
(* run ends, which QueueingExecutor assumes, follows from its own steps.   *)
(***************************************************************************)
Fairness ==
    /\ WF_vars(DrainQueue \/ DrainQueueEnds)
    /\ \A c \in Call : WF_vars(Agent(c)) /\ WF_vars(FinishRun(c))

FairSpec == Spec /\ Fairness

-----------------------------------------------------------------------------
(* Properties.                                                             *)

\* The two executors agree on which calls are under way: the queue counts a
\* slot as taken exactly while execute() of its call has not been settled.
SlotsMatchRuns == \A c \in Call :
    c \in running <=> phase[c] # "none" /\ promise[c] = "pending"

\* The dispatch chains under the admission queue: no entry of the map outlives
\* the calls of its context.
NoChainLeak == A!NoChainLeak

\* The tasks under way stay cancelable, whichever slot or place they came from.
CancelReachesLiveTask == A!CancelReachesLiveTask

\* Whatever order the queue starts calls in, those of a context are dispatched
\* one at a time, in that order.
FifoPerContext == A!FifoPerContext

\* A task that was canceled while it waited in the queue stays canceled: its
\* entry is never started, and nothing is published for it again.
CanceledInQueueStays ==
    [][\A c \in Call : state[TaskOf[c]] = "canceled" /\ phase[c] = "none"
          => phase'[c] = "none" /\ state'[TaskOf[c]] = "canceled"]_vars

\* The statuses published for a task that nobody cancels follow the lifecycle.
Life == INSTANCE TaskLifecycle WITH
            Task <- Task \ Cancels,
            state <- [t \in Task \ Cancels |-> state[t]]
FollowsLifecycle == Life!Spec

\* Every call the executor accepts ends, and then a terminal status was published
\* for its task: turned away, canceled in the queue, a bad file, an answer, a
\* failed dispatch, canceled while running.  Calls come once and a settled
\* promise stays so, hence it is enough that again and again none is open.
Ended(c) == promise[c] \in {"resolved", "rejected"} /\ state[TaskOf[c]] \in A!Terminal
EveryCallEnds == []<>(\A c \in Call : promise[c] = "none" \/ Ended(c))
=============================================================================
