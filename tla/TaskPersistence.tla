-------------------------- MODULE TaskPersistence --------------------------
(***************************************************************************)
(* The task files across runs of the gateway: FileTaskStore                *)
(* (src/src/task-store.ts), the start-up scan recoverStaleTasks            *)
(* (src/src/task-recovery.ts) and the TTL scan runTaskCleanup              *)
(* (src/src/task-cleanup.ts), with the SDK saving the tasks of this run    *)
(* and the process dying at any point.                                     *)
(*                                                                         *)
(* A save is two steps, so that others come in between: the temporary file *)
(* is written (a record in `saves`), and it is renamed over the target.    *)
(* The temporary file itself is not kept: nothing ever reads it again.     *)
(*                                                                         *)
(* The servers listen before recovery scans the store, so that tasks of    *)
(* this run begin, and are saved, before and during the scan.              *)
(***************************************************************************)
EXTENDS Integers, FiniteSets

CONSTANTS
    Task,
    MaxRuns,             \* bound: how often the process starts
    RenameMayFail,       \* can rename keep failing with EPERM or EACCES?
    NoTask               \* no task is about to be deleted

ASSUME PersistenceAssumption ==
    /\ IsFiniteSet(Task) /\ MaxRuns \in Nat /\ NoTask \notin Task
    /\ RenameMayFail \in BOOLEAN

VARIABLES
    run,     \* how often the process has started
    up,      \* what start() has reached
    file,    \* the state in the file of each task
    old,     \* the tasks whose status.timestamp is past the TTL
    saves,   \* the calls of store.save() under way
    live,    \* the tasks of this run: idle, running in the executor, or done
    todo,    \* the ids recoverStaleTasks has yet to look at
    doomed,  \* the task runTaskCleanup has loaded and is about to delete
    early    \* history: tasks of this run that began before recovery listed the store

vars == <<run, up, file, old, saves, live, todo, doomed, early>>

\* The enum members in TERMINAL_STATES; "failed" is also what recovery writes.
Terminal == {"completed", "failed"}

\* What a file can hold.  "turned away" is the string "rejected" that
\* QueueingAgentExecutor publishes, which is no member of TaskState; "torn" is
\* a file that does not parse.
Contents == Terminal \cup {"absent", "working", "turned away", "torn"}

Init ==
    /\ run = 0 /\ up = "down"
    /\ file = [t \in Task |-> "absent"] /\ old = {}
    /\ saves = {}
    /\ live = [t \in Task |-> "idle"]
    /\ todo = {} /\ doomed = NoTask /\ early = {}

-----------------------------------------------------------------------------
(* FileTaskStore.                                                          *)

Save(t, by, s) == saves' = saves \cup {[task |-> t, by |-> by, state |-> s, overwriting |-> FALSE]}

Saving(t, by) == \E s \in saves : s.task = t /\ s.by = by

\* The rename succeeds, at once or on a retry.
RenameSucceeds(s) ==
    /\ ~s.overwriting
    /\ file' = [file EXCEPT ![s.task] = s.state]
    /\ old' = old \ {s.task}
    /\ saves' = saves \ {s}

\* All retries failed: the target is truncated to be written in place.
OverwriteBegins(s) ==
    /\ RenameMayFail /\ ~s.overwriting
    /\ file' = [file EXCEPT ![s.task] = "torn"]
    /\ saves' = (saves \ {s}) \cup {[s EXCEPT !.overwriting = TRUE]}
    /\ UNCHANGED old

\* If something else was put in place meanwhile, that may stay, or be mixed up.
OverwriteEnds(s) ==
    /\ s.overwriting
    /\ \E c \in {s.state} \cup (IF file[s.task] = "torn" THEN {} ELSE {file[s.task], "torn"}) :
          file' = [file EXCEPT ![s.task] = c]
    /\ old' = old \ {s.task}
    /\ saves' = saves \ {s}

\* Saves of one task in the same millisecond have one temporary file, written by
\* both: the first to rename it takes all, the other finds nothing and throws.
SharedTemp(s) ==
    /\ ~s.overwriting
    /\ \E u \in saves \ {s} :
         /\ u.task = s.task /\ ~u.overwriting
         /\ \E c \in {u.state, "torn"} : file' = [file EXCEPT ![s.task] = c]
         /\ saves' = saves \ {s, u}
    /\ old' = old \ {s.task}

SaveStep(s) ==
    /\ s \in saves
    /\ RenameSucceeds(s) \/ OverwriteBegins(s) \/ OverwriteEnds(s) \/ SharedTemp(s)
    /\ UNCHANGED <<run, up, live, todo, doomed, early>>

-----------------------------------------------------------------------------
(* start(): the servers listen first, then recovery scans the store.       *)

Start ==
    /\ up = "down" /\ run < MaxRuns
    /\ run' = run + 1 /\ up' = "listening"
    /\ UNCHANGED <<file, old, saves, live, todo, doomed, early>>

ListTasks ==
    /\ up = "listening"
    /\ up' = "recovering"
    /\ todo' = {t \in Task : file[t] # "absent"}
    /\ UNCHANGED <<run, file, old, saves, live, doomed, early>>

\* Mutants: every task that can be read counts as stale (no terminal check),
\* or none does (states compared with strings that never match).
Stale_AllRead(t) == file[t] \notin {"absent", "torn"}
Stale_Never(t)   == FALSE

\* One id of the scan: a missing, terminal or unreadable task is passed over.
Stale(t) == file[t] \notin Terminal \cup {"absent", "torn"}

\* Mutant: the scan goes by what is in the store by now, not by the ids listed.
Listed_Anew(t) == file[t] # "absent"

Listed(t) == t \in todo

RecoverTask(t) ==
    /\ up = "recovering" /\ Listed(t)
    /\ \A u \in Task : ~Saving(u, "recovery")
    /\ todo' = todo \ {t}
    /\ IF Stale(t) THEN Save(t, "recovery", "failed") ELSE UNCHANGED saves
    /\ UNCHANGED <<run, up, file, old, live, doomed, early>>

ScanOver ==
    /\ up = "recovering" /\ todo = {}
    /\ \A t \in Task : ~Saving(t, "recovery")

RecoveryEnds ==
    /\ ScanOver
    /\ up' = "serving"
    /\ UNCHANGED <<run, file, old, saves, live, todo, doomed, early>>

-----------------------------------------------------------------------------
(* The tasks of this run; the SDK saves the statuses of a task in order.   *)

\* Both servers answer from the time on that they listen.
TakesRequests == up # "down"

TaskBegins(t) ==
    /\ TakesRequests
    /\ live[t] = "idle" /\ file[t] = "absent"
    /\ \/ Save(t, "sdk", "working") /\ live' = [live EXCEPT ![t] = "running"]
       \/ Save(t, "sdk", "turned away") /\ live' = [live EXCEPT ![t] = "done"]
    /\ early' = IF up = "listening" THEN early \cup {t} ELSE early
    /\ UNCHANGED <<run, up, file, old, todo, doomed>>

TaskEnds(t) ==
    /\ live[t] = "running" /\ ~Saving(t, "sdk")
    /\ live' = [live EXCEPT ![t] = "done"]
    /\ Save(t, "sdk", "completed")
    /\ UNCHANGED <<run, up, file, old, todo, doomed, early>>

-----------------------------------------------------------------------------
(* Time, the TTL scan, and death.                                          *)

GrowsOld(t) ==
    /\ file[t] # "absent" /\ t \notin old
    /\ old' = old \cup {t}
    /\ UNCHANGED <<run, up, file, saves, live, todo, doomed, early>>

Expired(t) == file[t] \in Terminal /\ t \in old

\* The scan has loaded t and found that it may go.
CleanupLoads(t) ==
    /\ up = "serving" /\ doomed = NoTask
    /\ Expired(t)
    /\ doomed' = t
    /\ UNCHANGED <<run, up, file, old, saves, live, todo, early>>

CleanupDeletes ==
    /\ doomed # NoTask
    /\ file' = [file EXCEPT ![doomed] = "absent"]
    /\ old' = old \ {doomed}
    /\ doomed' = NoTask
    /\ UNCHANGED <<run, up, saves, live, todo, early>>

Crash ==
    /\ up # "down" /\ run < MaxRuns
    /\ up' = "down"
    /\ saves' = {} /\ todo' = {} /\ doomed' = NoTask /\ early' = {}
    /\ live' = [t \in Task |-> "idle"]
    /\ UNCHANGED <<run, file, old>>

StoreSteps == \E s \in saves : SaveStep(s)

Next ==
    \/ StoreSteps \/ Start \/ ListTasks \/ RecoveryEnds \/ CleanupDeletes \/ Crash
    \/ \E t \in Task : \/ RecoverTask(t) \/ TaskBegins(t) \/ TaskEnds(t)
                       \/ GrowsOld(t) \/ CleanupLoads(t)

Spec == Init /\ [][Next]_vars

(***************************************************************************)
(* Promise callbacks run, executors settle (GatewayExecutor!EveryCallEnds),*)
(* time passes, and a process that died is started again.  A rename that   *)
(* may fail is retried five times at most, so the save ends either way.    *)
(***************************************************************************)
Fairness ==
    /\ WF_vars(StoreSteps) /\ WF_vars(Start) /\ WF_vars(ListTasks)
    /\ WF_vars(RecoveryEnds) /\ WF_vars(CleanupDeletes)
    /\ \A t \in Task : /\ WF_vars(RecoverTask(t)) /\ WF_vars(TaskEnds(t))
                       /\ WF_vars(GrowsOld(t)) /\ WF_vars(CleanupLoads(t))

FairSpec == Spec /\ Fairness

-----------------------------------------------------------------------------
(* Properties.                                                             *)

TypeOK ==
    /\ run \in 0..MaxRuns
    /\ up \in {"down", "listening", "recovering", "serving"}
    /\ file \in [Task -> Contents]
    /\ old \subseteq {t \in Task : file[t] # "absent"}
    /\ saves \subseteq [task : Task, by : {"sdk", "recovery"},
                        state : Terminal \cup {"working", "turned away"},
                        overwriting : BOOLEAN]
    /\ live \in [Task -> {"idle", "running", "done"}]
    /\ todo \subseteq Task
    /\ doomed \in Task \cup {NoTask}
    /\ early \subseteq Task

\* The scan (index.ts:1119) is meant for tasks "from a previous run", but requests
\* are served by then.  Those that it fails although they are of this run began
\* before it listed the store: one that begins during the scan is spared, since it
\* goes by the list.
RecoverySparesLater == \A s \in saves :
    s.by = "recovery" => live[s.task] = "idle" \/ s.task \in early

\* The outcome in a task's file is final, but for these: of every other task,
\* neither recovery nor a late save replaces it by another status, whenever the
\* process dies.  It can only be deleted.
OutcomeKept ==
    [][\A t \in Task \ early :
         file[t] \in Terminal => file'[t] \in {file[t], "absent"}]_vars

\* Every task that was saved as under way gets an outcome in the end, whatever
\* crashes come between, unless one of them leaves its file torn: recovery
\* cannot read it and passes it over.
EveryTaskGetsOutcome == \A t \in Task : file[t] = "working" ~>
    \/ file[t] \in Terminal
    \/ file[t] = "torn" /\ \A s \in saves : s.task # t
=============================================================================
