----------------------- MODULE TaskPersistence_proofs -----------------------
(***************************************************************************)
(* Proofs about TaskPersistence, for every finite set of tasks, every      *)
(* number of runs of the process, whether or not renames may fail.         *)
(*                                                                         *)
(* The code lets a request in before recovery has ended.  What recovery    *)
(* and the outcomes promise holds of every task that did not begin before  *)
(* the store was listed: the list has it only if an earlier run left it    *)
(* behind, so that the two that save never work on it at the same time; it *)
(* has one save under way at most, and none once its file has an outcome.  *)
(***************************************************************************)
EXTENDS TaskPersistence, TLAPS

\* The scan: what is still to be looked at was in the store when it was listed,
\* nothing is deleted meanwhile, and before it only early tasks are live.
ScanKnown ==
    /\ \A t \in todo : /\ up = "recovering" /\ file[t] # "absent"
                       /\ t \notin early => live[t] = "idle"
    /\ doomed # NoTask => up = "serving"
    /\ up \in {"down", "listening"} => \A t \in Task : live[t] # "idle" => t \in early

\* Who saves, and when.
SaversKnown == \A s \in saves :
    /\ s.by = "recovery" =>
          /\ up = "recovering" /\ file[s.task] # "absent"
          /\ s.task \notin early => live[s.task] = "idle"
    /\ s.by = "sdk" => live[s.task] # "idle"
    /\ live[s.task] = "running" /\ s.task \notin early => s.state \notin Terminal

\* Nothing is saved over another save, or over an outcome.
OneSave == \A s, u \in saves : s.task = u.task => s = u \/ s.task \in early

OutcomesLeftAlone == \A s \in saves : file[s.task] \in Terminal => s.task \in early

\* A task that still runs has no outcome.
RunningHasNone == \A t \in Task \ early : live[t] = "running" => file[t] \notin Terminal

\* The part of the invariant beyond the types.
Orderly == ScanKnown /\ SaversKnown /\ OneSave /\ OutcomesLeftAlone /\ RunningHasNone

IInv == TypeOK /\ Orderly

-----------------------------------------------------------------------------
(* Types.                                                                  *)

\* What a save under way is.
SaveRecord == [task : Task, by : {"sdk", "recovery"},
               state : Terminal \cup {"working", "turned away"}, overwriting : BOOLEAN]

\* A new save has the fields the store works with.
LEMMA SaveType ==
    ASSUME saves \subseteq SaveRecord, NEW t \in Task, NEW by \in {"sdk", "recovery"},
           NEW s \in Terminal \cup {"working", "turned away"}, Save(t, by, s)
    PROVE  saves' \subseteq SaveRecord
<1>1. [task |-> t, by |-> by, state |-> s, overwriting |-> FALSE] \in SaveRecord
  BY DEF SaveRecord
<1> QED  BY <1>1 DEF Save

\* A step of a save, as the files see it: what the file of its task holds from
\* then on, an outcome only if it is that of the save, was there before, or is that
\* of another save of the task; and the save ends, or leaves the file torn.
LEMMA SaveStepFacts ==
    ASSUME TypeOK, NEW s \in saves, SaveStep(s)
    PROVE  /\ s.task \in Task /\ UNCHANGED <<run, up, live, todo, doomed, early>>
           /\ old' \subseteq old
           /\ \E c \in Contents :
                /\ file' = [file EXCEPT ![s.task] = c]
                /\ file[s.task] # "absent" => c # "absent"
                /\ c \in Terminal => \/ c = s.state \/ c = file[s.task]
                                     \/ \E u \in saves \ {s} : u.task = s.task
                /\ \/ saves' \subseteq saves \ {s}
                   \/ /\ c = "torn"
                      /\ saves' = (saves \ {s}) \cup {[s EXCEPT !.overwriting = TRUE]}
<1> USE DEF TypeOK, Contents, Terminal
<1>1. s.task \in Task /\ UNCHANGED <<run, up, live, todo, doomed, early>>
  BY DEF SaveStep
<1>2. s.state \in Contents \ {"absent"} /\ file[s.task] \in Contents
  BY <1>1
<1>3. CASE RenameSucceeds(s)
  BY <1>1, <1>2, <1>3 DEF RenameSucceeds
<1>4. CASE OverwriteBegins(s)
  BY <1>1, <1>4 DEF OverwriteBegins
<1>5. CASE OverwriteEnds(s)
  <2>1. PICK c \in {s.state, file[s.task], "torn"} : file' = [file EXCEPT ![s.task] = c]
    BY <1>5 DEF OverwriteEnds
  <2>2. c \in Contents
    BY <1>2, <2>1
  <2>3. file[s.task] # "absent" => c # "absent"
    BY <1>2, <2>1
  <2>4. saves' = saves \ {s} /\ old' \subseteq old
    BY <1>5 DEF OverwriteEnds
  <2> QED  BY <1>1, <2>1, <2>2, <2>3, <2>4
<1>6. CASE SharedTemp(s)
  <2>1. PICK u \in saves \ {s} :
          /\ u.task = s.task
          /\ \E c \in {u.state, "torn"} : file' = [file EXCEPT ![s.task] = c]
          /\ saves' = saves \ {s, u}
    BY <1>6 DEF SharedTemp
  <2>2. u.state \in Contents \ {"absent"}
    OBVIOUS
  <2>3. PICK c \in Contents \ {"absent"} : file' = [file EXCEPT ![s.task] = c]
    BY <2>1, <2>2
  <2>4. old' \subseteq old
    BY <1>6 DEF SharedTemp
  <2> QED  BY <1>1, <2>1, <2>3, <2>4
<1> QED  BY <1>3, <1>4, <1>5, <1>6 DEF SaveStep

\* A save that goes on keeps its fields.
LEMMA SaveStepType ==
    ASSUME TypeOK, NEW s \in saves, SaveStep(s)
    PROVE  saves' \subseteq SaveRecord
<1>1. saves \subseteq SaveRecord
  BY DEF TypeOK, SaveRecord
<1>2. [s EXCEPT !.overwriting = TRUE] \in SaveRecord
  BY <1>1 DEF SaveRecord
<1>3. saves' \subseteq saves \cup {[s EXCEPT !.overwriting = TRUE]}
  BY SaveStepFacts
<1> QED  BY <1>1, <1>2, <1>3

\* Another start is within the bound.
LEMMA OneMoreRun == \A n \in 0..MaxRuns : n < MaxRuns => n + 1 \in 0..MaxRuns
  BY PersistenceAssumption

\* Every step keeps the types.
LEMMA TypeStep == TypeOK /\ [Next]_vars => TypeOK'
<1> SUFFICES ASSUME TypeOK, [Next]_vars PROVE TypeOK'
  OBVIOUS
<1> USE DEF TypeOK, Contents, Terminal
<1>1. ASSUME NEW s \in saves, SaveStep(s) PROVE TypeOK'
  <2>1. saves' \subseteq SaveRecord
    BY <1>1, SaveStepType
  <2>2. PICK c \in Contents : /\ file' = [file EXCEPT ![s.task] = c]
                              /\ file[s.task] # "absent" => c # "absent"
    BY <1>1, SaveStepFacts
  <2>3. s.task \in Task /\ old' \subseteq old /\ UNCHANGED <<run, up, live, todo, doomed, early>>
    BY <1>1, SaveStepFacts
  <2>4. file' \in [Task -> Contents]
    BY <2>2, <2>3
  <2>5. \A t \in Task : file[t] # "absent" => file'[t] # "absent"
    BY <2>2, <2>3
  <2>6. old' \subseteq {t \in Task : file'[t] # "absent"}
    BY <2>3, <2>5
  <2> QED  BY <2>1, <2>3, <2>4, <2>6 DEF SaveRecord
<1>2. CASE Start
  <2>1. run' \in 0..MaxRuns
    BY <1>2, OneMoreRun DEF Start
  <2> QED  BY <1>2, <2>1 DEF Start
<1>3. CASE ListTasks
  BY <1>3 DEF ListTasks
<1>4. CASE RecoveryEnds
  BY <1>4 DEF RecoveryEnds
<1>5. CASE CleanupDeletes
  BY <1>5 DEF CleanupDeletes
<1>6. CASE Crash
  BY <1>6 DEF Crash
<1>7. ASSUME NEW t \in Task, RecoverTask(t) PROVE TypeOK'
  <2>1. saves' \subseteq SaveRecord
    BY <1>7, SaveType DEF RecoverTask, SaveRecord
  <2> QED  BY <1>7, <2>1 DEF RecoverTask, SaveRecord
<1>8. ASSUME NEW t \in Task, TaskBegins(t) PROVE TypeOK'
  <2>1. saves' \subseteq SaveRecord
    BY <1>8, SaveType DEF TaskBegins, SaveRecord
  <2> QED  BY <1>8, <2>1 DEF TaskBegins, SaveRecord
<1>9. ASSUME NEW t \in Task, TaskEnds(t) PROVE TypeOK'
  <2>1. saves' \subseteq SaveRecord
    BY <1>9, SaveType DEF TaskEnds, SaveRecord
  <2> QED  BY <1>9, <2>1 DEF TaskEnds, SaveRecord
<1>10. ASSUME NEW t \in Task, GrowsOld(t) \/ CleanupLoads(t) PROVE TypeOK'
  BY <1>10 DEF GrowsOld, CleanupLoads
<1>11. CASE UNCHANGED vars
  BY <1>11 DEF vars
<1> QED  BY <1>1, <1>2, <1>3, <1>4, <1>5, <1>6, <1>7, <1>8, <1>9, <1>10, <1>11
            DEF Next, StoreSteps

-----------------------------------------------------------------------------
(* Saves and outcomes.                                                     *)

\* What is under way for a task that is not early.
Saves == SaversKnown /\ OneSave /\ OutcomesLeftAlone /\ RunningHasNone

\* A step without a new save keeps it, as long as no file gets an outcome, no task
\* changes, and what recovery saves stays where it is.
LEMMA NothingSaved ==
    ASSUME IInv, saves' \subseteq saves, UNCHANGED <<live, early>>,
           \A t \in Task : file'[t] = file[t] \/ file'[t] \notin Terminal,
           \A s \in saves : s.by = "recovery" => up' = up /\ file'[s.task] # "absent"
    PROVE  Saves'
<1> USE DEF IInv, Orderly
<1>1. \A s \in saves : s.task \in Task
  BY DEF TypeOK
<1>2. SaversKnown'
  BY DEF SaversKnown
<1>3. OneSave'
  BY DEF OneSave
<1>4. OutcomesLeftAlone' /\ RunningHasNone'
  BY <1>1 DEF OutcomesLeftAlone, RunningHasNone
<1> QED  BY <1>2, <1>3, <1>4 DEF Saves

\* A new save of a task that is not early is its only one, and writes over no
\* outcome.
LEMMA SomethingSaved ==
    ASSUME IInv, NEW t \in Task, NEW by \in {"sdk", "recovery"},
           NEW state \in Terminal \cup {"working", "turned away"}, Save(t, by, state),
           UNCHANGED <<file, up>>, early' = early \/ early' = early \cup {t},
           \A u \in Task \ {t} : live'[u] = live[u],
           live'[t] = "idle" => live[t] = "idle",
           t \notin early' => file[t] \notin Terminal /\ \A s \in saves : s.task # t,
           by = "recovery" => /\ up = "recovering" /\ file[t] # "absent"
                              /\ t \notin early' => live'[t] = "idle",
           by = "sdk" => live'[t] # "idle",
           live'[t] = "running" /\ t \notin early' => state \notin Terminal
    PROVE  Saves'
<1> DEFINE new == [task |-> t, by |-> by, state |-> state, overwriting |-> FALSE]
<1>1. saves' = saves \cup {new}
  BY DEF Save
<1>2. \A s \in saves : s.task \in Task
  BY DEF IInv, TypeOK
<1>3. new.task = t /\ new.by = by /\ new.state = state
  OBVIOUS
<1> HIDE DEF new
<1> USE DEF IInv, Orderly
<1>4. SaversKnown'
  <2> SUFFICES ASSUME NEW s \in saves'
               PROVE  /\ s.by = "recovery" =>
                           /\ up' = "recovering" /\ file'[s.task] # "absent"
                           /\ s.task \notin early' => live'[s.task] = "idle"
                      /\ s.by = "sdk" => live'[s.task] # "idle"
                      /\ live'[s.task] = "running" /\ s.task \notin early' => s.state \notin Terminal
    BY DEF SaversKnown
  <2>1. CASE s = new
    BY <1>3, <2>1
  <2>2. CASE s \in saves /\ s.task = t
    BY <2>2 DEF SaversKnown
  <2>3. CASE s \in saves /\ s.task # t
    <3>1. live'[s.task] = live[s.task] /\ (s.task \in early' <=> s.task \in early)
      BY <1>2, <2>3
    <3> QED  BY <2>3, <3>1 DEF SaversKnown
  <2> QED  BY <1>1, <2>1, <2>2, <2>3
<1>5. OneSave'
  BY <1>1, <1>2, <1>3 DEF OneSave
<1>6. OutcomesLeftAlone'
  BY <1>1, <1>2, <1>3 DEF OutcomesLeftAlone
<1>7. RunningHasNone'
  BY DEF RunningHasNone
<1> QED  BY <1>4, <1>5, <1>6, <1>7 DEF Saves

\* A step of a save changes the file of its task alone.  If that is not early, no
\* other save is about it, and it gets an outcome only when it runs no more.
LEMMA SaveStepKeeps ==
    ASSUME IInv, NEW s \in saves, SaveStep(s)
    PROVE  Orderly'
<1> DEFINE t == s.task
           over == [s EXCEPT !.overwriting = TRUE]
<1> USE DEF IInv, Orderly
<1>1. t \in Task /\ UNCHANGED <<up, live, todo, doomed, early>>
  BY SaveStepFacts
<1>2. PICK c \in Contents :
        /\ file' = [file EXCEPT ![t] = c]
        /\ file[t] # "absent" => c # "absent"
        /\ c \in Terminal => \/ c = s.state \/ c = file[t]
                             \/ \E u \in saves \ {s} : u.task = t
        /\ \/ saves' \subseteq saves \ {s}
           \/ c = "torn" /\ saves' = (saves \ {s}) \cup {over}
  BY SaveStepFacts
<1>3. over.task = t /\ over.by = s.by /\ over.state = s.state
  BY DEF TypeOK
<1> HIDE DEF over
<1>4. \A u \in saves' : \/ u \in saves \ {s}
                        \/ c = "torn" /\ u.task = t /\ u.by = s.by /\ u.state = s.state
  BY <1>2, <1>3
<1>5. file'[t] = c /\ \A u \in Task \ {t} : file'[u] = file[u]
  BY <1>1, <1>2 DEF TypeOK
<1>6. \A u \in Task : file[u] # "absent" => file'[u] # "absent"
  BY <1>2, <1>5
<1>7. \A u \in saves : u.task \in Task
  BY DEF TypeOK
<1>8. t \notin early => \A u \in saves \ {s} : u.task # t
  BY DEF OneSave
<1>9. t \notin early /\ c \in Terminal => c = s.state /\ live[t] # "running"
  BY <1>2, <1>8 DEF OutcomesLeftAlone, SaversKnown
<1>10. ScanKnown'
  BY <1>1, <1>6 DEF ScanKnown, TypeOK
<1>11. SaversKnown'
  BY <1>1, <1>4, <1>6, <1>7 DEF SaversKnown
<1>12. OneSave'
  <2> SUFFICES ASSUME NEW u \in saves', NEW v \in saves', u.task = v.task, u.task \notin early
               PROVE  u = v
    BY <1>1 DEF OneSave
  <2>1. CASE u.task # t
    BY <1>4, <2>1 DEF OneSave
  <2>2. CASE u.task = t
    <3>1. u \notin saves \ {s} /\ v \notin saves \ {s}
      BY <1>8, <2>2
    <3> QED  BY <1>2, <3>1
  <2> QED  BY <2>1, <2>2
<1>13. OutcomesLeftAlone'
  <2> SUFFICES ASSUME NEW u \in saves', file'[u.task] \in Terminal, u.task \notin early
               PROVE  FALSE
    BY <1>1 DEF OutcomesLeftAlone
  <2>1. CASE u.task = t
    <3>1. c = "torn"
      BY <1>4, <1>8, <2>1
    <3> QED  BY <1>5, <2>1, <3>1 DEF Terminal
  <2>2. CASE u.task # t
    BY <1>4, <1>5, <1>7, <2>2 DEF OutcomesLeftAlone
  <2> QED  BY <2>1, <2>2
<1>14. RunningHasNone'
  BY <1>1, <1>5, <1>9 DEF RunningHasNone
<1> QED  BY <1>10, <1>11, <1>12, <1>13, <1>14

-----------------------------------------------------------------------------
(* The steps.                                                              *)

\* Every step keeps the invariant.
LEMMA NextIInv == IInv /\ [Next]_vars => IInv'
<1> SUFFICES ASSUME IInv, [Next]_vars PROVE Orderly'
  BY TypeStep DEF IInv
<1>1. ASSUME NEW s \in saves, SaveStep(s) PROVE Orderly'
  BY <1>1, SaveStepKeeps
<1>2. CASE Start
  <2>1. ScanKnown'
    BY <1>2 DEF Start, IInv, Orderly, ScanKnown, TypeOK
  <2>2. \A s \in saves : s.by # "recovery"
    BY <1>2 DEF Start, IInv, Orderly, SaversKnown
  <2>3. Saves'
    BY <1>2, <2>2, NothingSaved DEF Start
  <2> QED  BY <2>1, <2>3 DEF Orderly, Saves
<1>3. CASE ListTasks
  <2>1. ScanKnown'
    BY <1>3 DEF ListTasks, IInv, Orderly, ScanKnown, TypeOK
  <2>2. \A s \in saves : s.by # "recovery"
    BY <1>3 DEF ListTasks, IInv, Orderly, SaversKnown
  <2>3. Saves'
    BY <1>3, <2>2, NothingSaved DEF ListTasks
  <2> QED  BY <2>1, <2>3 DEF Orderly, Saves
<1>4. CASE RecoveryEnds
  <2>1. ScanKnown'
    BY <1>4 DEF RecoveryEnds, ScanOver, IInv, Orderly, ScanKnown
  <2>2. \A s \in saves : s.by # "recovery"
    BY <1>4 DEF RecoveryEnds, ScanOver, Saving, IInv, TypeOK
  <2>3. Saves'
    BY <1>4, <2>2, NothingSaved DEF RecoveryEnds
  <2> QED  BY <2>1, <2>3 DEF Orderly, Saves
<1>5. CASE CleanupDeletes
  <2>1. up = "serving" /\ \A s \in saves : s.by # "recovery"
    BY <1>5 DEF CleanupDeletes, IInv, Orderly, ScanKnown, SaversKnown
  <2>2. ScanKnown'
    BY <1>5, <2>1 DEF CleanupDeletes, IInv, Orderly, ScanKnown
  <2>3. \A t \in Task : file'[t] = file[t] \/ file'[t] = "absent"
    BY <1>5 DEF CleanupDeletes, IInv, TypeOK
  <2>4. \A t \in Task : file'[t] = file[t] \/ file'[t] \notin Terminal
    BY <2>3 DEF Terminal
  <2>5. Saves'
    BY <1>5, <2>1, <2>4, NothingSaved DEF CleanupDeletes
  <2> QED  BY <2>2, <2>5 DEF Orderly, Saves
<1>6. CASE Crash
  BY <1>6 DEF Crash, Orderly, ScanKnown, SaversKnown, OneSave, OutcomesLeftAlone, RunningHasNone
<1>7. ASSUME NEW t \in Task, RecoverTask(t) PROVE Orderly'
  <2>1. /\ up = "recovering" /\ t \in todo /\ todo' = todo \ {t}
        /\ UNCHANGED <<file, up, live, doomed, early>>
        /\ file[t] # "absent" /\ (t \notin early => live[t] = "idle")
    BY <1>7 DEF RecoverTask, Listed, IInv, Orderly, ScanKnown
  <2>2. ScanKnown'
    BY <2>1 DEF IInv, Orderly, ScanKnown
  <2>3. \A s \in saves : s.by # "recovery" /\ s.by = "sdk"
    BY <1>7 DEF RecoverTask, Saving, IInv, TypeOK
  <2>4. t \notin early => \A s \in saves : s.task # t
    BY <2>1, <2>3 DEF IInv, Orderly, SaversKnown
  <2>5. CASE Stale(t)
    <3>1. Save(t, "recovery", "failed") /\ file[t] \notin Terminal /\ "failed" \in Terminal
      BY <1>7, <2>5 DEF RecoverTask, Stale, Terminal
    <3>2. Saves'
      BY <2>1, <2>4, <3>1, SomethingSaved
    <3> QED  BY <2>2, <3>2 DEF Orderly, Saves
  <2>6. CASE ~Stale(t)
    <3>1. UNCHANGED saves
      BY <1>7, <2>6 DEF RecoverTask
    <3>2. Saves'
      BY <2>1, <2>3, <3>1, NothingSaved
    <3> QED  BY <2>2, <3>2 DEF Orderly, Saves
  <2> QED  BY <2>5, <2>6
<1>8. ASSUME NEW t \in Task, TaskBegins(t) PROVE Orderly'
  <2>1. /\ up # "down" /\ live[t] = "idle" /\ file[t] = "absent"
        /\ live'[t] \in {"running", "done"} /\ \A u \in Task \ {t} : live'[u] = live[u]
        /\ early' = IF up = "listening" THEN early \cup {t} ELSE early
        /\ UNCHANGED <<up, file, todo, doomed>>
    BY <1>8 DEF TaskBegins, TakesRequests, IInv, TypeOK
  <2>2. ScanKnown'
    BY <2>1 DEF IInv, Orderly, ScanKnown, TypeOK
  <2>3. \A s \in saves : s.task # t
    BY <2>1 DEF IInv, Orderly, SaversKnown, TypeOK
  <2>4. file[t] \notin Terminal /\ "working" \notin Terminal
    BY <2>1 DEF Terminal
  <2>5. early' = early \/ early' = early \cup {t}
    BY <2>1
  <2>6. CASE Save(t, "sdk", "working")
    <3>1. Saves'
      BY <2>1, <2>3, <2>4, <2>5, <2>6, SomethingSaved
    <3> QED  BY <2>2, <3>1 DEF Orderly, Saves
  <2>7. CASE Save(t, "sdk", "turned away") /\ live' = [live EXCEPT ![t] = "done"]
    <3>1. live'[t] = "done"
      BY <2>7 DEF IInv, TypeOK
    <3>2. Saves'
      BY <2>1, <2>3, <2>4, <2>5, <2>7, <3>1, SomethingSaved
    <3> QED  BY <2>2, <3>2 DEF Orderly, Saves
  <2> QED  BY <1>8, <2>6, <2>7 DEF TaskBegins
<1>9. ASSUME NEW t \in Task, TaskEnds(t) PROVE Orderly'
  <2>1. /\ live[t] = "running" /\ live'[t] = "done" /\ UNCHANGED <<file, up, todo, doomed, early>>
        /\ \A u \in Task \ {t} : live'[u] = live[u]
        /\ Save(t, "sdk", "completed") /\ ~Saving(t, "sdk")
    BY <1>9 DEF TaskEnds, IInv, TypeOK
  <2>2. ScanKnown'
    BY <2>1 DEF IInv, Orderly, ScanKnown, TypeOK
  <2>3. t \notin early => file[t] \notin Terminal /\ \A s \in saves : s.task # t
    BY <2>1 DEF Saving, IInv, TypeOK, Orderly, SaversKnown, RunningHasNone
  <2>4. "completed" \in Terminal
    BY DEF Terminal
  <2>5. Saves'
    BY <2>1, <2>3, <2>4, SomethingSaved
  <2> QED  BY <2>2, <2>5 DEF Orderly, Saves
<1>10. ASSUME NEW t \in Task, GrowsOld(t) \/ CleanupLoads(t) PROVE Orderly'
  <2>1. /\ UNCHANGED <<file, up, live, todo, saves, early>>
        /\ doomed' = doomed \/ up = "serving"
    BY <1>10 DEF GrowsOld, CleanupLoads
  <2> QED
    BY <2>1 DEF IInv, Orderly, ScanKnown, SaversKnown, OneSave, OutcomesLeftAlone, RunningHasNone
<1>11. CASE UNCHANGED vars
  BY <1>11 DEF vars, IInv, Orderly, ScanKnown, SaversKnown, OneSave, OutcomesLeftAlone,
               RunningHasNone
<1> QED  BY <1>1, <1>2, <1>3, <1>4, <1>5, <1>6, <1>7, <1>8, <1>9, <1>10, <1>11 DEF Next, StoreSteps

\* There are no saves and no outcomes at first.
LEMMA InitIInv == Init => IInv
<1> SUFFICES ASSUME Init PROVE IInv
  OBVIOUS
<1>1. TypeOK
  BY PersistenceAssumption DEF Init, TypeOK, Contents
<1>2. Orderly
  BY DEF Init, Orderly, ScanKnown, SaversKnown, OneSave, OutcomesLeftAlone, RunningHasNone
<1> QED  BY <1>1, <1>2 DEF IInv

\* The invariant holds throughout.
LEMMA InvariantHolds == Spec => []IInv
  BY InitIInv, NextIInv, PTL DEF Spec

-----------------------------------------------------------------------------
(* Theorems.                                                               *)

\* The variables keep their types: a file holds a status, or is torn, and only a
\* file that is there can be past its TTL.
THEOREM TypeCorrect == Spec => []TypeOK
<1>1. IInv => TypeOK
  BY DEF IInv
<1> QED  BY <1>1, InvariantHolds, PTL

\* Of the tasks of this run recoverStaleTasks fails only those that began before it
\* listed the store, whatever requests come while it scans.
THEOREM LaterOnesSpared == Spec => []RecoverySparesLater
<1>1. IInv => RecoverySparesLater
  BY DEF IInv, Orderly, SaversKnown, RecoverySparesLater
<1> QED  BY <1>1, InvariantHolds, PTL

\* But for these, the outcome in a file is final, across crashes, overwrites and
\* the two scans: what becomes of it is that it is deleted.
THEOREM OutcomesFinal == Spec => OutcomeKept
<1>1. ASSUME IInv, [Next]_vars, NEW t \in Task \ early, file[t] \in Terminal
      PROVE  file'[t] \in {file[t], "absent"}
  <2>1. ASSUME NEW s \in saves, SaveStep(s) PROVE file'[t] = file[t]
    <3>1. s.task # t
      BY <1>1 DEF IInv, Orderly, OutcomesLeftAlone
    <3> QED  BY <1>1, <2>1, <3>1, SaveStepFacts DEF IInv, TypeOK
  <2>2. CASE CleanupDeletes
    BY <1>1, <2>2 DEF CleanupDeletes, IInv, TypeOK
  <2>3. CASE UNCHANGED file
    BY <2>3
  <2> QED
    BY <1>1, <2>1, <2>2, <2>3
    DEF Next, StoreSteps, Start, ListTasks, RecoveryEnds, Crash, RecoverTask, TaskBegins,
        TaskEnds, GrowsOld, CleanupLoads, vars
<1>2. IInv /\ [Next]_vars =>
        \A t \in Task \ early : file[t] \in Terminal => file'[t] \in {file[t], "absent"}
  BY <1>1
<1> QED  BY <1>2, InvariantHolds, PTL DEF Spec, OutcomeKept
=============================================================================
