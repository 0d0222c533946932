----------------------- MODULE PluginService_proofs -----------------------
(***************************************************************************)
(* Proofs about Discovery and the PluginService around it, for every       *)
(* finite set of peers and of lookups, all thresholds and any number of    *)
(* starts.                                                                 *)
(*                                                                         *)
(* The polling loop of Discovery is counted: a turn of it is a tick under  *)
(* way, a timer that is held, or one that was forgotten.  Ticks and timers *)
(* turn into each other, so the number grows only with start(), and falls  *)
(* only when the manager is stopped.                                       *)
(*                                                                         *)
(* The service drives the discovery only as Discovery allows, so that what *)
(* is proved of the polling loop holds of the service.  And what a start() *)
(* leaves behind can be told from how far it has come: as long as no       *)
(* stop() has come into one, only the start whose server is in `server`    *)
(* is under way or has anything that runs.                                 *)
(***************************************************************************)
EXTENDS PluginService, FiniteSetTheorems, TLAPS

\* The lookups under way.
Active == {l \in Lookup : stage[l] # "none"}

\* A manager that is stopped holds no timer.
HeldRuns == held => running

IInv == TypeOK /\ HeldRuns /\ LoopPerStart

-----------------------------------------------------------------------------
(* Counting.                                                               *)

\* There are finitely many lookups under way.
LEMMA ActiveFinite == IsFiniteSet(Active) /\ Cardinality(Active) \in Nat
<1>1. Active \subseteq Lookup /\ IsFiniteSet(Lookup)
  BY DiscoveryAssumption DEF Active
<1>2. IsFiniteSet(Active)
  BY <1>1, FS_Subset
<1> QED  BY <1>2, FS_CardinalityType

\* One more is under way when a lookup begins.
LEMMA BeginsCount ==
    ASSUME TypeOK, NEW l \in Lookup, Begins(l)
    PROVE  /\ stage' \in [Lookup -> {"none", "srv", "txt"}]
           /\ Cardinality(Active') = Cardinality(Active) + 1
<1>1. l \notin Active /\ Active' = Active \cup {l}
  BY DEF Begins, TypeOK, Active
<1> QED  BY <1>1, ActiveFinite, FS_AddElement DEF Begins, TypeOK

\* One less is under way when it ends.
LEMMA EndsCount ==
    ASSUME TypeOK, NEW l \in Lookup, stage[l] # "none", Ends(l)
    PROVE  /\ stage' \in [Lookup -> {"none", "srv", "txt"}]
           /\ found' \in [Lookup -> SUBSET Peer]
           /\ Cardinality(Active') = Cardinality(Active) - 1
<1>1. l \in Active /\ Active' = Active \ {l}
  BY DEF Ends, TypeOK, Active
<1> QED  BY <1>1, ActiveFinite, FS_RemoveElement DEF Ends, TypeOK

\* The number of turns, with the lookups named.
LEMMA LoopsIs ==
    /\ Loops = Cardinality(Active) + orphans + (IF held THEN 1 ELSE 0)
    /\ Loops' = Cardinality(Active') + orphans' + (IF held' THEN 1 ELSE 0)
  BY DEF Loops, Active

\* The invariant holds at the start.
LEMMA InitIInv == Init => IInv
<1> SUFFICES ASSUME Init PROVE IInv
  OBVIOUS
<1>1. Active = {}
  BY DEF Init, Active
<1>2. Loops = 0
  BY <1>1, LoopsIs, FS_EmptySet DEF Init
<1>3. TypeOK
  <2>1. stage \in [Lookup -> {"none", "srv", "txt"}] /\ found \in [Lookup -> SUBSET Peer]
    BY DEF Init
  <2>2. starts \in 0..MaxStarts /\ orphans \in Nat
    BY DiscoveryAssumption DEF Init
  <2> QED  BY <2>1, <2>2, Zenon DEF Init, TypeOK
<1>4. running = FALSE /\ held = FALSE /\ starts = 0
  BY DEF Init
<1>5. HeldRuns /\ LoopPerStart
  BY <1>2, <1>4 DEF HeldRuns, LoopPerStart
<1> QED  BY <1>3, <1>5 DEF IInv

-----------------------------------------------------------------------------
(* The invariant is inductive.                                             *)

\* A lookup that ends hands its turn on to the next timer, if the manager runs.
LEMMA ReturnsStep ==
    ASSUME IInv, NEW l \in Lookup, stage[l] # "none", Ends(l), Returns,
           UNCHANGED <<quorum, env>>, cache' \in SUBSET Peer, expired' = {}
    PROVE  IInv'
<1>1. /\ stage' \in [Lookup -> {"none", "srv", "txt"}]
      /\ found' \in [Lookup -> SUBSET Peer]
      /\ Cardinality(Active') = Cardinality(Active) - 1
  BY EndsCount DEF IInv
<1>2. UNCHANGED <<running, starts>>
  BY DEF Returns, TickEnds, loopVars
<1>3. /\ mode' \in {"explore", "stable"} /\ held' \in BOOLEAN /\ orphans' \in Nat
      /\ held' => running
  <2>1. CASE quorum
    <3>1. mode' \in {"explore", "stable"}
      BY <2>1 DEF Returns, TickEnds, NextMode, IInv, TypeOK
    <3>2. CASE running
      BY <2>1, <3>1, <3>2 DEF Returns, TickEnds, Arm, IInv, TypeOK
    <3>3. CASE ~running
      BY <2>1, <3>1, <3>3 DEF Returns, TickEnds, IInv, TypeOK, HeldRuns
    <3> QED  BY <3>2, <3>3
  <2>2. CASE ~quorum
    BY <2>2 DEF Returns, loopVars, IInv, TypeOK, HeldRuns
  <2> QED  BY <2>1, <2>2
<1>4. TypeOK'
  BY <1>1, <1>2, <1>3 DEF IInv, TypeOK, env
<1>5. CASE quorum
  <2>1. CASE running
    <3>1. Loops' = Loops
      BY <1>1, <1>5, <2>1, LoopsIs, ActiveFinite DEF Returns, TickEnds, Arm, IInv, TypeOK
    <3> QED  BY <1>2, <1>3, <1>4, <2>1, <3>1 DEF IInv, HeldRuns, LoopPerStart
  <2>2. CASE ~running
    <3>1. Loops' = Loops - 1 /\ Loops \in Nat
      BY <1>1, <1>5, <2>2, LoopsIs, ActiveFinite DEF Returns, TickEnds, IInv, TypeOK
    <3>2. starts \in Nat
      BY DEF IInv, TypeOK
    <3> QED  BY <1>2, <1>3, <1>4, <2>2, <3>1, <3>2 DEF IInv, HeldRuns, LoopPerStart
  <2> QED  BY <2>1, <2>2
<1>6. CASE ~quorum
  BY <1>2, <1>3, <1>4, <1>6 DEF IInv, HeldRuns, LoopPerStart
<1> QED  BY <1>5, <1>6

\* A timer that fires turns into a tick, or into nothing when stopped.
LEMMA TickStep ==
    ASSUME IInv, NEW l \in Lookup, Tick(l), quorum,
           UNCHANGED <<quorum, running, starts, mode, cache, expired, env>>,
           \/ held /\ held' = FALSE /\ orphans' = orphans
           \/ orphans > 0 /\ orphans' = orphans - 1 /\ held' = held
    PROVE  IInv'
<1>0. /\ held' \in BOOLEAN /\ orphans' \in Nat /\ (held' => held)
      /\ UNCHANGED <<network, dnsUp>>
  <2>1. orphans' \in Nat
    BY DEF IInv, TypeOK
  <2>2. held \in BOOLEAN
    BY DEF IInv, TypeOK
  <2>3. held' = FALSE \/ held' = held
    OBVIOUS
  <2>4. CASE held' = FALSE
    BY <2>1, <2>4, Zenon DEF env
  <2>5. CASE held' = held
    BY <2>1, <2>2, <2>5, Zenon DEF env
  <2> QED  BY <2>3, <2>4, <2>5
<1>1. CASE running
  <2>1. Begins(l)
    BY <1>1 DEF Tick
  <2>2. /\ stage' \in [Lookup -> {"none", "srv", "txt"}] /\ found' = found
        /\ Cardinality(Active') = Cardinality(Active) + 1
    BY <2>1, BeginsCount DEF Begins, IInv
  <2>3. Loops' = Loops
    BY <2>2, LoopsIs, ActiveFinite DEF IInv, TypeOK
  <2>4. TypeOK'
    BY <1>0, <2>2 DEF IInv, TypeOK
  <2>5. HeldRuns' /\ LoopPerStart'
    BY <1>0, <1>1, <2>3 DEF IInv, HeldRuns, LoopPerStart
  <2> QED  BY <2>4, <2>5 DEF IInv
<1>2. CASE ~running
  <2>1. UNCHANGED <<stage, found>> /\ Active' = Active
    BY <1>2 DEF Tick, Active
  <2>2. Loops' = Loops - 1 /\ Loops \in Nat /\ starts \in Nat
    BY <2>1, LoopsIs, ActiveFinite DEF IInv, TypeOK
  <2>3. TypeOK'
    BY <1>0, <2>1 DEF IInv, TypeOK
  <2>4. HeldRuns'
    BY <1>0 DEF IInv, HeldRuns
  <2>5. LoopPerStart'
    BY <1>2, <2>2 DEF IInv, LoopPerStart
  <2> QED  BY <2>3, <2>4, <2>5 DEF IInv
<1> QED  BY <1>1, <1>2

\* Every step keeps the invariant.
LEMMA NextIInv ==
    ASSUME IInv, [Next]_vars
    PROVE  IInv'
<1>1. ASSUME NEW l \in Lookup, SrvAnswers(l) PROVE IInv'
  <2>1. /\ stage' = [stage EXCEPT ![l] = "txt"] /\ stage[l] = "srv"
        /\ stage' \in [Lookup -> {"none", "srv", "txt"}]
        /\ found' \in [Lookup -> SUBSET Peer]
    BY <1>1 DEF SrvAnswers, IInv, TypeOK
  <2>2. Active' = Active
    BY <2>1 DEF Active, IInv, TypeOK
  <2>3. Loops' = Loops
    BY <1>1, <2>2, LoopsIs DEF SrvAnswers, loopVars
  <2> QED  BY <1>1, <2>1, <2>3
              DEF SrvAnswers, loopVars, env, IInv, TypeOK, HeldRuns, LoopPerStart
<1>2. ASSUME NEW l \in Lookup, SrvFails(l) PROVE IInv'
  BY <1>2, ReturnsStep DEF SrvFails, EvictExpired, IInv, TypeOK
<1>3. ASSUME NEW l \in Lookup, TxtAnswers(l) PROVE IInv'
  BY <1>3, ReturnsStep DEF TxtAnswers, Merge, IInv, TypeOK
<1>4. ASSUME NEW l \in Lookup, IntervalFires(l) PROVE IInv'
  BY <1>4, BeginsCount
     DEF IntervalFires, Begins, loopVars, env, IInv, TypeOK, HeldRuns, LoopPerStart
<1>5. ASSUME NEW l \in Lookup, TimeoutFires(l) PROVE IInv'
  BY <1>5, TickStep DEF TimeoutFires, IInv, TypeOK
<1>6. ASSUME NEW l \in Lookup, OrphanFires(l) PROVE IInv'
  BY <1>6, TickStep DEF OrphanFires
<1>7. CASE Start
  <2>1. CASE quorum
    <3>1. UNCHANGED <<stage, found>> /\ Active' = Active
      BY <1>7, <2>1 DEF Start, Active
    <3>2. Loops' = Loops + 1 /\ Loops \in Nat
      BY <1>7, <3>1, LoopsIs, ActiveFinite DEF Start, IInv, TypeOK, HeldRuns
    <3> QED  BY <1>7, <2>1, <3>1, <3>2, DiscoveryAssumption
                DEF Start, env, IInv, TypeOK, HeldRuns, LoopPerStart
  <2>2. CASE ~quorum
    <3>1. PICK l \in Lookup : Begins(l)
      BY <1>7, <2>2 DEF Start
    <3>2. stage' \in [Lookup -> {"none", "srv", "txt"}] /\ found' = found
      BY <3>1, BeginsCount DEF Begins, IInv
    <3> QED  BY <1>7, <2>2, <3>2, DiscoveryAssumption
                DEF Start, env, IInv, TypeOK, HeldRuns, LoopPerStart
  <2> QED  BY <2>1, <2>2
<1>8. CASE Stop
  <2>1. Active' = Active /\ UNCHANGED <<stage, found, quorum, starts, orphans, mode, env>>
    BY <1>8 DEF Stop, Active
  <2>2. Loops' <= Loops /\ Loops' \in Nat /\ Loops \in Nat /\ starts \in Nat
    BY <1>8, <2>1, LoopsIs, ActiveFinite DEF Stop, ClearTimer, IInv, TypeOK
  <2>3. running' = FALSE /\ held' = FALSE
    BY <1>8 DEF Stop, ClearTimer
  <2>4. cache' \in SUBSET Peer /\ expired' \in SUBSET cache'
    BY <1>8 DEF Stop, IInv, TypeOK
  <2>5. TypeOK'
    BY <2>1, <2>3, <2>4 DEF env, IInv, TypeOK
  <2>6. HeldRuns' /\ LoopPerStart'
    BY <2>1, <2>2, <2>3 DEF IInv, HeldRuns, LoopPerStart
  <2> QED  BY <2>5, <2>6 DEF IInv
<1>9. ASSUME UNCHANGED <<quorum, loopVars, stage>>, TypeOK' PROVE IInv'
  BY <1>9 DEF loopVars, IInv, HeldRuns, LoopPerStart, Loops
<1>10. ASSUME NEW p \in Peer, Expires(p) PROVE IInv'
  BY <1>9, <1>10 DEF Expires, IInv, TypeOK, loopVars, env
<1>11. CASE NetworkChanges
  BY <1>9, <1>11 DEF NetworkChanges, IInv, TypeOK, loopVars
<1>12. CASE UNCHANGED vars
  BY <1>9, <1>12 DEF vars, IInv, TypeOK, loopVars, env
<1> QED  BY <1>1, <1>2, <1>3, <1>4, <1>5, <1>6, <1>7, <1>8, <1>10, <1>11, <1>12
            DEF Next, Answers, Fires

-----------------------------------------------------------------------------
(* Theorems.                                                               *)

\* IInv holds throughout.
LEMMA InvariantHolds == Spec => []IInv
  BY InitIInv, NextIInv, PTL DEF Spec

\* The variables keep their types, and only cached peers are marked as expired.
THEOREM TypeCorrect == Spec => []TypeOK
<1>1. IInv => TypeOK
  BY DEF IInv
<1> QED  BY <1>1, InvariantHolds, PTL

\* The polling loop lives as long as the manager runs, and there is at most one
\* for each start().
THEOREM LoopsCounted == Spec => []LoopPerStart
<1>1. IInv => LoopPerStart
  BY DEF IInv
<1> QED  BY <1>1, InvariantHolds, PTL

-----------------------------------------------------------------------------
(* The service.                                                            *)

Live(i) == bound[i] \in {"binding", "bound"}

ServiceTypes ==
    /\ starts \in Nat
    /\ at \in [Run -> {"none", "listen", "bind", "recover", "done", "failed"}]
    /\ bound \in [Run -> {"none", "binding", "bound", "shut"}]
    /\ overlapped \subseteq Run /\ listening \subseteq Run /\ cleaning \subseteq Run
    /\ server \in Nat

\* A start() that is under way is the current one, or was overlapped.
UnderWayKnown == UnderWay \subseteq overlapped \cup {server}

\* The handles are those of the current start.
HandlesCurrent == overlapped = {} =>
    /\ cleaning \subseteq {server} \cap {cleanupTimer}
    /\ \A i \in Run : Live(i) => i = server /\ i = grpcServer

ServiceInv == ServiceTypes /\ UnderWayKnown /\ HandlesCurrent /\ NothingLeaks

-----------------------------------------------------------------------------
(* The discovery within the service.                                       *)

LEMMA StepOfDiscovery == [ServiceNext]_serviceVars => [Next]_vars
<1> SUFFICES ASSUME [ServiceNext]_serviceVars PROVE [Next]_vars
  OBVIOUS
<1>1. CASE StartCalled
  BY <1>1 DEF StartCalled, Next
<1>2. CASE StopCalled
  BY <1>2 DEF StopCalled, Next
<1>3. ASSUME NEW i \in Run, Listens(i) \/ ListenFails(i) \/ Proceeds(i) PROVE UNCHANGED vars
  BY <1>3 DEF Listens, ListenFails, Proceeds, Binds, Recovers
<1>4. CASE Advertises \/ RecordsExpire
  BY <1>4 DEF Advertises, RecordsExpire
<1>5. CASE Discovers
  BY <1>5 DEF Discovers, Next
<1>6. CASE UNCHANGED serviceVars
  BY <1>6 DEF serviceVars
<1> QED  BY <1>1, <1>2, <1>3, <1>4, <1>5, <1>6 DEF ServiceNext

\* Seen from the discovery, the service is a caller of its start() and stop()
\* as Discovery has them: it never starts a manager that runs, for example.
THEOREM ServiceDrivesDiscovery == ServiceSpec => Spec
<1>1. ServiceInit => Init
  BY DEF ServiceInit
<1> QED  BY <1>1, StepOfDiscovery, PTL DEF ServiceSpec, Spec

\* So the polling loop of the service lives, and there is one for each start().
THEOREM ServiceLoops == ServiceSpec => []LoopPerStart
  BY ServiceDrivesDiscovery, LoopsCounted, PTL

-----------------------------------------------------------------------------
(* What outlives stop().                                                   *)

LEMMA ServiceInitInv == ServiceInit => ServiceInv
<1> SUFFICES ASSUME ServiceInit PROVE ServiceInv
  OBVIOUS
<1>1. running = FALSE /\ starts = 0
  BY DEF ServiceInit, Init
<1>2. /\ at = [i \in Run |-> "none"] /\ bound = [i \in Run |-> "none"] /\ advertising = FALSE
      /\ overlapped = {} /\ listening = {} /\ cleaning = {} /\ server = 0 /\ checks = 0
  BY DEF ServiceInit
<1>3. ServiceTypes
  BY <1>1, <1>2 DEF ServiceTypes
<1>4. UnderWayKnown /\ HandlesCurrent
  BY <1>2 DEF UnderWayKnown, UnderWay, HandlesCurrent, Live
<1>5. NothingLeaks
  BY <1>1, <1>2 DEF NothingLeaks
<1> QED  BY <1>3, <1>4, <1>5 DEF ServiceInv

\* Nothing of the service changes, other than what the discovery and the
\* resolvers of others know.
LEMMA QuietStep ==
    ASSUME ServiceInv,
           UNCHANGED <<startVars, httpVars, grpcVars, timerVars, running, starts, advertising>>
    PROVE  ServiceInv'
  BY DEF ServiceInv, ServiceTypes, UnderWayKnown, UnderWay, HandlesCurrent, Live, NothingLeaks,
         startVars, httpVars, grpcVars, timerVars

LEMMA ServiceNextInv ==
    ASSUME ServiceInv, [ServiceNext]_serviceVars
    PROVE  ServiceInv'
<1> USE DEF Goes
<1>1. CASE StartCalled
  <2>1. /\ starts' = starts + 1 /\ starts < MaxStarts /\ running' = TRUE
        /\ server = 0 /\ server' = starts' /\ checks' = checks + 1
        /\ at[starts'] = "none" /\ at' = [at EXCEPT ![starts'] = "listen"]
        /\ UNCHANGED <<overlapped, listening, grpcServer, bound, cleanupTimer, cleaning, advertising>>
    BY <1>1 DEF StartCalled, Start, grpcVars, mdnsVars
  <2>2. starts' \in Run /\ server' # 0 /\ starts' \in Nat
    BY <2>1, DiscoveryAssumption DEF ServiceInv, ServiceTypes, Run
  <2>3. ServiceTypes'
    BY <2>1, <2>2 DEF ServiceInv, ServiceTypes
  <2>4. UnderWayKnown'
    BY <2>1, <2>2 DEF ServiceInv, ServiceTypes, UnderWayKnown, UnderWay, Run
  <2>5. 0 \notin Run
    BY DEF Run
  <2>6. overlapped = {} => cleaning = {} /\ listening = {} /\ \A i \in Run : ~Live(i)
    BY <2>1, <2>5 DEF ServiceInv, ServiceTypes, HandlesCurrent, NothingLeaks
  <2>7. HandlesCurrent'
    BY <2>1, <2>6 DEF HandlesCurrent, Live
  <2>8. listening' \subseteq overlapped' \cup {server'}
    BY <2>1, <2>5 DEF ServiceInv, ServiceTypes, NothingLeaks
  <2>9. overlapped' = {} =>
           cleaning' \cup {i \in Run : bound'[i] \in {"binding", "bound"}} \subseteq {server'}
    BY <2>1, <2>6 DEF Live
  <2>10. checks' = 1
    BY <2>1 DEF ServiceInv, NothingLeaks
  <2>11. NothingLeaks'
    BY <2>1, <2>2, <2>8, <2>9, <2>10 DEF NothingLeaks
  <2> QED  BY <2>3, <2>4, <2>7, <2>11 DEF ServiceInv
<1>2. CASE StopCalled
  <2>1. /\ advertising' = FALSE /\ cleaning' = cleaning \ {cleanupTimer}
        /\ bound' = [i \in Run |-> IF i = grpcServer THEN "shut" ELSE bound[i]]
        /\ server' = 0 /\ listening' = listening \ {server}
        /\ checks' = (IF checks > 0 THEN checks - 1 ELSE 0)
        /\ overlapped' = overlapped \cup UnderWay /\ at' = at
    BY <1>2 DEF StopCalled, StopResponder, StopCleanup, StopGrpc, StopHttp
  <2>2. ~running' /\ starts' = starts
    <3>1. CASE running
      BY <1>2, <3>1 DEF StopCalled, Stop
    <3>2. CASE ~running
      BY <1>2, <3>2 DEF StopCalled, vars, loopVars
    <3> QED  BY <3>1, <3>2
  <2>3. ServiceTypes'
    BY <2>1, <2>2 DEF ServiceInv, ServiceTypes, UnderWay
  <2>4. UnderWayKnown'
    BY <2>1 DEF UnderWayKnown, UnderWay
  <2>5. overlapped' = {} => overlapped = {}
    BY <2>1
  <2>6. overlapped' = {} => cleaning' = {} /\ \A i \in Run : bound'[i] \notin {"binding", "bound"}
    BY <2>1, <2>5 DEF ServiceInv, ServiceTypes, HandlesCurrent, Live
  <2>7. HandlesCurrent'
    BY <2>6 DEF HandlesCurrent, Live
  <2>8. listening' \subseteq overlapped' \cup {server'}
    BY <2>1 DEF ServiceInv, NothingLeaks
  <2>9. checks' = 0
    BY <2>1 DEF ServiceInv, NothingLeaks
  <2>10. NothingLeaks'
    BY <2>1, <2>2, <2>6, <2>8, <2>9 DEF NothingLeaks
  <2> QED  BY <2>3, <2>4, <2>7, <2>10 DEF ServiceInv
<1>3. ASSUME NEW i \in Run, Listens(i) PROVE ServiceInv'
  <2>1. /\ at[i] = "listen" /\ at' = [at EXCEPT ![i] = "bind"]
        /\ listening' = {i} /\ grpcServer' = i /\ bound' = [bound EXCEPT ![i] = "binding"]
        /\ UNCHANGED <<running, starts, overlapped, server, cleanupTimer, cleaning, checks, advertising>>
    BY <1>3 DEF Listens, vars, loopVars, timerVars, mdnsVars
  <2>2. i \in overlapped \cup {server}
    BY <2>1 DEF ServiceInv, UnderWayKnown, UnderWay
  <2>3. ServiceTypes'
    BY <2>1 DEF ServiceInv, ServiceTypes
  <2>4. UnderWayKnown'
    BY <2>1 DEF ServiceInv, ServiceTypes, UnderWayKnown, UnderWay
  <2>5. HandlesCurrent'
    BY <2>1, <2>2 DEF ServiceInv, ServiceTypes, HandlesCurrent, Live
  <2>6. overlapped' = {} =>
           cleaning' \cup {k \in Run : bound'[k] \in {"binding", "bound"}} \subseteq {server'}
    BY <2>5 DEF HandlesCurrent, Live
  <2>7. NothingLeaks'
    BY <2>1, <2>2, <2>6 DEF ServiceInv, NothingLeaks
  <2> QED  BY <2>3, <2>4, <2>5, <2>7 DEF ServiceInv
<1>4. ASSUME NEW i \in Run, ListenFails(i) PROVE ServiceInv'
  <2>1. /\ at[i] = "listen" /\ at' = [at EXCEPT ![i] = "failed"]
        /\ UNCHANGED <<running, starts, overlapped, httpVars, grpcVars, timerVars, advertising>>
    BY <1>4 DEF ListenFails, vars, loopVars, mdnsVars
  <2> QED  BY <2>1 DEF ServiceInv, ServiceTypes, UnderWayKnown, UnderWay, HandlesCurrent, Live,
                       NothingLeaks, httpVars, grpcVars, timerVars
<1>5. ASSUME NEW i \in Run, NEW ok \in BOOLEAN, Binds(i, ok) PROVE ServiceInv'
  <2>1. /\ at[i] = "bind" /\ at' = [at EXCEPT ![i] = "recover"]
        /\ bound' = [bound EXCEPT ![i] = IF ok THEN "bound" ELSE "shut"]
        /\ grpcServer' = (IF ok THEN grpcServer ELSE 0)
        /\ (ok => bound[i] = "binding")
        /\ UNCHANGED <<running, starts, overlapped, server, listening, cleanupTimer, cleaning, checks,
                       advertising>>
    BY <1>5 DEF Binds, AfterBind, vars, loopVars, httpVars, timerVars, mdnsVars
  <2>2. i \in overlapped \cup {server}
    BY <2>1 DEF ServiceInv, UnderWayKnown, UnderWay
  <2>3. ServiceTypes'
    BY <2>1 DEF ServiceInv, ServiceTypes
  <2>4. UnderWayKnown'
    BY <2>1 DEF ServiceInv, ServiceTypes, UnderWayKnown, UnderWay
  <2>5. HandlesCurrent'
    BY <2>1, <2>2 DEF ServiceInv, ServiceTypes, HandlesCurrent, Live
  <2>6. overlapped' = {} =>
           cleaning' \cup {k \in Run : bound'[k] \in {"binding", "bound"}} \subseteq {server'}
    BY <2>5 DEF HandlesCurrent, Live
  <2>7. NothingLeaks'
    BY <2>1, <2>6 DEF ServiceInv, NothingLeaks
  <2> QED  BY <2>3, <2>4, <2>5, <2>7 DEF ServiceInv
<1>6. ASSUME NEW i \in Run, Recovers(i) PROVE ServiceInv'
  <2>1. /\ at[i] = "recover" /\ at' = [at EXCEPT ![i] = "done"]
        /\ cleanupTimer' = i /\ cleaning' = cleaning \cup {i} /\ advertising' = TRUE
        /\ UNCHANGED <<running, starts, overlapped, server, listening, grpcServer, bound, checks>>
    BY <1>6 DEF Recovers, vars, loopVars, httpVars, grpcVars
  <2>2. i \in overlapped \cup {server} /\ i # 0
    BY <2>1 DEF ServiceInv, UnderWayKnown, UnderWay, Run
  <2>3. ServiceTypes'
    BY <2>1 DEF ServiceInv, ServiceTypes
  <2>4. UnderWayKnown'
    BY <2>1 DEF ServiceInv, ServiceTypes, UnderWayKnown, UnderWay
  <2>5. HandlesCurrent'
    BY <2>1, <2>2 DEF ServiceInv, ServiceTypes, HandlesCurrent, Live
  <2>6. overlapped' = {} =>
           cleaning' \cup {k \in Run : bound'[k] \in {"binding", "bound"}} \subseteq {server'}
    BY <2>5 DEF HandlesCurrent, Live
  <2>7. NothingLeaks'
    BY <2>1, <2>2, <2>6 DEF ServiceInv, NothingLeaks
  <2> QED  BY <2>3, <2>4, <2>5, <2>7 DEF ServiceInv
<1>7. CASE Advertises \/ RecordsExpire \/ UNCHANGED serviceVars
  BY <1>7, QuietStep DEF Advertises, RecordsExpire, serviceVars, vars, loopVars, mdnsVars
<1>8. CASE Discovers
  <2>1. UNCHANGED <<running, starts>>
    BY <1>8 DEF Discovers, Answers, Fires, SrvAnswers, SrvFails, TxtAnswers, Returns, TickEnds,
                IntervalFires, TimeoutFires, OrphanFires, Expires, NetworkChanges, loopVars
  <2> QED  BY <1>8, <2>1, QuietStep DEF Discovers, mdnsVars
<1> QED  BY <1>1, <1>2, <1>3, <1>4, <1>5, <1>6, <1>7, <1>8 DEF ServiceNext, Proceeds

\* Nothing of the service goes on after stop(), and nothing runs twice, unless a
\* stop() came into a start().
THEOREM NothingLeaksHolds == ServiceSpec => []NothingLeaks
<1>1. ServiceInv => NothingLeaks
  BY DEF ServiceInv
<1> QED  BY <1>1, ServiceInitInv, ServiceNextInv, PTL DEF ServiceSpec
=============================================================================
