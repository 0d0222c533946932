---------------------------- MODULE WsPool_proofs ----------------------------
(***************************************************************************)
(* Proofs about WsPool, for every finite set of dispatches and every       *)
(* number of attempts to connect; and, at the end, about                   *)
(* GatewayConnection, a connection that is in the pool, for every set of   *)
(* agent requests.                                                         *)
(*                                                                         *)
(* The count of the pooled entry never exceeds its users, since release()  *)
(* counts down whatever entry there is, its own or another; so an entry    *)
(* without users counts zero, and one that counts zero has its timeout.    *)
(* As long as no entry was overwritten, everybody uses the pooled one, and *)
(* the count is exact.                                                     *)
(***************************************************************************)
EXTENDS WsPool, GatewayConnection, FiniteSetTheorems, TLAPS

AtMostUsers ==
    entry # NoConn /\ ~destroyed => refCount[entry] <= Cardinality(Users(entry))

ZeroIsTimed ==
    entry # NoConn /\ ~destroyed /\ refCount[entry] = 0 => entry \in eviction

\* Nobody uses a connection that is not the pooled one, or waits on its timer.
\* (Who was rejected with a connection that has left the pool is about to
\* release, before anything else happens.)
OnlyPooled ==
    ~overwritten /\ ~destroyed =>
        /\ eviction \subseteq {entry}
        /\ entry # NoConn =>
             /\ refCount[entry] = Cardinality(Users(entry))
             /\ \A c \in Call : stage[c] \in {"using", "rejected"} => uses[c] = entry
        /\ entry = NoConn => \A c \in Call : stage[c] # "using"

IInv == TypeOK /\ AtMostUsers /\ ZeroIsTimed /\ OnlyPooled

-----------------------------------------------------------------------------
(* Users.                                                                  *)

\* A connection has finitely many.
LEMMA UsersFinite ==
    \A k : IsFiniteSet(Users(k)) /\ Cardinality(Users(k)) \in Nat
<1> SUFFICES ASSUME NEW k PROVE IsFiniteSet(Users(k)) /\ Cardinality(Users(k)) \in Nat
  OBVIOUS
<1>1. Users(k) \subseteq Call /\ IsFiniteSet(Call)
  BY PoolAssumption DEF Users
<1>2. IsFiniteSet(Users(k))
  BY <1>1, FS_Subset
<1> QED  BY <1>2, FS_CardinalityType

\* Being rejected, a dispatch still counts until it releases.
LEMMA GoesDownFacts ==
    ASSUME TypeOK, NEW k \in Conn, GoesDown(k), uses' = uses
    PROVE  /\ stage' \in [Call -> Stages]
           /\ socket' \in [Conn -> {"unused", "open", "closing", "closed"}]
           /\ \A j : Users(j)' = Users(j)
           /\ \A c \in Call : stage'[c] = IF stage[c] = "using" /\ uses[c] = k
                                          THEN "rejected" ELSE stage[c]
  BY DEF GoesDown, TypeOK, Users, Stages, Conn

\* The invariant holds at the start.
LEMMA InitIInv == Init => IInv
<1> SUFFICES ASSUME Init PROVE IInv
  OBVIOUS
<1>1. TypeOK
  <2>1. attempt \in [Call -> 0..MaxReconnectAttempts] /\ refCount \in [Conn -> Nat]
    BY PoolAssumption DEF Init
  <2>2. stage \in [Call -> Stages]
    BY DEF Init, Stages
  <2> QED  BY <2>1, <2>2, Zenon DEF Init, TypeOK
<1>2. entry = NoConn /\ eviction = {} /\ \A c \in Call : stage[c] = "idle"
  BY DEF Init
<1> QED  BY <1>1, <1>2 DEF IInv, AtMostUsers, ZeroIsTimed, OnlyPooled

-----------------------------------------------------------------------------
(* The invariant is inductive.                                             *)

\* A step that leaves the pool and its users alone.
LEMMA SamePool ==
    ASSUME IInv, TypeOK', UNCHANGED <<entry, refCount, eviction, overwritten, destroyed, uses>>,
           \A c \in Call : \/ stage'[c] = stage[c]
                           \/ {stage[c], stage'[c]} \cap {"using", "rejected"} = {}
                           \/ stage[c] = "using" /\ stage'[c] = "rejected"
    PROVE  IInv'
<1>1. \A k : Users(k)' = Users(k)
  BY DEF Users
<1>2. AtMostUsers' /\ ZeroIsTimed'
  BY <1>1 DEF IInv, AtMostUsers, ZeroIsTimed
<1>3. \A c \in Call : /\ stage'[c] = "using" => stage[c] = "using"
                      /\ stage'[c] \in {"using", "rejected"} => stage[c] \in {"using", "rejected"}
  OBVIOUS
<1>4. OnlyPooled'
  BY <1>1, <1>3 DEF IInv, OnlyPooled
<1> QED  BY <1>2, <1>4 DEF IInv

\* A reused connection has one user and one count more.
LEMMA AcquireHotStep ==
    ASSUME IInv, NEW c \in Call, AcquireHot(c)
    PROVE  IInv'
<1>1. /\ entry \in Conn /\ entry # NoConn /\ entry' = entry /\ stage[c] = "idle"
      /\ refCount' = [refCount EXCEPT ![entry] = @ + 1]
      /\ stage' = [stage EXCEPT ![c] = "using"] /\ uses' = [uses EXCEPT ![c] = entry]
      /\ UNCHANGED <<eviction, overwritten, destroyed>>
  BY DEF AcquireHot, Healthy, Acquired, IInv, TypeOK
<1>2. TypeOK'
  BY <1>1 DEF AcquireHot, IInv, TypeOK, Stages
<1>3. Users(entry)' = Users(entry) \cup {c} /\ c \notin Users(entry)
  BY <1>1 DEF Users, IInv, TypeOK
<1>4. Cardinality(Users(entry)') = Cardinality(Users(entry)) + 1
  BY <1>3, UsersFinite, FS_AddElement
<1>5. refCount'[entry] = refCount[entry] + 1 /\ refCount[entry] \in Nat
  BY <1>1 DEF IInv, TypeOK
<1>6. AtMostUsers' /\ ZeroIsTimed'
  BY <1>1, <1>4, <1>5, UsersFinite DEF IInv, AtMostUsers, ZeroIsTimed
<1>7. OnlyPooled'
  BY <1>1, <1>4, <1>5 DEF IInv, TypeOK, OnlyPooled
<1> QED  BY <1>2, <1>6, <1>7 DEF IInv

\* A dead entry leaves the pool, and its users are rejected.
LEMMA AcquireDeadStep ==
    ASSUME IInv, MicrotasksDone, NEW c \in Call, AcquireDead(c)
    PROVE  IInv'
<1>1. /\ entry \in Conn /\ entry # NoConn /\ entry' = NoConn /\ ~destroyed /\ stage[c] = "idle"
      /\ eviction' = eviction \ {entry}
      /\ UNCHANGED <<overwritten, destroyed, uses>>
      /\ \A d \in Call : stage'[d] = IF d = c THEN "connecting"
                                     ELSE IF d \in Users(entry) THEN "rejected" ELSE stage[d]
  BY DEF AcquireDead, IInv, TypeOK
<1>2. TypeOK'
  BY <1>1 DEF AcquireDead, IInv, TypeOK, Stages
<1>3. OnlyPooled'
  BY <1>1 DEF IInv, OnlyPooled, Users
<1> QED  BY <1>1, <1>2, <1>3 DEF IInv, AtMostUsers, ZeroIsTimed

\* The new entry has one user.
LEMMA ConnectedStep ==
    ASSUME IInv, MicrotasksDone, NEW c \in Call, Connected(c)
    PROVE  IInv'
<1>1. /\ stage[c] = "connecting" /\ entry' = c
      /\ stage' = [stage EXCEPT ![c] = "using"] /\ uses' = [uses EXCEPT ![c] = c]
      /\ UNCHANGED <<eviction, destroyed>>
  BY DEF Connected, timers
<1>2. refCount' = [refCount EXCEPT ![c] = 1] /\ refCount'[c] = 1 /\ c # NoConn
  BY PoolAssumption DEF Connected, IInv, TypeOK, Conn
<1>3. overwritten' = (overwritten \/ entry # NoConn)
  BY DEF Connected
<1>4. TypeOK'
  <2>1. entry' \in Conn \cup {NoConn} /\ refCount' \in [Conn -> Nat]
    BY <1>1, <1>2 DEF IInv, TypeOK, Conn
  <2>2. socket' \in [Conn -> {"unused", "open", "closing", "closed"}]
    BY DEF Connected, IInv, TypeOK, Conn
  <2>3. stage' \in [Call -> Stages] /\ uses' \in [Call -> Conn \cup {NoConn}]
    BY <1>1 DEF IInv, TypeOK, Conn, Stages
  <2>4. overwritten' \in BOOLEAN
    BY <1>3, Zenon DEF IInv, TypeOK
  <2>5. UNCHANGED <<timers, attempt, destroyed>>
    BY DEF Connected
  <2> QED  BY <2>1, <2>2, <2>3, <2>4, <2>5, Zenon DEF IInv, TypeOK, timers
<1>5. c \in Users(c)'
  BY <1>1 DEF Users, IInv, TypeOK
<1>6. IsFiniteSet(Users(c)') /\ Cardinality(Users(c)') \in Nat /\ Cardinality(Users(c)') # 0
  <2>1. Users(c)' \subseteq Call /\ IsFiniteSet(Call)
    BY PoolAssumption DEF Users
  <2> QED  BY <1>5, <2>1, FS_Subset, FS_CardinalityType, FS_EmptySet
<1>7. AtMostUsers' /\ ZeroIsTimed'
  BY <1>1, <1>2, <1>6 DEF AtMostUsers, ZeroIsTimed
<1>8. ASSUME ~overwritten', ~destroyed' PROVE OnlyPooled'
  <2>1. entry = NoConn /\ ~overwritten /\ ~destroyed
    <3>1. entry = NoConn /\ ~overwritten
      BY <1>3, <1>8, Zenon
    <3> QED  BY <1>1, <1>8, <3>1
  <2>2. eviction = {} /\ \A d \in Call : stage[d] \notin {"using", "rejected"}
    BY <2>1, PoolAssumption DEF IInv, TypeOK, OnlyPooled, MicrotasksDone, Conn
  <2>3. Users(c)' = {c}
    BY <1>1, <2>2 DEF Users, IInv, TypeOK
  <2>4. Cardinality(Users(c)') = 1
    BY <2>3, FS_Singleton
  <2> QED  BY <1>1, <1>2, <2>2, <2>4 DEF OnlyPooled, IInv, TypeOK
<1>9. OnlyPooled'
  BY <1>8 DEF OnlyPooled
<1> QED  BY <1>4, <1>7, <1>9 DEF IInv

\* Release counts down the entry there is: the one that was acquired, which
\* loses a user, or another one, whose count may now be too low.
LEMMA ReleaseStep ==
    ASSUME IInv, NEW c \in Call, Release(c)
    PROVE  IInv'
<1>1. /\ stage[c] \in {"using", "rejected"} /\ stage' = [stage EXCEPT ![c] = "done"]
      /\ UNCHANGED <<entry, socket, uses, attempt, destroyed, overwritten>>
  BY DEF Release
<1>2. \A k : Users(k)' = Users(k) \ {c}
  BY <1>1 DEF Users, IInv, TypeOK
<1>3. CASE destroyed \/ entry = NoConn
  <2>1. UNCHANGED <<refCount, heartbeat, eviction>>
    BY <1>3 DEF Release, timers
  <2>2. stage' \in [Call -> Stages]
    BY <1>1 DEF IInv, TypeOK, Stages
  <2>3. TypeOK'
    BY <1>1, <2>1, <2>2, Zenon DEF IInv, TypeOK
  <2>4. AtMostUsers' /\ ZeroIsTimed'
    BY <1>1, <1>3, <2>1 DEF AtMostUsers, ZeroIsTimed
  <2>5. OnlyPooled'
    BY <1>1, <1>3, <2>1 DEF IInv, TypeOK, OnlyPooled
  <2> QED  BY <2>3, <2>4, <2>5 DEF IInv
<1>4. CASE ~destroyed /\ entry # NoConn
  <2>1. /\ entry \in Conn /\ refCount[entry] \in Nat
        /\ refCount' = [refCount EXCEPT ![entry] = Released(@)]
        /\ IF refCount'[entry] = 0 THEN BecomesIdle(entry) ELSE UNCHANGED timers
    BY <1>4 DEF Release, IInv, TypeOK
  <2>2. refCount'[entry] = IF refCount[entry] > 0 THEN refCount[entry] - 1 ELSE 0
    BY <2>1 DEF Released, IInv, TypeOK
  <2>3. heartbeat' \subseteq Conn /\ eviction' \subseteq Conn
    BY <2>1 DEF BecomesIdle, timers, IInv, TypeOK
  <2>4. TypeOK'
    <3>1. refCount' \in [Conn -> Nat]
      BY <2>1, <2>2 DEF IInv, TypeOK
    <3>2. stage' \in [Call -> Stages]
      BY <1>1 DEF IInv, TypeOK, Stages
    <3> QED  BY <1>1, <2>3, <3>1, <3>2, Zenon DEF IInv, TypeOK
  <2>5. /\ c \in Users(entry) => Cardinality(Users(entry)') = Cardinality(Users(entry)) - 1
        /\ c \notin Users(entry) => Cardinality(Users(entry)') = Cardinality(Users(entry))
    BY <1>1, <1>2, UsersFinite, FS_RemoveElement
  <2>6. c \in Users(entry) => Cardinality(Users(entry)) # 0
    BY UsersFinite, FS_EmptySet
  <2>7. AtMostUsers'
    BY <1>1, <1>4, <2>1, <2>2, <2>5, <2>6, UsersFinite DEF IInv, AtMostUsers
  <2>8. ZeroIsTimed'
    BY <1>1, <2>1 DEF BecomesIdle, ZeroIsTimed
  <2>9. ASSUME ~overwritten, ~destroyed PROVE OnlyPooled'
    <3>1. uses[c] = entry /\ c \in Users(entry) /\ refCount[entry] = Cardinality(Users(entry))
      BY <1>1, <1>4, <2>9 DEF IInv, OnlyPooled, Users
    <3>2. refCount'[entry] = Cardinality(Users(entry)')
      BY <2>1, <2>2, <2>5, <2>6, <3>1
    <3>3. eviction' \subseteq {entry}
      BY <2>1, <2>9 DEF BecomesIdle, timers, IInv, OnlyPooled
    <3> QED  BY <1>1, <1>4, <2>9, <3>2, <3>3 DEF IInv, TypeOK, OnlyPooled
  <2>10. OnlyPooled'
    BY <1>1, <2>9 DEF OnlyPooled
  <2> QED  BY <2>4, <2>7, <2>8, <2>10 DEF IInv
<1> QED  BY <1>3, <1>4

\* The eviction timeout deletes an entry that counts zero; without overlapping
\* cold acquires that is the entry it was set for, and nobody uses it.
LEMMA EvictionFiresStep ==
    ASSUME IInv, MicrotasksDone, NEW k \in Conn, EvictionFires(k)
    PROVE  IInv'
<1>1. k \in eviction /\ UNCHANGED <<refCount, uses, attempt, destroyed, overwritten>>
  BY DEF EvictionFires
<1>2. CASE refCount[k] = 0
  <2>1. /\ heartbeat' = heartbeat \ {k} /\ eviction' = eviction \ {k}
        /\ GoesDown(k) /\ entry' = NoConn
    BY <1>2 DEF EvictionFires, EvictConnection
  <2>2. /\ stage' \in [Call -> Stages]
        /\ socket' \in [Conn -> {"unused", "open", "closing", "closed"}]
        /\ \A c \in Call : stage'[c] = "using" => stage[c] = "using" /\ uses[c] # k
    BY <1>1, <2>1, GoesDownFacts DEF IInv
  <2>3. TypeOK'
    <3>1. heartbeat' \subseteq Conn /\ eviction' \subseteq Conn
      BY <2>1 DEF IInv, TypeOK
    <3> QED  BY <1>1, <2>1, <2>2, <3>1, Zenon DEF IInv, TypeOK
  <2>4. ASSUME ~overwritten, ~destroyed PROVE OnlyPooled'
    <3>1. entry = k /\ eviction = {k} /\ entry # NoConn
      BY <1>1, <2>4, PoolAssumption DEF IInv, TypeOK, OnlyPooled, Conn
    <3>2. \A c \in Call : stage'[c] # "using"
      BY <2>2, <2>4, <3>1 DEF IInv, OnlyPooled
    <3> QED  BY <2>1, <3>1, <3>2 DEF OnlyPooled
  <2>5. OnlyPooled'
    BY <1>1, <2>4 DEF OnlyPooled
  <2> QED  BY <2>1, <2>3, <2>5 DEF IInv, AtMostUsers, ZeroIsTimed
<1>3. CASE refCount[k] # 0
  <2>1. eviction' = eviction \ {k} /\ UNCHANGED <<heartbeat, socket, stage, entry>>
    BY <1>3 DEF EvictionFires
  <2>2. \A j : Users(j)' = Users(j)
    BY <1>1, <2>1 DEF Users
  <2>3. TypeOK'
    BY <1>1, <2>1 DEF IInv, TypeOK
  <2>4. AtMostUsers' /\ ZeroIsTimed'
    BY <1>1, <1>3, <2>1, <2>2 DEF IInv, AtMostUsers, ZeroIsTimed
  <2>5. OnlyPooled'
    BY <1>1, <2>1, <2>2 DEF IInv, OnlyPooled
  <2> QED  BY <2>3, <2>4, <2>5 DEF IInv
<1> QED  BY <1>2, <1>3

\* A destroyed pool promises nothing.
LEMMA DestroyStep ==
    ASSUME IInv, Destroy
    PROVE  IInv'
<1>1. destroyed' = TRUE /\ UNCHANGED <<refCount, uses, attempt, overwritten>>
  BY DEF Destroy
<1>2. AtMostUsers' /\ ZeroIsTimed' /\ OnlyPooled'
  BY <1>1 DEF AtMostUsers, ZeroIsTimed, OnlyPooled
<1>3. CASE entry = NoConn
  <2>1. UNCHANGED <<entry, heartbeat, eviction, socket, stage>>
    BY <1>3 DEF Destroy, timers
  <2> QED  BY <1>1, <1>2, <2>1, Zenon DEF IInv, TypeOK
<1>4. CASE entry # NoConn
  <2>1. /\ entry \in Conn
        /\ heartbeat' = heartbeat \ {entry} /\ eviction' = eviction \ {entry}
        /\ GoesDown(entry) /\ entry' = NoConn
    BY <1>4 DEF Destroy, EvictConnection, IInv, TypeOK
  <2>2. /\ stage' \in [Call -> Stages]
        /\ socket' \in [Conn -> {"unused", "open", "closing", "closed"}]
    BY <1>1, <2>1, GoesDownFacts DEF IInv
  <2>3. heartbeat' \subseteq Conn /\ eviction' \subseteq Conn
    BY <2>1 DEF IInv, TypeOK
  <2>4. TypeOK'
    BY <1>1, <2>1, <2>2, <2>3, Zenon DEF IInv, TypeOK
  <2> QED  BY <1>2, <2>4 DEF IInv
<1> QED  BY <1>3, <1>4

\* The other steps on behalf of a dispatch leave the pool alone.
LEMMA CallStep ==
    ASSUME IInv, NEW c \in Call, AcquireRefused(c) \/ AcquireCold(c) \/ ConnectFails(c)
    PROVE  IInv'
<1>1. /\ UNCHANGED <<entry, refCount, heartbeat, eviction, socket, uses, destroyed, overwritten>>
      /\ stage[c] \in {"idle", "connecting"}
  BY DEF AcquireRefused, AcquireCold, ConnectFails, timers
<1>2. /\ stage' \in [Call -> Stages]
      /\ \A d \in Call : \/ stage'[d] = stage[d]
                         \/ {stage[d], stage'[d]} \cap {"using", "rejected"} = {}
  BY DEF AcquireRefused, AcquireCold, ConnectFails, IInv, TypeOK, Stages
<1>3. attempt' \in [Call -> 0..MaxReconnectAttempts]
  BY PoolAssumption DEF AcquireRefused, AcquireCold, ConnectFails, IInv, TypeOK
<1>4. TypeOK'
  BY <1>1, <1>2, <1>3, Zenon DEF IInv, TypeOK
<1> QED  BY <1>1, <1>2, <1>4, SamePool

\* So do the steps of the network and of the heartbeat.
LEMMA NetworkStep ==
    ASSUME IInv, NEW k \in Conn, HeartbeatFinds(k) \/ SocketBreaks(k) \/ CloseEvent(k)
    PROVE  IInv'
<1>1. UNCHANGED <<entry, refCount, eviction, uses, attempt, destroyed, overwritten>>
  BY DEF HeartbeatFinds, SocketBreaks, CloseEvent, timers
<1>2. /\ stage' \in [Call -> Stages]
      /\ \A c \in Call : stage'[c] = stage[c] \/ (stage[c] = "using" /\ stage'[c] = "rejected")
  <2>1. CASE HeartbeatFinds(k) \/ SocketBreaks(k)
    BY <2>1 DEF HeartbeatFinds, SocketBreaks, IInv, TypeOK
  <2>2. CASE CloseEvent(k)
    BY <1>1, <2>2, GoesDownFacts DEF CloseEvent, IInv
  <2> QED  BY <2>1, <2>2
<1>3. heartbeat' \subseteq Conn /\ socket' \in [Conn -> {"unused", "open", "closing", "closed"}]
  <2>1. CASE HeartbeatFinds(k) \/ SocketBreaks(k)
    BY <2>1 DEF HeartbeatFinds, SocketBreaks, IInv, TypeOK, timers
  <2>2. CASE CloseEvent(k)
    BY <1>1, <2>2, GoesDownFacts DEF CloseEvent, IInv, TypeOK, timers
  <2> QED  BY <2>1, <2>2
<1>4. TypeOK'
  BY <1>1, <1>2, <1>3, Zenon DEF IInv, TypeOK
<1> QED  BY <1>1, <1>2, <1>4, SamePool

\* Every step keeps the invariant.
LEMMA NextIInv == IInv /\ [Next]_vars => IInv'
<1> SUFFICES ASSUME IInv, [Next]_vars PROVE IInv'
  OBVIOUS
<1>1. CASE \E c \in Call : Release(c)
  BY <1>1, ReleaseStep
<1>2. CASE /\ MicrotasksDone
           /\ \E c \in Call : \/ AcquireRefused(c) \/ AcquireHot(c) \/ AcquireCold(c)
                              \/ AcquireDead(c) \/ Connecting(c)
  BY <1>2, AcquireHotStep, AcquireDeadStep, ConnectedStep, CallStep DEF Connecting
<1>3. CASE /\ MicrotasksDone
           /\ \E k \in Conn : \/ EvictionFires(k) \/ HeartbeatFinds(k)
                              \/ SocketBreaks(k) \/ CloseEvent(k)
  BY <1>3, EvictionFiresStep, NetworkStep
<1>4. CASE Destroy
  BY <1>4, DestroyStep
<1>5. CASE UNCHANGED vars
  <2>1. UNCHANGED <<entry, refCount, heartbeat, eviction, socket, stage, uses, attempt,
                    destroyed, overwritten>>
    BY <1>5 DEF vars, timers
  <2>2. TypeOK'
    BY <2>1, Zenon DEF IInv, TypeOK
  <2> QED  BY <2>1, <2>2, SamePool
<1> QED  BY <1>1, <1>2, <1>3, <1>4, <1>5, Zenon DEF Next

-----------------------------------------------------------------------------
(* The theorems.                                                           *)

LEMMA IInvHolds == Spec => []IInv
  BY InitIInv, NextIInv, PTL DEF Spec

\* The variables have their types, and the pooled entry never counts more
\* dispatches than use it, whichever entry release() counts down.
THEOREM TypeCorrect == Spec => [](TypeOK /\ AtMostUsers)
<1>1. IInv => TypeOK /\ AtMostUsers
  BY DEF IInv
<1> QED  BY <1>1, IInvHolds, PTL

\* An entry nobody uses has its eviction timeout running, so the pool does not
\* keep a socket for ever.
THEOREM IdleTimed == Spec => []IdleIsTimed
<1>1. IInv => IdleIsTimed
  <2> SUFFICES ASSUME IInv, entry # NoConn, Users(entry) = {}, ~destroyed
               PROVE  entry \in eviction
    BY DEF IdleIsTimed
  <2>1. refCount[entry] \in Nat /\ refCount[entry] <= 0
    BY FS_EmptySet DEF IInv, TypeOK, AtMostUsers
  <2> QED  BY <2>1 DEF IInv, ZeroIsTimed
<1> QED  BY <1>1, IInvHolds, PTL

\* Until two cold acquires overlap, the entry counts exactly the dispatches
\* that use it, and nobody uses another connection.
THEOREM CountsExact == Spec => []CountExact
<1>1. IInv => CountExact
  BY DEF IInv, OnlyPooled, CountExact
<1> QED  BY <1>1, IInvHolds, PTL

-----------------------------------------------------------------------------
(***************************************************************************)
(* A connection.  The handshake decides which sockets there are and what a *)
(* challenge or a connect request can still change; requests are made only *)
(* after it.  So a run that is under way at the gateway, while the socket  *)
(* is open, is pending here, unless its request has timed out.             *)
(***************************************************************************)

\* Where connect() stands, and how many sockets it has opened by then.
Handshaking ==
    /\ awaiting = "new" => last = 0
    /\ awaiting \in {"opening", "challenging", "authorizing"} => last = 1
    /\ inTry => last \in 1..2
    /\ sock \in {0, last}
    /\ awaiting \in Opening => Current("connecting")
    /\ challenge = "pending" => awaiting \in Opening \cup {"challenging", "rechallenging"}

\* A run at the gateway, and what became of its request.
RunsKnown ==
    /\ awaiting # "up" => \A r \in Req : reply[r] = "none"
    /\ \A r \in Req : reply[r] = "none" => gateway[r] = "idle"
    /\ \A r \in Req : gateway[r] = "running" => reply[r] \in {"waiting", "timeout", "closed", "other"}
    /\ Current("open") => \A r \in Req : reply[r] # "closed"

ConnInv ==
    /\ ConnTypeOK /\ Handshaking /\ OneSocket
    /\ PendingExact /\ RunsKnown /\ OwnAnswer

-----------------------------------------------------------------------------
(* The handshake and the sockets.                                          *)

\* The part of the invariant that the handshake keeps by itself.
ConnSound == ConnTypeOK /\ Handshaking /\ OneSocket

\* The waits of connect() in their order.
LEMMA AfterFacts ==
    /\ After["opening"] = "challenging" /\ After["challenging"] = "authorizing"
    /\ After["reopening"] = "rechallenging" /\ After["rechallenging"] = "reauthorizing"
  BY DEF After

\* Rejecting what is pending keeps the types.
LEMMA RejectFacts ==
    ASSUME ConnTypeOK, RejectAllPending
    PROVE  /\ pending' = {}
           /\ reply' \in [Req -> {"none", "waiting", "own", "other", "refused", "error", "timeout", "closed"}]
           /\ \A r \in Req : reply'[r] = IF r \in pending THEN "closed" ELSE reply[r]
  BY DEF RejectAllPending, ConnTypeOK

\* Every step keeps it.
LEMMA ConnSoundStep ==
    ASSUME ConnSound, [ConnNext]_connVars
    PROVE  ConnSound'
<1>1. CASE Connect
  BY <1>1
     DEF Connect, Open, ConnSound, ConnTypeOK, Handshaking, OneSocket, Current,
         Opening, Authorizing, Over, Sockets
<1>2. CASE OpenSucceeds
  BY <1>2, AfterFacts
     DEF OpenSucceeds, Fail, ConnSound, ConnTypeOK, Handshaking, OneSocket,
         Current, Opening, Authorizing, Over, Sockets
<1>3. CASE OpenFails
  BY <1>3
     DEF OpenFails, Fail, ConnSound, ConnTypeOK, Handshaking, OneSocket, Current,
         Opening, Authorizing, Over, Sockets
<1>4. CASE ChallengeArrives
  BY <1>4, AfterFacts
     DEF ChallengeArrives, ConnSound, ConnTypeOK, Handshaking, OneSocket, Current,
         Opening, Authorizing, Over, Sockets
<1>5. CASE ChallengeTimesOut
  BY <1>5
     DEF ChallengeTimesOut, Fail, ConnSound, ConnTypeOK, Handshaking, OneSocket,
         Current, Opening, Authorizing, Over, Sockets
<1>6. CASE Authorized
  BY <1>6
     DEF Authorized, ConnSound, ConnTypeOK, Handshaking, OneSocket, Current,
         Opening, Authorizing, Over, Sockets
<1>7. CASE ScopeMissing
  BY <1>7, RejectFacts
     DEF ScopeMissing, Reconnect, Open, ConnSound, ConnTypeOK, Handshaking,
         OneSocket, Current, Opening, Authorizing, Over, Sockets
<1>8. CASE PairingRequired
  <2>1. last \in 1..2 /\ sock = last /\ ws[sock] = "open"
    BY <1>8
       DEF PairingRequired, ConnSound, ConnTypeOK, Handshaking, OneSocket, Current,
           Opening, Authorizing, Over, Sockets
  <2>2. inTry' = FALSE
    BY <1>8 DEF PairingRequired, Reconnect
  <2>3. /\ awaiting' = "reopening" /\ last' = last + 1 /\ sock' = last'
        /\ challenge' = "pending" /\ gateway' = gateway /\ RejectAllPending
        /\ ws' = [ws EXCEPT ![sock] = "closed", ![last'] = "connecting"]
    BY <1>8 DEF PairingRequired, Reconnect, Open
  <2>4. ConnTypeOK'
    <3>1. last' \in 0..3 /\ last' \in Sockets /\ sock' \in 0..last'
      BY <2>1, <2>3 DEF Sockets
    <3>2. ws' \in [Sockets -> {"none", "connecting", "open", "closing", "closed"}]
      BY <2>3, <3>1 DEF ConnSound, ConnTypeOK
    <3>3. pending' = {} /\ reply' \in [Req -> {"none", "waiting", "own", "other", "refused",
                                              "error", "timeout", "closed"}]
      BY <2>3, RejectFacts DEF ConnSound
    <3> QED  BY <2>2, <2>3, <3>1, <3>2, <3>3 DEF ConnSound, ConnTypeOK, Opening
  <2>5. Handshaking'
    BY <2>1, <2>2, <2>3
       DEF ConnSound, ConnTypeOK, Handshaking, Current, Opening, Sockets
  <2>6. OneSocket'
    BY <2>1, <2>3 DEF ConnSound, ConnTypeOK, OneSocket, Sockets
  <2> QED  BY <2>4, <2>5, <2>6 DEF ConnSound
<1>9. CASE ConnectRefused
  BY <1>9
     DEF ConnectRefused, Fail, ConnSound, ConnTypeOK, Handshaking, OneSocket,
         Current, Opening, Authorizing, Over, Sockets
<1>10. CASE SocketDrops
  BY <1>10
     DEF SocketDrops, ConnSound, ConnTypeOK, Handshaking, OneSocket, Current,
         Opening, Authorizing, Over, Sockets
<1>11. CASE CloseListener
  BY <1>11, RejectFacts
     DEF CloseListener, Fail, ConnSound, ConnTypeOK, Handshaking, OneSocket, Current,
         Opening, Authorizing, Over, Sockets
<1>12. CASE Close
  BY <1>12, RejectFacts
     DEF Close, ConnSound, ConnTypeOK, Handshaking, OneSocket, Current, Opening,
         Authorizing, Over, Sockets
<1>13. ASSUME NEW r \in Req, Request(r) PROVE ConnSound'
  BY <1>13
     DEF Request, ConnSound, ConnTypeOK, Handshaking, OneSocket, Current, Opening,
         Authorizing, Over, Sockets
<1>14. ASSUME NEW r \in Req, RequestTimesOut(r) PROVE ConnSound'
  BY <1>14
     DEF RequestTimesOut, Settle, ConnSound, ConnTypeOK, Handshaking, OneSocket,
         Current, Opening, Authorizing, Over, Sockets
<1>15. ASSUME NEW r \in Req, AgentEvent(r) PROVE ConnSound'
  BY <1>15
     DEF AgentEvent, Settle, Sole, ConnSound, ConnTypeOK, Handshaking, OneSocket,
         Current, Opening, Authorizing, Over, Sockets
<1>16. ASSUME NEW r \in Req, Response(r) PROVE ConnSound'
  BY <1>16
     DEF Response, Settle, ConnSound, ConnTypeOK, Handshaking, OneSocket, Current,
         Opening, Authorizing, Over, Sockets
<1>17. CASE UNCHANGED connVars
  BY <1>17
     DEF connVars, ConnSound, ConnTypeOK, Handshaking, OneSocket, Current, Opening,
         Authorizing, Over, Sockets
<1> QED  BY <1>1, <1>2, <1>3, <1>4, <1>5, <1>6, <1>7, <1>8, <1>9, <1>10, <1>11, <1>12, <1>13, <1>14, <1>15, <1>16, <1>17
   DEF ConnNext, Handshake

-----------------------------------------------------------------------------
(* Requests and their answers.                                             *)

\* The invariant holds at the start.
LEMMA ConnStarts == ConnInit => ConnInv
<1> SUFFICES ASSUME ConnInit PROVE ConnInv
  OBVIOUS
<1>1. ConnTypeOK
  <2>1. awaiting \in Opening \cup Authorizing \cup Over \cup {"new", "challenging", "rechallenging"}
    BY DEF ConnInit
  <2>2. last \in 0..3 /\ sock \in 0..last
    BY DEF ConnInit
  <2>3. ws \in [Sockets -> {"none", "connecting", "open", "closing", "closed"}]
    BY DEF ConnInit
  <2> QED  BY <2>1, <2>2, <2>3 DEF ConnInit, ConnTypeOK
<1>2. Handshaking /\ OneSocket
  BY DEF ConnInit, Handshaking, OneSocket, Opening, Sockets
<1>3. PendingExact /\ RunsKnown /\ OwnAnswer
  BY DEF ConnInit, PendingExact, RunsKnown, OwnAnswer, Authorizing
<1> QED  BY <1>1, <1>2, <1>3 DEF ConnInv

\* A step of connect() happens before any request is made.
LEMMA NoRequestYet ==
    ASSUME ConnInv, awaiting # "up"
    PROVE  /\ \A r \in Req : reply[r] = "none" /\ gateway[r] = "idle"
           /\ pending \subseteq {"connect"}
  BY DEF ConnInv, ConnTypeOK, PendingExact, RunsKnown

\* So it keeps what is said of requests, if it treats its own one right.
LEMMA EarlyStep ==
    ASSUME ConnInv, awaiting # "up", UNCHANGED gateway,
           \A r \in Req : reply'[r] = reply[r] /\ r \notin pending',
           "connect" \in pending' <=> awaiting' \in Authorizing
    PROVE  PendingExact' /\ RunsKnown' /\ OwnAnswer'
  BY NoRequestYet DEF PendingExact, RunsKnown, OwnAnswer, Current

\* Rejecting everything that is pending leaves no caller waiting; it happens
\* when the current socket is not open any more.
LEMMA RejectStep ==
    ASSUME ConnInv, awaiting = "up", awaiting' = "up", RejectAllPending, UNCHANGED gateway, ~Current("open")'
    PROVE  PendingExact' /\ RunsKnown' /\ OwnAnswer'
<1>1. /\ pending' = {}
      /\ \A r \in Req : reply'[r] = IF reply[r] = "waiting" THEN "closed" ELSE reply[r]
  BY RejectFacts DEF ConnInv, PendingExact
<1>2. PendingExact'
  BY <1>1 DEF PendingExact, Authorizing
<1>3. RunsKnown'
  BY <1>1 DEF ConnInv, RunsKnown
<1>4. OwnAnswer'
  BY <1>1 DEF ConnInv, OwnAnswer
<1> QED  BY <1>2, <1>3, <1>4

\* The request of r is settled with s, not with a wrong answer.
LEMMA SettleStep ==
    ASSUME ConnInv, NEW r \in pending \cap Req, NEW s \in {"own", "error", "timeout"},
           awaiting' = awaiting, Settle(r, s),
           gateway' = gateway \/ \E t \in {"announced", "done"} : gateway' = [gateway EXCEPT ![r] = t],
           gateway' = gateway => s = "timeout", Current("open")' = Current("open")
    PROVE  PendingExact' /\ RunsKnown' /\ OwnAnswer'
<1>1. /\ reply[r] = "waiting" /\ reply'[r] = s /\ awaiting = "up"
      /\ \A q \in Req \ {r} : reply'[q] = reply[q] /\ gateway'[q] = gateway[q]
  BY DEF ConnInv, ConnTypeOK, PendingExact, RunsKnown, Settle
<1>2. PendingExact'
  BY <1>1, RequestAssumption DEF ConnInv, PendingExact, Settle
<1>3. s # "timeout" => gateway'[r] \in {"announced", "done"}
  BY DEF ConnInv, ConnTypeOK
<1>4. RunsKnown'
  BY <1>1, <1>3 DEF ConnInv, RunsKnown
<1>5. OwnAnswer'
  BY <1>1 DEF ConnInv, OwnAnswer
<1> QED  BY <1>2, <1>4, <1>5

\* The event of the run of r goes to the sole request, which is r's own unless
\* r's has timed out.
LEMMA AgentEventStep ==
    ASSUME ConnInv, NEW r \in Req, AgentEvent(r)
    PROVE  PendingExact' /\ RunsKnown' /\ OwnAnswer'
<1>1. /\ Current("open")' = Current("open") /\ awaiting' = awaiting
      /\ gateway' = [gateway EXCEPT ![r] = "announced"] /\ gateway[r] = "running"
      /\ reply[r] \in {"waiting", "timeout", "other"} /\ awaiting = "up"
  BY DEF AgentEvent, Current, ConnInv, RunsKnown
<1>2. CASE UNCHANGED <<pending, reply>>
  BY <1>1, <1>2 DEF ConnInv, ConnTypeOK, PendingExact, RunsKnown, OwnAnswer
<1>3. ASSUME NEW p \in Req, Sole(p), Settle(p, IF p = r THEN "own" ELSE "other")
      PROVE  PendingExact' /\ RunsKnown' /\ OwnAnswer'
  <2>1. p \in pending \cap Req
    BY <1>3 DEF Sole
  <2>2. CASE p = r
    <3>1. gateway' # gateway /\ Settle(r, "own")
      BY <1>1, <1>3, <2>2 DEF ConnInv, ConnTypeOK
    <3> QED  BY <1>1, <2>1, <2>2, <3>1, SettleStep
  <2>3. CASE p # r
    <3>1. reply[r] # "waiting"
      BY <1>3, <2>3 DEF Sole, ConnInv, PendingExact
    <3>2. \E q \in Req : reply[q] = "timeout"
      BY <1>1, <3>1 DEF ConnInv, OwnAnswer
    <3>3. /\ reply'[p] = "other" /\ reply[p] = "waiting"
          /\ \A q \in Req \ {p} : reply'[q] = reply[q]
          /\ pending' = pending \ {p}
      BY <1>3, <2>1, <2>3 DEF Settle, ConnInv, ConnTypeOK, PendingExact
    <3>4. PendingExact'
      BY <1>1, <3>3, RequestAssumption DEF ConnInv, PendingExact
    <3>5. RunsKnown'
      BY <1>1, <3>3 DEF ConnInv, ConnTypeOK, RunsKnown
    <3>6. OwnAnswer'
      BY <3>2, <3>3 DEF OwnAnswer
    <3> QED  BY <3>4, <3>5, <3>6
  <2> QED  BY <2>2, <2>3
<1> QED  BY <1>2, <1>3 DEF AgentEvent

-----------------------------------------------------------------------------
(* The invariant is inductive.                                             *)

\* Every step keeps what is said of requests.
LEMMA RequestsStep ==
    ASSUME ConnInv, [ConnNext]_connVars
    PROVE  PendingExact' /\ RunsKnown' /\ OwnAnswer'
<1> DEFINE Goal == PendingExact' /\ RunsKnown' /\ OwnAnswer'
<1>1. CASE Connect
  BY <1>1, EarlyStep, NoRequestYet
     DEF Connect, Open, ConnInv, PendingExact, Authorizing
<1>2. CASE OpenSucceeds
  BY <1>2, EarlyStep, NoRequestYet, AfterFacts
     DEF OpenSucceeds, Fail, ConnInv, PendingExact, Opening, Authorizing
<1>3. CASE OpenFails
  BY <1>3, EarlyStep, NoRequestYet
     DEF OpenFails, Fail, ConnInv, PendingExact, Opening, Authorizing
<1>4. CASE ChallengeArrives
  <2>1. awaiting \in {"challenging", "rechallenging"}
    BY <1>4 DEF ChallengeArrives, ConnInv, Handshaking, Current
  <2> QED  BY <1>4, <2>1, EarlyStep, NoRequestYet, RequestAssumption, AfterFacts
              DEF ConnInv, ChallengeArrives, Authorizing
<1>5. CASE ChallengeTimesOut
  <2>1. awaiting \in Opening \cup {"challenging", "rechallenging"}
    BY <1>5 DEF ChallengeTimesOut, ConnInv, Handshaking
  <2> QED  BY <1>5, <2>1, EarlyStep, NoRequestYet
              DEF ChallengeTimesOut, Fail, ConnInv, PendingExact, Opening, Authorizing
<1>6. CASE Authorized
  BY <1>6, EarlyStep, NoRequestYet DEF Authorized, Authorizing
<1>7. CASE ScopeMissing \/ PairingRequired
  <2>1. awaiting # "up" /\ awaiting' = "reopening" /\ RejectAllPending /\ UNCHANGED gateway
    BY <1>7 DEF ScopeMissing, PairingRequired, Reconnect, Open, Authorizing
  <2> QED  BY <2>1, EarlyStep, NoRequestYet, RequestAssumption, RejectFacts DEF ConnInv, Authorizing
<1>8. CASE ConnectRefused
  BY <1>8, EarlyStep, NoRequestYet DEF ConnectRefused, Fail, Authorizing
<1>9. CASE SocketDrops
  BY <1>9
     DEF SocketDrops, Current, ConnInv, ConnTypeOK, PendingExact, RunsKnown,
         OwnAnswer
<1>10. CASE CloseListener
  <2>1. RejectAllPending /\ UNCHANGED <<gateway, sock>> /\ ~Current("open")'
    BY <1>10 DEF CloseListener, Fail, Current, ConnInv, ConnTypeOK
  <2>2. CASE awaiting = "up"
    BY <1>10, <2>1, <2>2, RejectStep DEF CloseListener, Over
  <2>3. CASE awaiting # "up"
    <3>1. awaiting' = "failed"
      BY <1>10, <2>3 DEF CloseListener, Fail, Over
    <3> QED  BY <2>1, <2>3, <3>1, EarlyStep, NoRequestYet, RequestAssumption, RejectFacts
                DEF ConnInv, Authorizing
  <2> QED  BY <2>2, <2>3
<1>11. CASE Close
  BY <1>11, RejectStep DEF Close, Current
<1>12. ASSUME NEW r \in Req, Request(r) PROVE Goal
  BY <1>12, RequestAssumption
     DEF Request, Current, ConnInv, ConnTypeOK, PendingExact, RunsKnown, OwnAnswer
<1>13. ASSUME NEW r \in Req, RequestTimesOut(r) PROVE Goal
  BY <1>13, SettleStep DEF RequestTimesOut, Current
<1>14. ASSUME NEW r \in Req, AgentEvent(r) PROVE Goal
  BY <1>14, AgentEventStep
<1>15. ASSUME NEW r \in Req, Response(r) PROVE Goal
  <2>1. CASE r \in pending
    <3>1. /\ gateway' = [gateway EXCEPT ![r] = "done"] /\ gateway' # gateway
          /\ awaiting' = awaiting /\ Current("open")' = Current("open")
      BY <1>15 DEF Response, Current, ConnInv, ConnTypeOK
    <3>2. PICK s \in {"own", "error"} : Settle(r, s)
      BY <1>15, <2>1 DEF Response
    <3> QED  BY <2>1, <3>1, <3>2, SettleStep
  <2>2. CASE r \notin pending
    BY <1>15, <2>2
       DEF Response, Current, ConnInv, ConnTypeOK, PendingExact, RunsKnown,
           OwnAnswer
  <2> QED  BY <2>1, <2>2
<1>16. CASE UNCHANGED connVars
  BY <1>16 DEF connVars, Current, ConnInv, PendingExact, RunsKnown, OwnAnswer
<1> QED  BY <1>1, <1>2, <1>3, <1>4, <1>5, <1>6, <1>7, <1>8, <1>9, <1>10, <1>11, <1>12,
            <1>13, <1>14, <1>15, <1>16 DEF ConnNext, Handshake

\* So every step keeps the invariant.
LEMMA ConnKept == ConnInv /\ [ConnNext]_connVars => ConnInv'
  BY ConnSoundStep, RequestsStep DEF ConnInv, ConnSound

-----------------------------------------------------------------------------
(* Theorems.                                                               *)

\* IInv holds throughout.
LEMMA ConnInvHolds == ConnSpec => []ConnInv
<1>1. ConnInit => ConnInv
  BY ConnStarts
<1> QED  BY <1>1, ConnKept, PTL DEF ConnSpec

\* The variables keep their types: connect() opens three sockets at most.
THEOREM ConnTypeCorrect == ConnSpec => []ConnTypeOK
<1>1. ConnInv => ConnTypeOK
  BY DEF ConnInv
<1> QED  BY <1>1, ConnInvHolds, PTL

\* reconnect() leaves no socket behind.
THEOREM NoSocketLeft == ConnSpec => []OneSocket
<1>1. ConnInv => OneSocket
  BY DEF ConnInv
<1> QED  BY <1>1, ConnInvHolds, PTL

\* The request map holds exactly the requests whose caller waits.
THEOREM MapExact == ConnSpec => []PendingExact
<1>1. ConnInv => PendingExact
  BY DEF ConnInv
<1> QED  BY <1>1, ConnInvHolds, PTL

\* A request is settled by its own answer, as long as none has timed out.
THEOREM AnswersOwn == ConnSpec => []OwnAnswer
<1>1. ConnInv => OwnAnswer
  BY DEF ConnInv
<1> QED  BY <1>1, ConnInvHolds, PTL
=============================================================================
