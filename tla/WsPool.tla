------------------------------- MODULE WsPool -------------------------------
(***************************************************************************)
(* GatewayRpcConnectionPool (src/src/executor.ts) as the dispatches of the *)
(* agent executor use it: acquire, requests on the connection, release.    *)
(* The pool treats its keys independently, so there is one key here, and   *)
(* the pool is at most one entry.  connect() and the requests themselves   *)
(* are GatewayConnection's subject.                                        *)
(***************************************************************************)
EXTENDS Integers, FiniteSets

CONSTANTS
    Call,                  \* the dispatches
    NoConn,                \* no entry
    MaxReconnectAttempts   \* maxReconnectAttempts, 2 in the code

ASSUME PoolAssumption ==
    /\ IsFiniteSet(Call) /\ NoConn \notin Call
    /\ MaxReconnectAttempts \in Nat

\* A dispatch opens one connection at most: connections are named after the
\* dispatch that opened them.
Conn == Call

VARIABLES
    entry,       \* pool.get(key): the connection of the pooled entry
    refCount,    \* entry.refCount, of each connection that was ever pooled
    heartbeat,   \* the connections whose entry has a heartbeat interval
    eviction,    \* the connections whose entry has an eviction timeout
    socket,      \* the socket of each connection
    stage,       \* how far each dispatch is
    uses,        \* the connection acquire() returned to it
    attempt,     \* the attempt of createAndConnect
    destroyed,
    overwritten  \* history: has acquire() replaced an entry it did not see?

timers == <<heartbeat, eviction>>
vars == <<entry, refCount, timers, socket, stage, uses, attempt, destroyed, overwritten>>

\* "rejected": a request was rejected with the connection, and the finally
\* block, a microtask, is due.
Stages == {"idle", "connecting", "using", "rejected", "done"}

Init ==
    /\ entry = NoConn /\ refCount = [k \in Conn |-> 0]
    /\ heartbeat = {} /\ eviction = {}
    /\ socket = [k \in Conn |-> "unused"]
    /\ stage = [c \in Call |-> "idle"]
    /\ uses = [c \in Call |-> NoConn]
    /\ attempt = [c \in Call |-> 0]
    /\ destroyed = FALSE /\ overwritten = FALSE

Users(k) == {c \in Call : stage[c] \in {"using", "rejected"} /\ uses[c] = k}

\* Microtasks run before the next message, timer or call.
MicrotasksDone == \A c \in Call : stage[c] # "rejected"

-----------------------------------------------------------------------------
(* Helpers.                                                                *)

\* The connection goes down, which rejects the requests pending on it.
GoesDown(k) ==
    /\ socket' = [socket EXCEPT ![k] = "closed"]
    /\ stage' = [c \in Call |-> IF stage[c] = "using" /\ uses[c] = k THEN "rejected" ELSE stage[c]]

\* evictConnection(k): deletes whatever entry the key has now.
EvictConnection(k) ==
    /\ heartbeat' = heartbeat \ {k} /\ eviction' = eviction \ {k}
    /\ GoesDown(k)
    /\ entry' = NoConn

\* Math.max(0, refCount - 1)
Released(n) == IF n > 0 THEN n - 1 ELSE 0

\* Mutant: a reused connection is not counted.
Acquired_NotCounted(n) == n

Acquired(n) == n + 1

\* Mutant: the idle entry gets a heartbeat but no eviction timeout.
BecomesIdle_Untimed(k) == heartbeat' = heartbeat \cup {k} /\ UNCHANGED eviction

\* startHeartbeat and resetEviction.
BecomesIdle(k) == heartbeat' = heartbeat \cup {k} /\ eviction' = eviction \cup {k}

-----------------------------------------------------------------------------
(* acquire().                                                              *)

Healthy == entry # NoConn /\ socket[entry] = "open"

AcquireRefused(c) ==
    /\ stage[c] = "idle" /\ destroyed
    /\ stage' = [stage EXCEPT ![c] = "done"]
    /\ UNCHANGED <<entry, refCount, timers, socket, uses, attempt, destroyed, overwritten>>

\* The eviction timeout is left running; its callback looks at refCount.
AcquireHot(c) ==
    /\ stage[c] = "idle" /\ ~destroyed /\ Healthy
    /\ refCount' = [refCount EXCEPT ![entry] = Acquired(@)]
    /\ heartbeat' = heartbeat \ {entry}
    /\ stage' = [stage EXCEPT ![c] = "using"]
    /\ uses' = [uses EXCEPT ![c] = entry]
    /\ UNCHANGED <<entry, eviction, socket, attempt, destroyed, overwritten>>

\* No entry, or a dead one, which is evicted in the same run of acquire().
AcquireCold(c) ==
    /\ stage[c] = "idle" /\ ~destroyed /\ entry = NoConn
    /\ stage' = [stage EXCEPT ![c] = "connecting"]
    /\ UNCHANGED <<entry, refCount, timers, socket, uses, attempt, destroyed, overwritten>>

AcquireDead(c) ==
    /\ stage[c] = "idle" /\ ~destroyed /\ entry # NoConn /\ ~Healthy
    /\ heartbeat' = heartbeat \ {entry} /\ eviction' = eviction \ {entry}
    /\ socket' = [socket EXCEPT ![entry] = "closed"]
    /\ stage' = [d \in Call |-> IF d = c THEN "connecting"
                                ELSE IF d \in Users(entry) THEN "rejected" ELSE stage[d]]
    /\ entry' = NoConn
    /\ UNCHANGED <<refCount, uses, attempt, destroyed, overwritten>>

\* createAndConnect returned: the new entry goes into the pool, whatever is
\* there by now, and even if the pool was destroyed in the meantime.
Connected(c) ==
    /\ stage[c] = "connecting"
    /\ socket' = [socket EXCEPT ![c] = "open"]
    /\ entry' = c
    /\ refCount' = [refCount EXCEPT ![c] = 1]
    /\ overwritten' = (overwritten \/ entry # NoConn)
    /\ stage' = [stage EXCEPT ![c] = "using"]
    /\ uses' = [uses EXCEPT ![c] = c]
    /\ UNCHANGED <<timers, attempt, destroyed>>

ConnectFails(c) ==
    /\ stage[c] = "connecting"
    /\ IF attempt[c] < MaxReconnectAttempts
       THEN attempt' = [attempt EXCEPT ![c] = @ + 1] /\ UNCHANGED stage
       ELSE stage' = [stage EXCEPT ![c] = "done"] /\ UNCHANGED attempt
    /\ UNCHANGED <<entry, refCount, timers, socket, uses, destroyed, overwritten>>

-----------------------------------------------------------------------------
(* release(), in the finally block of the dispatch: answered, timed out or *)
(* rejected.  It goes by the key, not by the connection that was acquired. *)

Release(c) ==
    /\ stage[c] = "rejected" \/ (stage[c] = "using" /\ MicrotasksDone)
    /\ stage' = [stage EXCEPT ![c] = "done"]
    /\ IF destroyed \/ entry = NoConn THEN UNCHANGED <<refCount, timers>>
       ELSE /\ refCount' = [refCount EXCEPT ![entry] = Released(@)]
            /\ IF refCount'[entry] = 0 THEN BecomesIdle(entry) ELSE UNCHANGED timers
    /\ UNCHANGED <<entry, socket, uses, attempt, destroyed, overwritten>>

-----------------------------------------------------------------------------
(* Timers, the network, destroy().                                         *)

EvictionFires(k) ==
    /\ k \in eviction
    /\ IF refCount[k] = 0 THEN EvictConnection(k)
       ELSE eviction' = eviction \ {k} /\ UNCHANGED <<heartbeat, socket, stage, entry>>
    /\ UNCHANGED <<refCount, uses, attempt, destroyed, overwritten>>

\* On an open socket a heartbeat is a request nobody waits for.
HeartbeatFinds(k) ==
    /\ k \in heartbeat /\ socket[k] # "open"
    /\ heartbeat' = heartbeat \ {k}
    /\ UNCHANGED <<entry, refCount, eviction, socket, stage, uses, attempt, destroyed, overwritten>>

\* The socket is no longer open; its close event comes later.
SocketBreaks(k) ==
    /\ socket[k] = "open"
    /\ socket' = [socket EXCEPT ![k] = "closing"]
    /\ UNCHANGED <<entry, refCount, timers, stage, uses, attempt, destroyed, overwritten>>

CloseEvent(k) ==
    /\ socket[k] = "closing"
    /\ GoesDown(k)
    /\ UNCHANGED <<entry, refCount, timers, uses, attempt, destroyed, overwritten>>

Destroy ==
    /\ ~destroyed
    /\ destroyed' = TRUE
    /\ IF entry = NoConn THEN UNCHANGED <<entry, timers, socket, stage>>
       ELSE EvictConnection(entry)
    /\ UNCHANGED <<refCount, uses, attempt, overwritten>>

Connecting(c) == Connected(c) \/ ConnectFails(c)

Next ==
    \/ \E c \in Call : Release(c)
    \/ /\ MicrotasksDone
       /\ \/ \E c \in Call : \/ AcquireRefused(c) \/ AcquireHot(c) \/ AcquireCold(c)
                             \/ AcquireDead(c) \/ Connecting(c)
          \/ \E k \in Conn : \/ EvictionFires(k) \/ HeartbeatFinds(k)
                             \/ SocketBreaks(k) \/ CloseEvent(k)
          \/ Destroy

Spec == Init /\ [][Next]_vars

(***************************************************************************)
(* Attempts to connect and requests have timers, timeouts fire, and a      *)
(* socket that is closing closes.                                          *)
(***************************************************************************)
Fairness ==
    /\ \A c \in Call : WF_vars(MicrotasksDone /\ Connecting(c)) /\ WF_vars(Release(c))
    /\ \A k \in Conn : /\ WF_vars(MicrotasksDone /\ EvictionFires(k))
                       /\ WF_vars(MicrotasksDone /\ CloseEvent(k))

FairSpec == Spec /\ Fairness

-----------------------------------------------------------------------------
(* Properties.                                                             *)

TypeOK ==
    /\ entry \in Conn \cup {NoConn}
    /\ refCount \in [Conn -> Nat]
    /\ heartbeat \subseteq Conn /\ eviction \subseteq Conn
    /\ socket \in [Conn -> {"unused", "open", "closing", "closed"}]
    /\ stage \in [Call -> Stages]
    /\ uses \in [Call -> Conn \cup {NoConn}]
    /\ attempt \in [Call -> 0..MaxReconnectAttempts]
    /\ destroyed \in BOOLEAN /\ overwritten \in BOOLEAN

\* An entry nobody uses has its eviction timeout running: it is not kept for
\* ever, with its socket, because its last release went to another entry or
\* because the timeout fired while it was in use.
IdleIsTimed ==
    entry # NoConn /\ Users(entry) = {} /\ ~destroyed => entry \in eviction

\* As long as no two cold acquires overlapped, the count is exact: every live
\* dispatch uses the pooled connection and is counted there.
CountExact == ~overwritten /\ ~destroyed /\ entry # NoConn =>
    /\ refCount[entry] = Cardinality(Users(entry))
    /\ \A c \in Call : stage[c] = "using" => uses[c] = entry

\* As long as no two cold acquires overlapped, no socket is left open for ever:
\* each belongs to the pool's entry, whose timeout closes it once it is idle.
SocketsClose == [](~overwritten /\ ~destroyed) =>
    \A k \in Conn : socket[k] = "open" ~> socket[k] # "open"
=============================================================================
