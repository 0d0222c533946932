------------------------- MODULE GatewayConnection -------------------------
(***************************************************************************)
(* GatewayRpcConnection (src/src/executor.ts): one connection to the       *)
(* OpenClaw gateway, from connect() with its challenge, device handshake   *)
(* and reconnect() without device identity, to the agent requests of the   *)
(* dispatches that share it, and close().                                  *)
(*                                                                         *)
(* What a message, timer or socket event makes the code do, microtasks     *)
(* included, is one action.  The gateway and the network choose freely.    *)
(***************************************************************************)
EXTENDS Integers, FiniteSets

CONSTANTS Req            \* the agent requests made on the connection

ASSUME RequestAssumption == "connect" \notin Req   \* that one is connect()'s own

Sockets == 1..3          \* connect() opens one, reconnect() may run twice

VARIABLES
    awaiting,    \* what connect() waits for
    inTry,       \* would an error now be caught by the try block of connect()?
    sock,        \* this.socket: the number of the current socket, 0 for null
    last,        \* how many sockets were opened
    ws,          \* the state of each socket
    challenge,   \* the promise of awaitConnectChallenge; its resolver, rejecter
                 \* and timer are set while it is pending
    pending,     \* this.pending: the requests in flight, "connect" among them
    reply,       \* what became of each agent request
    gateway      \* what the gateway has done for each agent request

connVars == <<awaiting, inTry, sock, last, ws, challenge, pending, reply, gateway>>

Opening     == {"opening", "reopening"}
Authorizing == {"authorizing", "reauthorizing"}
Over        == {"up", "failed"}

ConnInit ==
    /\ awaiting = "new" /\ inTry = FALSE
    /\ sock = 0 /\ last = 0
    /\ ws = [i \in Sockets |-> "none"]
    /\ challenge = "none"
    /\ pending = {} /\ reply = [r \in Req |-> "none"]
    /\ gateway = [r \in Req |-> "idle"]

\* The next wait of connect(), or of reconnect() called from it.
After == [opening   |-> "challenging",   challenging   |-> "authorizing",
          reopening |-> "rechallenging", rechallenging |-> "reauthorizing"]

Current(state) == sock # 0 /\ ws[sock] = state

\* Mutants: the requests are forgotten, not rejected; or nothing happens.
RejectAllPending_Clears == pending' = {} /\ UNCHANGED reply
RejectAllPending ==
    /\ pending' = {}
    /\ reply' = [r \in Req |-> IF r \in pending THEN "closed" ELSE reply[r]]

\* A new socket, with listeners, and awaitConnectChallenge().
Open(next) ==
    /\ awaiting' = next
    /\ last' = last + 1 /\ sock' = last'
    /\ challenge' = "pending"

\* connect() or reconnect() throws: its socket is not closed.
Fail == awaiting' = "failed" /\ UNCHANGED <<inTry, sock, last>>

-----------------------------------------------------------------------------
(* connect() and reconnect().                                              *)

Connect ==
    /\ awaiting = "new"
    /\ Open("opening")
    /\ ws' = [ws EXCEPT ![last'] = "connecting"]
    /\ UNCHANGED <<inTry, pending, reply, gateway>>

\* The challenge may have been given up by now.
OpenSucceeds ==
    /\ awaiting \in Opening /\ Current("connecting")
    /\ ws' = [ws EXCEPT ![sock] = "open"]
    /\ IF challenge = "rejected" THEN Fail
       ELSE awaiting' = After[awaiting] /\ UNCHANGED <<inTry, sock, last>>
    /\ UNCHANGED <<challenge, pending, reply, gateway>>

\* The error, close or timeout of the open; on a timeout the socket may still
\* open later, but nobody cares.
OpenFails ==
    /\ awaiting \in Opening /\ Current("connecting")
    /\ \E s \in {"closed", "connecting"} : ws' = [ws EXCEPT ![sock] = s]
    /\ challenge' = "rejected"
    /\ Fail
    /\ UNCHANGED <<pending, reply, gateway>>

\* The challenge event; the connect request goes out in the same turn.
ChallengeArrives ==
    /\ challenge = "pending" /\ Current("open")
    /\ challenge' = "resolved"
    /\ awaiting' = After[awaiting]
    /\ pending' = pending \cup {"connect"}
    /\ inTry' = (inTry \/ awaiting = "challenging")
    /\ UNCHANGED <<sock, last, ws, reply, gateway>>

\* The timer of two seconds; while the socket is still opening, nobody waits
\* for the promise it rejects (and the host had better handle that).
ChallengeTimesOut ==
    /\ challenge = "pending"
    /\ challenge' = "rejected"
    /\ IF awaiting \in Opening THEN UNCHANGED <<awaiting, inTry, sock, last>> ELSE Fail
    /\ UNCHANGED <<ws, pending, reply, gateway>>

\* The connect request is answered, and operator.write granted (or not told).
Authorized ==
    /\ awaiting \in Authorizing /\ Current("open")
    /\ awaiting' = "up" /\ inTry' = FALSE
    /\ pending' = pending \ {"connect"}
    /\ UNCHANGED <<sock, last, ws, challenge, reply, gateway>>

Reconnect_NoClose(caught) ==
    /\ Open("reopening")
    /\ inTry' = ~caught
    /\ ws' = [ws EXCEPT ![last'] = "connecting"]
    /\ RejectAllPending
    /\ UNCHANGED gateway

\* close() and a new socket.  After a silent downgrade reconnect() is called
\* in the try block, so that its own errors are caught there; after a pairing
\* error it is called in the catch block.
Reconnect(caught) ==
    /\ Open("reopening")
    /\ inTry' = ~caught
    /\ ws' = [ws EXCEPT ![sock] = "closed", ![last'] = "connecting"]
    /\ RejectAllPending
    /\ UNCHANGED gateway

ScopeMissing ==
    /\ awaiting = "authorizing" /\ Current("open")
    /\ Reconnect(FALSE)

PairingRequired ==
    /\ awaiting \in Authorizing /\ Current("open") /\ inTry
    /\ Reconnect(TRUE)

\* Any other error, a timeout, or no operator.write for reconnect() either.
ConnectRefused ==
    /\ awaiting \in Authorizing
    /\ Fail
    /\ pending' = pending \ {"connect"}
    /\ UNCHANGED <<ws, challenge, reply, gateway>>

-----------------------------------------------------------------------------
(* Agent requests: expectFinal, so that "accepted" is no answer.           *)

Request(r) ==
    /\ awaiting = "up" /\ reply[r] = "none"
    /\ IF Current("open")
       THEN /\ pending' = pending \cup {r}
            /\ reply' = [reply EXCEPT ![r] = "waiting"]
            /\ gateway' = [gateway EXCEPT ![r] = "running"]
       ELSE reply' = [reply EXCEPT ![r] = "refused"] /\ UNCHANGED <<pending, gateway>>
    /\ UNCHANGED <<awaiting, inTry, sock, last, ws, challenge>>

Settle(r, s) ==
    /\ pending' = pending \ {r}
    /\ reply' = [reply EXCEPT ![r] = s]

\* Mutant: the entry stays in the map.
RequestTimesOut_KeepsEntry(r) ==
    /\ r \in pending
    /\ reply' = [reply EXCEPT ![r] = "timeout"]
    /\ UNCHANGED <<awaiting, inTry, sock, last, ws, challenge, pending, gateway>>

RequestTimesOut(r) ==
    /\ r \in pending
    /\ Settle(r, "timeout")
    /\ UNCHANGED <<awaiting, inTry, sock, last, ws, challenge, gateway>>

\* Mutant: any number of requests may be pending.
Sole_First(p) == p \in pending \cap Req

Sole(p) == pending \cap Req = {p}

\* The final event of the run of r, which carries no request id: the pending
\* agent request gets it if there is exactly one.
AgentEvent(r) ==
    /\ Current("open") /\ gateway[r] = "running"
    /\ gateway' = [gateway EXCEPT ![r] = "announced"]
    /\ \/ \E p \in Req : Sole(p) /\ Settle(p, IF p = r THEN "own" ELSE "other")
       \/ ~(\E p \in Req : Sole(p)) /\ UNCHANGED <<pending, reply>>
    /\ UNCHANGED <<awaiting, inTry, sock, last, ws, challenge>>

\* The final response to r; an unknown id is ignored.
Response(r) ==
    /\ Current("open") /\ gateway[r] \in {"running", "announced"}
    /\ gateway' = [gateway EXCEPT ![r] = "done"]
    /\ IF r \in pending THEN \E s \in {"own", "error"} : Settle(r, s)
                        ELSE UNCHANGED <<pending, reply>>
    /\ UNCHANGED <<awaiting, inTry, sock, last, ws, challenge>>

-----------------------------------------------------------------------------
(* The end of the connection.                                              *)

\* The current socket is no longer open; its close event comes later.
SocketDrops ==
    /\ Current("open")
    /\ ws' = [ws EXCEPT ![sock] = "closing"]
    /\ UNCHANGED <<awaiting, inTry, sock, last, challenge, pending, reply, gateway>>

\* The close listener: whatever connect() waits for is rejected.
CloseListener ==
    /\ Current("closing")
    /\ ws' = [ws EXCEPT ![sock] = "closed"]
    /\ challenge' = IF challenge = "pending" THEN "rejected" ELSE challenge
    /\ RejectAllPending
    /\ IF awaiting \in Over THEN UNCHANGED <<awaiting, inTry, sock, last>> ELSE Fail
    /\ UNCHANGED gateway

\* close(), which only the pool calls, on a connection it has handed out.
Close ==
    /\ awaiting = "up" /\ sock # 0
    /\ sock' = 0
    /\ ws' = [ws EXCEPT ![sock] = "closed"]
    /\ RejectAllPending
    /\ UNCHANGED <<awaiting, inTry, last, challenge, gateway>>

Handshake == \/ OpenSucceeds \/ OpenFails \/ ChallengeArrives \/ ChallengeTimesOut
             \/ Authorized \/ ScopeMissing \/ PairingRequired \/ ConnectRefused

ConnNext ==
    \/ Connect \/ Handshake \/ SocketDrops \/ CloseListener \/ Close
    \/ \E r \in Req : Request(r) \/ RequestTimesOut(r) \/ AgentEvent(r) \/ Response(r)

ConnSpec == ConnInit /\ [][ConnNext]_connVars

(***************************************************************************)
(* Every wait of connect() and every request has a timer, and a socket     *)
(* that is closing closes.                                                 *)
(***************************************************************************)
ConnFairness ==
    /\ WF_connVars(OpenSucceeds \/ OpenFails) /\ WF_connVars(ChallengeTimesOut)
    /\ WF_connVars(ConnectRefused) /\ WF_connVars(CloseListener)
    /\ \A r \in Req : WF_connVars(RequestTimesOut(r))

ConnFairSpec == ConnSpec /\ ConnFairness

-----------------------------------------------------------------------------
(* Properties.                                                             *)

ConnTypeOK ==
    /\ awaiting \in Opening \cup Authorizing \cup Over \cup {"new", "challenging", "rechallenging"}
    /\ inTry \in BOOLEAN
    /\ last \in 0..3 /\ sock \in 0..last
    /\ ws \in [Sockets -> {"none", "connecting", "open", "closing", "closed"}]
    /\ challenge \in {"none", "pending", "resolved", "rejected"}
    /\ pending \subseteq Req \cup {"connect"}
    /\ reply \in [Req -> {"none", "waiting", "own", "other", "refused", "error", "timeout", "closed"}]
    /\ gateway \in [Req -> {"idle", "running", "announced", "done"}]

\* A request is in the map exactly as long as its promise is pending: none is
\* settled and kept, for a late frame to hit, or dropped with its caller waiting.
PendingExact ==
    /\ \A r \in Req : r \in pending <=> reply[r] = "waiting"
    /\ "connect" \in pending <=> awaiting \in Authorizing

\* An answer is that of the request it settles, as long as no request has
\* timed out: only then can a run be pending at the gateway and not here.
OwnAnswer ==
    (\A r \in Req : reply[r] # "timeout") => \A r \in Req : reply[r] # "other"

\* Every socket but the current one is closed: reconnect() leaves none behind.
OneSocket == \A i \in Sockets : i < last => ws[i] = "closed"

\* Every request is settled.
EveryRequestSettles == \A r \in Req : reply[r] = "waiting" ~> reply[r] # "waiting"
=============================================================================
