---------------------------- MODULE OutboundSend ----------------------------
(***************************************************************************)
(* Sends to one peer: A2AClient.sendMessage (src/src/client.ts) with the   *)
(* retries of withRetry (src/src/peer-retry.ts) around the fallback over   *)
(* the transports of the peer's Agent Card (src/src/transport-fallback.ts) *)
(* and the circuit breaker of PeerHealth around both.                      *)
(*                                                                         *)
(* Transports are numbered in their static priority.  Concurrent sends     *)
(* share the breaker and the statistics that order the transports.         *)
(***************************************************************************)
EXTENDS PeerHealth, Sequences, SequencesExt

CONSTANTS
    Transports,   \* how many there are: 1 is JSONRPC, 2 HTTP+JSON, 3 GRPC
    MaxRetries    \* resilience.retry.maxRetries

ASSUME SendAssumption == Transports \in Nat /\ MaxRetries \in Nat

VARIABLES
    stage,      \* per sender, what its send waits for
    card,       \* per sender, the transports of the Agent Card it resolved
    todo,       \* per sender, the transports of this attempt yet to fail
    attempt,    \* per sender, the loop variable of withRetry
    outcome,    \* per sender, "none", "ok" or the kind of error its last attempt ended with
    stats,      \* per transport, what TransportStats says of it
    works,      \* the transports of the peer that work while it is up
    authorized, \* does the peer accept the credentials?
    steady      \* history: sends whose attempt began, and went on, with the peer up

attemptVars  == <<stage, card, todo, attempt, outcome>>
env          == <<works, authorized>>
outboundVars == <<vars, attemptVars, stats, env, steady>>

Transport == 1..Transports

\* The errors of an attempt, by what isRetryableTransportError makes of them.
\* "connection": the message has one of its substrings (refused, reset, timed out,
\* unavailable, ...), or the transport is one that the client does not know.
\* "reply": an Error of the SDK whose message has none of them, as for a status 500,
\* 502 or 404 or a reply that does not parse.  "auth": the credentials are refused.
Error == {"connection", "reply", "auth"}

SendInit ==
    /\ Init
    /\ stage = [c \in Sender |-> "idle"]
    /\ card = [c \in Sender |-> {}]
    /\ todo = [c \in Sender |-> <<>>]
    /\ attempt = [c \in Sender |-> 0]
    /\ outcome = [c \in Sender |-> "none"]
    /\ stats = [t \in Transport |-> "untried"]
    /\ works \in SUBSET Transport /\ authorized \in BOOLEAN
    /\ steady = {}

-----------------------------------------------------------------------------
(* The order of the transports.                                            *)

\* May transport a come before b?  An untried one scores 1, a failing one 0,
\* any other something above 0, up to 1; ties go by priority.
MayPrecede(a, b) ==
    \/ stats[a] # "failing" /\ stats[b] \in {"failing", "working"}
    \/ a < b /\ stats[a] = stats[b]
    \/ a < b /\ stats[a] = "working" /\ stats[b] = "untried"

\* orderTransports, without statistics on any of S, is the case in which all of
\* them are untried; adaptiveOrderTransports the others.
Orders(S) == {o \in SetToAllKPermutations(S) : Len(o) = Cardinality(S)
                /\ \A i, j \in 1..Len(o) : i < j => MayPrecede(o[i], o[j])}

\* stats.record: a window with a success in it may have slid past it.
Record(t, ok) ==
    \/ stats' = [stats EXCEPT ![t] = IF ok THEN "working" ELSE "failing"]
    \/ stats[t] = "working" /\ UNCHANGED stats

-----------------------------------------------------------------------------
(* sendMessage.                                                            *)

\* The breaker lets the send through, or turns it away (503).
SendBegins(c) ==
    /\ stage[c] = "idle"
    /\ Ask(c)
    /\ stage' = [stage EXCEPT ![c] = IF admitted'[c] = "none" THEN "idle" ELSE "resolving"]
    /\ card' = [card EXCEPT ![c] = {}] /\ todo' = [todo EXCEPT ![c] = <<>>]
    /\ attempt' = [attempt EXCEPT ![c] = 0]
    /\ outcome' = [outcome EXCEPT ![c] = "none"] /\ steady' = steady \ {c}
    /\ UNCHANGED <<stats, env>>

\* sendMessage returns with the result of an attempt; the breaker records it.
Returns(c, e) ==
    /\ stage' = [stage EXCEPT ![c] = "idle"]
    /\ outcome' = [outcome EXCEPT ![c] = e]
    /\ Admit(c, "none")
    /\ IF e = "ok" THEN RecordSuccess ELSE RecordFailure(FALSE)
    /\ UNCHANGED <<peerUp, card, attempt, env, steady>>

\* The attempt has failed: doSendMessage returns a result with status 500,
\* whatever the error was, which withRetry takes for retryable.
AttemptFails(c, e) ==
    IF attempt[c] < MaxRetries
    THEN /\ stage' = [stage EXCEPT ![c] = "waiting"]
         /\ outcome' = [outcome EXCEPT ![c] = e]
         /\ UNCHANGED <<vars, card, attempt, env, steady>>
    ELSE Returns(c, e)

Again(c) == attempt' = [attempt EXCEPT ![c] = @ + 1]

\* The backoff is over: doSendMessage is called again.
WaitOver(c) ==
    /\ stage[c] = "waiting"
    /\ Again(c)
    /\ stage' = [stage EXCEPT ![c] = "resolving"]
    /\ UNCHANGED <<vars, card, todo, outcome, stats, env, steady>>

\* The Agent Card names the transports S, the empty set standing for a card
\* that could not be resolved too.  Without an alternative there is no loop.
Resolved(c) ==
    /\ stage[c] = "resolving"
    /\ \E S \in SUBSET Transport :
         /\ card' = [card EXCEPT ![c] = S]
         /\ \E o \in IF Cardinality(S) > 1 THEN Orders(S) ELSE {<<>>} :
              /\ todo' = [todo EXCEPT ![c] = o]
              /\ stage' = [stage EXCEPT ![c] = IF o = <<>> THEN "single" ELSE "sending"]
    /\ steady' = IF peerUp THEN steady \cup {c} ELSE steady \ {c}
    /\ UNCHANGED <<vars, attempt, outcome, stats, env>>

\* doSendViaFactory: the SDK picks a transport; every error becomes a result.
SingleEnds(c, e) ==
    /\ stage[c] = "single"
    /\ \/ e = "ok" /\ peerUp /\ authorized /\ Returns(c, e)
       \/ e \in Error /\ AttemptFails(c, e)
    /\ UNCHANGED <<todo, stats>>

\* What transport t may answer with: doSendViaTransport throws what the SDK threw.
Answers(t) ==
    IF ~peerUp \/ t \notin works THEN {"connection", "reply"}
    ELSE IF authorized THEN {"ok"} ELSE {"auth"}

\* Mutant: no error is one that another transport may not have.
IsRetryable_Not(e) == FALSE

\* isRetryableTransportError: may another transport do better?
IsRetryable(e) == e = "connection"

\* The first transport of the list has answered: the send is over, or goes on with
\* the next one, or the loop ends with this error, transports left or not.
Tried(c) ==
    /\ stage[c] = "sending"
    /\ todo' = [todo EXCEPT ![c] = Tail(@)]
    /\ \E e \in Answers(Head(todo[c])) :
         /\ Record(Head(todo[c]), e = "ok")
         /\ IF e = "ok" THEN Returns(c, e)
            ELSE IF IsRetryable(e) /\ Len(todo[c]) > 1
                 THEN UNCHANGED <<vars, stage, card, attempt, outcome, env, steady>>
                 ELSE AttemptFails(c, e)

-----------------------------------------------------------------------------
(* The rest of the breaker, and the peer.                                  *)

Health ==
    /\ Cool \/ RampUp \/ ProbeEnds
    /\ UNCHANGED <<attemptVars, stats, env, steady>>

PeerTurns ==
    /\ PeerFlips
    /\ steady' = {}
    /\ UNCHANGED <<attemptVars, stats, env>>

Progress(c) ==
    \/ Resolved(c) \/ Tried(c) \/ WaitOver(c)
    \/ \E e \in Error \cup {"ok"} : SingleEnds(c, e)

SendNext ==
    \/ \E c \in Sender : SendBegins(c) \/ Progress(c)
    \/ Health \/ PeerTurns

SendSpec == SendInit /\ [][SendNext]_outboundVars

-----------------------------------------------------------------------------
(* Properties.                                                             *)

SendTypeOK ==
    /\ TypeOK
    /\ stage \in [Sender -> {"idle", "resolving", "sending", "single", "waiting"}]
    /\ card \in [Sender -> SUBSET Transport]
    /\ todo \in [Sender -> Seq(Transport)]
    /\ attempt \in [Sender -> 0..MaxRetries]
    /\ outcome \in [Sender -> {"none", "ok"} \cup Error]
    /\ stats \in [Transport -> {"untried", "working", "failing"}]
    /\ works \in SUBSET Transport /\ authorized \in BOOLEAN /\ steady \in SUBSET Sender

\* In single-probe mode the marker of the breaker has an owner: a send that was
\* let through as the probe is under way, and will clear it.
ProbeHasOwner ==
    probing /\ ~Gradual =>
        \E c \in Sender : admitted[c] = "recovering" /\ stage[c] # "idle"

\* The fallback is complete for the errors it is made for: an attempt ends with a
\* connection error only when every transport on the card has had its turn.  With
\* the peer up all the time none of them works then, in whatever order the
\* statistics had put them.  (An error of another kind ends the loop at once.)
FallbackReaches == \A c \in Sender :
    outcome[c] = "connection" /\ stage[c] \in {"idle", "waiting"}
      /\ c \in steady /\ Cardinality(card[c]) > 1
    => card[c] \cap works = {}

=============================================================================
