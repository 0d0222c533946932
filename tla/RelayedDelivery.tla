-------------------------- MODULE RelayedDelivery --------------------------
(***************************************************************************)
(* Messages from the outbox of one gateway to the inbox of another.  The   *)
(* sendFn given to the relay signs the envelope in the entry               *)
(* (signRequest in src/src/internal/security.ts) and posts it with         *)
(* OutboundClient.send (src/src/internal/transport.ts); the result's       *)
(* `success` is what it resolves to.                                       *)
(*                                                                         *)
(* In between, requests and answers are lost, late or delivered twice, and *)
(* the client gives up waiting.                                            *)
(***************************************************************************)
EXTENDS Outbox

CONSTANTS
    Key, KeysOf, RouteKey, Envelope, MaxHops, MaxPayloadBytes, HasDefault

ASSUME InboxAssumption ==
    /\ KeysOf \subseteq [Message -> Key]
    /\ MaxHops \in Nat /\ MaxPayloadBytes \in Nat /\ HasDefault \in BOOLEAN
    /\ Envelope \in [Message -> [wellFormed : BOOLEAN, visited : BOOLEAN, hops : Nat,
                                 size : Nat, destination : RouteKey \cup {"agent", "none"}]]

VARIABLES
    keyOf, nonces, entries, rules, tooOld, handed,
    signed,    \* how often each message was signed and posted, with a new nonce
    answers    \* what the client's pending call may be answered with

Nonce == Message \X Nat

I == INSTANCE Inbox

inboxVars    == <<keyOf, nonces, entries, rules, tooOld, handed>>
netVars      == <<signed, answers>>
deliveryVars == <<vars, inboxVars, netVars>>

DeliveryInit ==
    /\ Init /\ I!Init
    /\ signed = [m \in Message |-> 0]
    /\ answers = {}

-----------------------------------------------------------------------------

\* The flush f, which has just gone on, calls sendFn for the entry it takes up,
\* if any: the request is signed with a nonce of its own and posted.
Posts(f) ==
    LET m == sending'[f] IN
    /\ answers' = {}
    /\ signed' = IF m = NoMessage THEN signed ELSE [signed EXCEPT ![m] = @ + 1]

TickPosts(f) == Tick(f) /\ Posts(f) /\ UNCHANGED inboxVars

\* OutboundClient.send has resolved: with the status code of an answer, or
\* without one, on a timeout or an error of the connection.
AnswerEnds(f, ok) ==
    /\ ok => TRUE \in answers
    /\ SendEnds(f, ok)
    /\ Posts(f)
    /\ UNCHANGED inboxVars

\* A request arrives: late, more than once, or, this action never being forced,
\* not at all, as when it is lost or the server is down.  Its answer reaches the
\* client only while that waits for it.
Arrives(m, i) ==
    /\ \E ok \in BOOLEAN :
         /\ I!handleRequest(m, <<m, i>>, ok)
         /\ answers' = IF i = signed[m] /\ \E f \in Flush : sending[f] = m
                       THEN answers \cup {ok} ELSE answers
    /\ UNCHANGED <<vars, signed>>

OutboxSteps ==
    /\ \/ \E m \in Message : enqueue(m) \/ remove(m) \/ BackoffOver(m)
       \/ cleanup \/ startRelay \/ stopRelay
    /\ UNCHANGED <<inboxVars, netVars>>

InboxSteps == I!Admin /\ UNCHANGED <<vars, netVars>>

DeliveryNext ==
    \/ \E f \in Flush : TickPosts(f) \/ \E ok \in BOOLEAN : AnswerEnds(f, ok)
    \/ \E m \in Message : \E i \in 1..signed[m] : Arrives(m, i)
    \/ OutboxSteps \/ InboxSteps

DeliverySpec == DeliveryInit /\ [][DeliveryNext]_deliveryVars

\* The interval ticks while it is set, a call of the client ends by its timeout
\* at the latest, and backoffs pass.
DeliveryFairness ==
    /\ \A f \in Flush : /\ WF_deliveryVars(TickPosts(f))
                        /\ WF_deliveryVars(\E ok \in BOOLEAN : AnswerEnds(f, ok))
    /\ \A m \in Message :
          WF_deliveryVars(BackoffOver(m) /\ UNCHANGED <<inboxVars, netVars>>)

FairSpec == DeliverySpec /\ DeliveryFairness

-----------------------------------------------------------------------------
(* Properties.                                                             *)

\* Retries, lost answers, copies of a request, a receiver that is down and
\* changes of its rules notwithstanding, a message is handed over at most once
\* and confirmed only then: ReliableMail.
Mail == INSTANCE ReliableMail WITH
            verdict <- [m \in Message |->
                IF status[m] \in {"pending", "sending"} THEN "open" ELSE status[m]]
DeliversOnce == Mail!Spec

\* Once the relay stays on, every entry gets a verdict: one that fails does not
\* hold up the others, nor is it tried for ever.
EveryMessageSettles ==
    <>[]relay => []<>(\A m \in Message : status[m] \notin {"pending", "sending"})
=============================================================================
