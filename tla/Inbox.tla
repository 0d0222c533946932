------------------------------- MODULE Inbox -------------------------------
(***************************************************************************)
(* The receiving side of the gateway-to-gateway layer in src/src/internal: *)
(* InboundServer (transport.ts), NonceCache (security.ts),                 *)
(* validateEnvelope (envelope.ts), IdempotencyStore (idempotency.ts) and   *)
(* Router (routing.ts).                                                    *)
(*                                                                         *)
(* The handler that puts them in a row, InboundHandlers.onMessage, is      *)
(* given to the server from outside: it is modelled as one step, in the    *)
(* order the requests' headers, the envelope, the key and the route allow. *)
(***************************************************************************)
EXTENDS Integers, FiniteSets

CONSTANTS
    Message,
    Nonce,              \* what signRequest draws, one per request
    Key, KeysOf,        \* idempotency keys, and the ways messages may have them
    RouteKey,
    Envelope,           \* what validateEnvelope looks at in each message
    MaxHops, MaxPayloadBytes,
    HasDefault,         \* does the Router have a default agent?
    NoMessage

VARIABLES
    keyOf,       \* the idempotency key of each message
    nonces,      \* the keys of NonceCache
    entries,     \* IdempotencyStore: per key, the message whose payload it stands for
    rules,       \* the route keys the Router has a rule for
    tooOld,      \* the messages whose ttl_seconds have passed
    handed       \* history: how often each message was handed to an agent

vars == <<keyOf, nonces, entries, rules, tooOld, handed>>

Init ==
    /\ keyOf \in KeysOf
    /\ nonces = {} /\ entries = [k \in Key |-> NoMessage]
    /\ rules \in SUBSET RouteKey
    /\ tooOld = {}
    /\ handed = [m \in Message |-> 0]

-----------------------------------------------------------------------------
(* The checks.                                                             *)

\* validateEnvelope returns null: version, fields and types are in order, and
\* the TTL, the anti-loop, the hop limit and the size checks pass.
Valid(m) ==
    LET e == Envelope[m] IN
    /\ e.wellFormed
    /\ m \notin tooOld
    /\ ~e.visited
    /\ e.hops < MaxHops
    /\ e.size <= MaxPayloadBytes

\* check(key, fingerprint): the fingerprint stands for the message.
check(m) ==
    LET known == entries[keyOf[m]] IN
    IF known = NoMessage THEN "new" ELSE IF known = m THEN "duplicate" ELSE "conflict"

\* Mutant: the entry is never stored.
store_Not(m) == UNCHANGED entries

store(m) == entries' = [entries EXCEPT ![keyOf[m]] = m]

\* route(destination) is not null.
Routable(m) ==
    LET d == Envelope[m].destination IN d = "agent" \/ d \in rules \/ HasDefault

-----------------------------------------------------------------------------
(* Requests.                                                               *)

\* The nonce cache's add: FALSE, and no change, for a nonce that it knows.
Fresh(n) == n \notin nonces
add(n)   == nonces' = nonces \cup {n}

\* handleRequest for the message m signed with the nonce n.  `ok` says whether
\* the status code is below 300.  A nonce seen before, a bad envelope, a key in
\* use for another payload and a message without a route are turned away; a
\* duplicate gets the stored response.
handleRequest(m, n, ok) ==
    /\ add(n)
    /\ LET passed == Fresh(n) /\ Valid(m)
           new    == passed /\ check(m) = "new" /\ Routable(m)
       IN /\ ok <=> new \/ (passed /\ check(m) = "duplicate")
          /\ IF new THEN store(m) /\ handed' = [handed EXCEPT ![m] = @ + 1]
                    ELSE UNCHANGED <<entries, handed>>
    /\ UNCHANGED <<keyOf, rules, tooOld>>

-----------------------------------------------------------------------------
(* Time and administration.                                                *)

Ages(m) ==
    /\ m \notin tooOld
    /\ tooOld' = tooOld \cup {m}
    /\ UNCHANGED <<keyOf, nonces, entries, rules, handed>>

\* The TTL of an entry, counted from the time it was stored, is as long as that
\* of an envelope or longer.
Expired(k) == entries[k] # NoMessage /\ entries[k] \in tooOld

\* cleanup(), or check() coming across the entry.
KeyExpires(k) ==
    /\ Expired(k)
    /\ entries' = [entries EXCEPT ![k] = NoMessage]
    /\ UNCHANGED <<keyOf, nonces, rules, tooOld, handed>>

\* NonceCache.cleanup().
NonceExpires(n) ==
    /\ n \in nonces
    /\ nonces' = nonces \ {n}
    /\ UNCHANGED <<keyOf, entries, rules, tooOld, handed>>

\* addRule and removeRule.
RulesChange(k) ==
    /\ rules' = IF k \in rules THEN rules \ {k} ELSE rules \cup {k}
    /\ UNCHANGED <<keyOf, nonces, entries, tooOld, handed>>

Admin ==
    \/ \E m \in Message : Ages(m)
    \/ \E k \in Key : KeyExpires(k)
    \/ \E n \in nonces : NonceExpires(n)
    \/ \E k \in RouteKey : RulesChange(k)

-----------------------------------------------------------------------------

TypeOK ==
    /\ keyOf \in [Message -> Key]
    /\ nonces \subseteq Nonce
    /\ entries \in [Key -> Message \cup {NoMessage}]
    /\ rules \subseteq RouteKey /\ tooOld \subseteq Message
    /\ handed \in [Message -> Nat]
=============================================================================
