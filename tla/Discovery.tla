----------------------------- MODULE Discovery -----------------------------
(***************************************************************************)
(* Dynamic discovery of peers: the cache of DnsDiscoveryManager            *)
(* (src/src/dns-discovery.ts), filled by lookups that an interval starts   *)
(* or, when quorum sensing is configured, the polling loop of              *)
(* QuorumDiscoveryManager (src/src/quorum-discovery.ts); started and       *)
(* stopped with the service (src/index.ts).                                *)
(*                                                                         *)
(* A lookup awaits the SRV answer and then the TXT answer.  Meanwhile the  *)
(* interval may start another one, entries expire, and the service may be  *)
(* stopped and started again.                                              *)
(***************************************************************************)
EXTENDS Integers, FiniteSets

CONSTANTS
    Peer,                 \* what SRV records name: host and port
    Activate, Deactivate, \* the thresholds of quorum sensing
    Lookup,               \* lookups that may be under way at a time
    MaxStarts             \* how often the service is started: a bound

ASSUME DiscoveryAssumption ==
    /\ IsFiniteSet(Peer) /\ IsFiniteSet(Lookup)
    /\ Deactivate \in Nat /\ Activate \in Nat /\ Deactivate < Activate
    /\ MaxStarts \in Nat

VARIABLES
    quorum,     \* configuration: does a QuorumDiscoveryManager do the polling?
    running,    \* this.running of the manager that polls
    starts,     \* how often it was started
    held,       \* is the timer in this.timer pending?
    orphans,    \* pending timeouts of the loop that this.timer has forgotten
    mode,       \* "explore" or "stable"
    stage,      \* per lookup, the answer it waits for: "none", "srv" or "txt"
    found,      \* per lookup, the peers in its SRV answer
    cache,      \* discoveredPeers, by host and port
    expired,    \* the cached peers whose TTL has passed
    network,    \* the peers that advertise themselves
    dnsUp       \* does the resolver answer?

loopVars == <<running, starts, held, orphans, mode>>
env      == <<network, dnsUp>>
vars     == <<quorum, loopVars, stage, found, cache, expired, env>>

Init ==
    /\ quorum \in BOOLEAN
    /\ running = FALSE /\ starts = 0 /\ held = FALSE /\ orphans = 0
    /\ mode = "explore"
    /\ stage = [l \in Lookup |-> "none"] /\ found = [l \in Lookup |-> {}]
    /\ cache = {} /\ expired = {}
    /\ network \in SUBSET Peer /\ dnsUp \in BOOLEAN

-----------------------------------------------------------------------------
(* Lookups.                                                                *)

\* discover() up to its first await.
Begins(l) ==
    /\ stage[l] = "none"
    /\ stage' = [stage EXCEPT ![l] = "srv"]
    /\ UNCHANGED found

Ends(l) ==
    /\ stage' = [stage EXCEPT ![l] = "none"]
    /\ found' = [found EXCEPT ![l] = {}]

EvictExpired == cache' = cache \ expired /\ expired' = {}

\* Mutant: entries there before win over the answer, and may have expired.
Merge_OldWins(new) == cache' = (cache \cup new) \ expired /\ expired' = {}

\* The new answer replaces and renews what it names; of the rest, what has
\* expired is dropped.
Merge(new) == cache' = new \cup (cache \ expired) /\ expired' = {}

\* setTimeout of scheduleNext: a timer that is still pending is forgotten.
Arm ==
    /\ held' = TRUE
    /\ orphans' = IF held THEN orphans + 1 ELSE orphans

\* The mode for the density n: no change between the two thresholds.
NextMode(n) ==
    IF mode = "explore" /\ n >= Activate THEN "stable"
    ELSE IF mode = "stable" /\ n < Deactivate THEN "explore"
    ELSE mode

\* Mutant: not in a finally block, and a change of the mode returns before it.
TickEnds_NotFinally ==
    /\ mode' = NextMode(Cardinality(cache'))
    /\ IF running /\ mode' = mode THEN Arm ELSE UNCHANGED <<held, orphans>>
    /\ UNCHANGED <<running, starts>>

\* The rest of tick() after the refresh: the mode, and the next timeout.
TickEnds ==
    /\ mode' = NextMode(Cardinality(cache'))
    /\ IF running THEN Arm ELSE UNCHANGED <<held, orphans>>
    /\ UNCHANGED <<running, starts>>

\* Whoever waits for the lookup goes on.
Returns == IF quorum THEN TickEnds ELSE UNCHANGED loopVars

\* The SRV query is answered with what is advertised at that time.
SrvAnswers(l) ==
    /\ stage[l] = "srv" /\ dnsUp /\ network # {}
    /\ stage' = [stage EXCEPT ![l] = "txt"]
    /\ found' = [found EXCEPT ![l] = network]
    /\ UNCHANGED <<quorum, loopVars, cache, expired, env>>

\* No records, or an error: discover() or the catch of its caller evicts what
\* has expired and keeps the rest.
SrvFails(l) ==
    /\ stage[l] = "srv" /\ (network = {} \/ ~dnsUp)
    /\ Ends(l)
    /\ EvictExpired
    /\ Returns
    /\ UNCHANGED <<quorum, env>>

\* The TXT query is answered or fails, which makes no difference here.
TxtAnswers(l) ==
    /\ stage[l] = "txt"
    /\ Ends(l)
    /\ Merge(found[l])
    /\ Returns
    /\ UNCHANGED <<quorum, env>>

-----------------------------------------------------------------------------
(* The timers.                                                             *)

\* setInterval of start(); it stays armed.
IntervalFires(l) ==
    /\ ~quorum /\ held
    /\ Begins(l)
    /\ UNCHANGED <<quorum, loopVars, cache, expired, env>>

\* tick(): returns at once when the manager was stopped in the meantime.
Tick(l) == IF running THEN Begins(l) ELSE UNCHANGED <<stage, found>>

TimeoutFires(l) ==
    /\ quorum /\ held
    /\ held' = FALSE
    /\ Tick(l)
    /\ UNCHANGED <<quorum, running, starts, orphans, mode, cache, expired, env>>

OrphanFires(l) ==
    /\ quorum /\ orphans > 0
    /\ orphans' = orphans - 1
    /\ Tick(l)
    /\ UNCHANGED <<quorum, running, starts, held, mode, cache, expired, env>>

-----------------------------------------------------------------------------
(* start() and stop().                                                     *)

Start ==
    /\ ~running /\ starts < MaxStarts
    /\ running' = TRUE /\ starts' = starts + 1
    /\ held' = TRUE
    /\ IF quorum THEN UNCHANGED <<stage, found>> ELSE \E l \in Lookup : Begins(l)
    /\ UNCHANGED <<quorum, orphans, mode, cache, expired, env>>

\* clearTimeout(this.timer) or clearInterval(this.timer).
ClearTimer == held' = FALSE

\* The quorum manager leaves the cache of the other one as it is.
Stop ==
    /\ running
    /\ running' = FALSE
    /\ ClearTimer
    /\ IF quorum THEN UNCHANGED <<cache, expired>> ELSE cache' = {} /\ expired' = {}
    /\ UNCHANGED <<quorum, starts, orphans, mode, stage, found, env>>

-----------------------------------------------------------------------------
(* Time and the network.                                                   *)

Expires(p) ==
    /\ p \in cache \ expired
    /\ expired' = expired \cup {p}
    /\ UNCHANGED <<quorum, loopVars, stage, found, cache, env>>

NetworkChanges ==
    /\ \/ \E p \in Peer : network' \in {network \cup {p}, network \ {p}}
                          /\ UNCHANGED dnsUp
       \/ dnsUp' = ~dnsUp /\ UNCHANGED network
    /\ UNCHANGED <<quorum, loopVars, stage, found, cache, expired>>

Answers(l) == SrvAnswers(l) \/ SrvFails(l) \/ TxtAnswers(l)
Fires(l)   == IntervalFires(l) \/ TimeoutFires(l) \/ OrphanFires(l)

Next ==
    \/ \E l \in Lookup : Answers(l) \/ Fires(l)
    \/ Start \/ Stop
    \/ \E p \in Peer : Expires(p)
    \/ NetworkChanges

Spec == Init /\ [][Next]_vars

-----------------------------------------------------------------------------
(* Properties.                                                             *)

TypeOK ==
    /\ quorum \in BOOLEAN /\ running \in BOOLEAN /\ held \in BOOLEAN /\ dnsUp \in BOOLEAN
    /\ starts \in 0..MaxStarts /\ orphans \in Nat
    /\ mode \in {"explore", "stable"}
    /\ stage \in [Lookup -> {"none", "srv", "txt"}]
    /\ found \in [Lookup -> SUBSET Peer]
    /\ cache \in SUBSET Peer /\ expired \in SUBSET cache /\ network \in SUBSET Peer

\* The turns of the polling loop that are under way or to come.
Loops == Cardinality({l \in Lookup : stage[l] # "none"}) + orphans + (IF held THEN 1 ELSE 0)

\* With quorum sensing, polling goes on as long as the manager runs, and there
\* is at most one loop for each time it was started: a loop neither dies with
\* a lookup that fails, nor doubles.  (A tick that is under way during stop()
\* and start() goes on beside the new loop, so that there can be two.)
LoopPerStart == quorum => /\ Loops <= starts
                          /\ running => Loops >= 1

\* A peer that stays up, while the resolver answers, is known in the end, and
\* stays known however long the TTL is.
KnownWhenUp == \A p \in Peer :
    <>[](running /\ dnsUp /\ p \in network) => <>[](p \in cache)
=============================================================================
