---------------------------- MODULE PeerRouting ----------------------------
(***************************************************************************)
(* What stands before the breaker of PeerHealth in src/index.ts: a2a.send  *)
(* and the tool a2a_send_file look for the peer by its name, or by the     *)
(* rules and the skills the health checks have cached, among the static    *)
(* and the discovered peers.                                               *)
(*                                                                         *)
(* Monitored is the static peer whose breaker PeerHealth models.  The      *)
(* others are discovered ones, which no health check ever asks.            *)
(***************************************************************************)
EXTENDS PeerHealth, RoutingRules

CONSTANTS
    Monitored, Discoverable,
    Skill,
    Message,       \* with the peer it names, if any, its text and its tags
    RawRules       \* what routing.rules may be configured to

ASSUME RoutingAssumption ==
    /\ WeightsAreNat /\ Monitored \notin Discoverable
    /\ NoPeer \notin Discoverable \cup {Monitored}

\* Priorities are finite numbers; a rule asks for finitely many tags and skills.
ASSUME RulesAssumption == \A s \in RawRules :
    /\ s \in Seq({s[i] : i \in DOMAIN s})
    /\ \A i \in DOMAIN s : /\ s[i].priority \in Int
                          /\ IsFiniteSet(s[i].tags) /\ IsFiniteSet(s[i].skills)

VARIABLES
    raw, rules,        \* routing.rules as configured and as parsed
    affinity,          \* is routing.affinity configured?
    offers,            \* the skills on the Agent Card of the monitored peer
    skills,            \* those the health manager has cached
    discovered,        \* the names in the discovery cache
    to,                \* per sender, the peer that the send under way goes to
    checking           \* per sender, the peer of a file whose URI is being checked

configVars == <<raw, rules, affinity>>
cardVars   == <<offers, skills, discovered>>
sendVars   == <<to, checking>>
routedVars == <<vars, configVars, cardVars, sendVars>>

RoutedInit ==
    /\ Init
    /\ raw \in RawRules /\ rules = parseRoutingRules(raw) /\ affinity \in BOOLEAN
    /\ offers \in SUBSET Skill /\ skills = {}
    /\ discovered \in SUBSET Discoverable
    /\ to = [c \in Sender |-> NoPeer] /\ checking = [c \in Sender |-> NoPeer]

-----------------------------------------------------------------------------

getPeerSkills(known) ==
    [p \in Discoverable \cup {Monitored} |-> IF p = Monitored THEN known ELSE {}]

Routed(m, known) ==
    IF m.peer # NoPeer THEN m.peer ELSE Target(rules, m, getPeerSkills(known), affinity)

\* getEffectivePeers with mergeWithStatic, the default.
Effective == discovered \cup {Monitored}

Idle(c) == to[c] = NoPeer /\ checking[c] = NoPeer

\* client.sendMessage: only the monitored peer has a breaker to ask.
Send(c, p) ==
    \/ /\ p = Monitored
       /\ Ask(c)
       /\ to' = IF admitted'[c] = "none" THEN to ELSE [to EXCEPT ![c] = p]
    \/ /\ p # Monitored
       /\ to' = [to EXCEPT ![c] = p]
       /\ UNCHANGED vars

\* a2a.send.  A peer that is not found is an error at once: the rule's second
\* best is not tried.
a2a_send(c, m) ==
    /\ Idle(c)
    /\ Routed(m, skills) \in Effective
    /\ Send(c, Routed(m, skills))
    /\ UNCHANGED <<configVars, cardVars, checking>>

\* a2a_send_file, up to the check of the URI, which awaits a lookup, and from
\* there on with the peer that was found before.
a2a_send_file(c, p) ==
    /\ Idle(c) /\ p \in Effective
    /\ checking' = [checking EXCEPT ![c] = p]
    /\ UNCHANGED <<vars, configVars, cardVars, to>>

UriRefused(c) ==
    /\ checking[c] # NoPeer
    /\ checking' = [checking EXCEPT ![c] = NoPeer]
    /\ UNCHANGED <<vars, configVars, cardVars, to>>

UriChecked(c) ==
    /\ checking[c] # NoPeer
    /\ checking' = [checking EXCEPT ![c] = NoPeer]
    /\ Send(c, checking[c])
    /\ UNCHANGED <<configVars, cardVars>>

Ends(c) ==
    /\ to[c] # NoPeer
    /\ to' = [to EXCEPT ![c] = NoPeer]
    /\ IF to[c] = Monitored THEN SendEnds(c) ELSE UNCHANGED vars
    /\ UNCHANGED <<configVars, cardVars, checking>>

-----------------------------------------------------------------------------

\* Mutant: the skills are taken from the first card alone.
updateSkills_Once == skills' = IF skills = {} THEN offers ELSE skills

updateSkills == skills' = offers

\* A health check: the skills on the card are cached when there is an answer.
Probe ==
    /\ ProbeEnds
    /\ IF peerUp THEN updateSkills ELSE UNCHANGED skills
    /\ UNCHANGED <<configVars, offers, discovered, sendVars>>

Passing(A) == A /\ UNCHANGED <<configVars, cardVars, sendVars>>

Surroundings ==
    /\ \/ offers' \in SUBSET Skill \ {offers} /\ UNCHANGED discovered
       \/ discovered' \in SUBSET Discoverable \ {discovered} /\ UNCHANGED offers
    /\ UNCHANGED <<vars, configVars, skills, sendVars>>

RoutedNext ==
    \/ \E c \in Sender : \/ \E m \in Message : a2a_send(c, m)
                         \/ \E p \in Effective : a2a_send_file(c, p)
                         \/ UriRefused(c) \/ UriChecked(c) \/ Ends(c)
    \/ Probe \/ Passing(Cool) \/ Passing(RampUp) \/ Passing(PeerFlips) \/ Surroundings

RoutedSpec == RoutedInit /\ [][RoutedNext]_routedVars

\* The timers of PeerHealth; nobody needs to send anything.
RoutedFairness ==
    /\ WF_routedVars(Probe) /\ WF_routedVars(Passing(Cool)) /\ WF_routedVars(Passing(RampUp))
    /\ \A c \in Sender : WF_routedVars(Ends(c))

RoutedFairSpec == RoutedSpec /\ RoutedFairness

-----------------------------------------------------------------------------
(* Properties.                                                             *)

\* Sorting by priority and then by score comes to one order: with affinity the
\* score decides, then the priority, then the place in the configuration, and
\* without it the last two.  The peer for a message is that of the matching rule
\* which nothing precedes in this order.
RouteIsBest == \A m \in {n \in Message : n.peer = NoPeer} :
    LET known == getPeerSkills(skills)
        hits  == {i \in DOMAIN raw : raw[i].wellFormed /\ matchesRule(raw[i], m, known)}
        Scores(i, j) == affinity /\ Higher(computeAffinity(raw[i], m, known),
                                           computeAffinity(raw[j], m, known))
        Beats(i, j) ==
            \/ Scores(i, j)
            \/ ~Scores(j, i) /\ raw[i].priority > raw[j].priority
            \/ ~Scores(j, i) /\ raw[i].priority = raw[j].priority /\ i < j
        Best == {i \in hits : \A j \in hits \ {i} : Beats(i, j)}
    IN {Routed(m, skills)} = IF hits = {} THEN {NoPeer} ELSE {raw[i].peer : i \in Best}

\* Once the monitored peer stays up and leaves its card as it is, messages are
\* routed by what the card says, and its circuit lets them through.
RoutesFresh == \A card \in SUBSET Skill :
    <>[](peerUp /\ offers = card)
      => <>[](circuit = "closed" /\ \A m \in Message : Routed(m, skills) = Routed(m, card))
=============================================================================
