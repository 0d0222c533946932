---------------------------- MODULE RoutingRules ----------------------------
(***************************************************************************)
(* The rules that pick a peer for a message which names none               *)
(* (src/src/routing-rules.ts).  A rule says which texts its pattern        *)
(* matches (all, if it has none), the tags and the skills one of which it  *)
(* asks for (none asks for nothing), its target and its priority.          *)
(***************************************************************************)
EXTENDS Integers, FiniteSets, Sequences

CONSTANTS
    Weights,    \* of the affinity: skills, tags and the rest
    NoPeer

WeightsAreNat == Weights \in [skills : Nat, tags : Nat, rest : Nat]

\* The places in `kept` of a list in the order of the relation `before` on them.
\* Of two that it does not relate the order stays, as with Array.prototype.sort.
Precedes(before, i, j) == <<i, j>> \in before \/ (<<j, i>> \notin before /\ i < j)

Rank(kept, before, i) == Cardinality({j \in kept : Precedes(before, j, i)})

\* What a loop that pushes the members of s it keeps, and a sort, leave.
Arranged(s, kept, before) ==
    [k \in 1..Cardinality(kept) |-> s[CHOOSE i \in kept : Rank(kept, before, i) = k - 1]]

WellFormed(raw) == {i \in DOMAIN raw : raw[i].wellFormed}

\* Mutant: lower priorities first.
parseRoutingRules_Ascending(raw) ==
    Arranged(raw, WellFormed(raw),
             {p \in WellFormed(raw) \X WellFormed(raw) : raw[p[1]].priority < raw[p[2]].priority})

\* Well-formed entries have a name, a target and one criterion at least.
parseRoutingRules(raw) ==
    Arranged(raw, WellFormed(raw),
             {p \in WellFormed(raw) \X WellFormed(raw) : raw[p[1]].priority > raw[p[2]].priority})

\* peerSkills holds the skills of the target, none if nothing is known of it.
matchesRule(r, message, peerSkills) ==
    /\ message.text \in r.texts
    /\ r.tags # {} => r.tags \cap message.tags # {}
    /\ r.skills # {} => r.skills \cap peerSkills[r.peer] # {}

(***************************************************************************)
(* computeAffinity of a rule that matches, as a fraction: its pattern and  *)
(* the success rate, which a2a.send does not pass, get full credit.        *)
(* hillScore grows with the affinity as long as n and Kd are positive, so  *)
(* it orders the rules as the affinity does.                               *)
(***************************************************************************)
Share(asked, offered) ==
    IF asked = {} THEN <<1, 1>> ELSE <<Cardinality(asked \cap offered), Cardinality(asked)>>

computeAffinity(r, message, peerSkills) ==
    LET s == Share(r.skills, peerSkills[r.peer])
        t == Share(r.tags, message.tags)
    IN <<Weights.skills * s[1] * t[2] + Weights.tags * t[1] * s[2] + Weights.rest * s[2] * t[2],
         s[2] * t[2]>>

Higher(a, b) == a[1] * b[2] > b[1] * a[2]

matchAllRules(rules, message, peerSkills, affinity) ==
    LET hits     == {i \in DOMAIN rules : matchesRule(rules[i], message, peerSkills)}
        Score(i) == computeAffinity(rules[i], message, peerSkills)
    IN Arranged(rules, hits,
                {p \in hits \X hits : affinity /\ Higher(Score(p[1]), Score(p[2]))})

\* The peer of the first match; without affinity this is matchRule.
Target(rules, message, peerSkills, affinity) ==
    LET all == matchAllRules(rules, message, peerSkills, affinity)
    IN IF all = <<>> THEN NoPeer ELSE Head(all).peer
=============================================================================
