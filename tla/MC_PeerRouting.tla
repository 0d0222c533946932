--------------------------- MODULE MC_PeerRouting ---------------------------
(***************************************************************************)
(* Instance of PeerRouting for TLC: a static peer p with up to two skills  *)
(* and a discovered one, q.  Three rules, in two orders: a rule for p that *)
(* asks for skills, a rule for q by tags, with the same priority, and one  *)
(* for q that matches every text but is configured to come last.  The      *)
(* period of the round robin is shorter than the code's 10.                *)
(***************************************************************************)
EXTENDS PeerRouting

CONSTANTS s1, s2, p, q, a, b, t1, t2

Rule(texts, tags, wanted, peer, priority) ==
    [wellFormed |-> TRUE, texts |-> texts, tags |-> tags,
     skills |-> wanted, peer |-> peer, priority |-> priority]

BySkill == Rule({"x"}, {}, {a, b}, p, 1)
ByTag   == Rule({"x", "y"}, {t1, t2}, {}, q, 1)
Default == Rule({"x"}, {}, {}, q, 0)
Void    == [Rule({"x", "y"}, {}, {}, p, 2) EXCEPT !.wellFormed = FALSE]

TwoOrders == {<<Default, BySkill, ByTag, Void>>, <<Void, ByTag, BySkill, Default>>}

Messages == {[peer |-> NoPeer, text |-> "x", tags |-> {}],
             [peer |-> NoPeer, text |-> "x", tags |-> {t1}],
             [peer |-> p, text |-> "y", tags |-> {}]}

DefaultWeights == [skills |-> 4, tags |-> 3, rest |-> 3]
=============================================================================
