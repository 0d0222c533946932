------------------------ MODULE MC_RelayedDelivery ------------------------
(***************************************************************************)
(* Instance of RelayedDelivery for TLC: two messages, one of them for a    *)
(* route key, with keys of their own or one in common.                     *)
(***************************************************************************)
EXTENDS RelayedDelivery, TLC

CONSTANTS m1, m2, k1, k2, r1, f1, f2

To(d, visited) == [wellFormed |-> TRUE, visited |-> visited, hops |-> 0, size |-> 1, destination |-> d]
OwnOrShared  == {(m1 :> k1) @@ (m2 :> k2), (m1 :> k1) @@ (m2 :> k1)}
TwoEnvelopes == (m1 :> To("agent", FALSE)) @@ (m2 :> To(r1, FALSE))
=============================================================================
