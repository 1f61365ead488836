--------------------------- MODULE MCDepositFlow ---------------------------
(* An instance of DepositFlow for TLC: a shipper who owns two bids and can   *)
(* pay one deposit, and the driver he pays, who owns none.                  *)
EXTENDS FlowInv, TLC

CONSTANTS s1, s2, b1, b2

MyBids == (s1 :> {b1, b2}) @@ (s2 :> {})
OnePays == (s1 :> 1) @@ (s2 :> 0)
Symmetry ==
  Permutations({b1, b2}) \cup Permutations(Asks) \cup Permutations(Callers)
=============================================================================
