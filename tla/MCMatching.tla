----------------------------- MODULE MCMatching -----------------------------
(* Instances of Matching for TLC: asks and callers are interchangeable.    *)
EXTENDS MatchingInv, TLC

Symmetry == Permutations(Asks) \cup Permutations(Callers)
=============================================================================
