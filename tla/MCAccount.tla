----------------------------- MODULE MCAccount -----------------------------
(* Instances of Account for TLC: callers and addresses are interchangeable. *)
EXTENDS AccountInv, TLC

Symmetry == Permutations(Callers) \cup Permutations(Addresses)
=============================================================================
