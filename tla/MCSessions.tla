----------------------------- MODULE MCSessions -----------------------------
(* Instances of Sessions for TLC: users and goroutines are symmetric. *)
EXTENDS Sessions, TLC

Symmetry == Permutations(Emails) \cup Permutations(Callers)
=============================================================================
