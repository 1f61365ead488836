------------------------------ MODULE MCFleet ------------------------------
(* Instances of Fleet for TLC: one driver owns every vehicle and document. *)
EXTENDS FleetInv, TLC

Ownership == [v \in Vehicles |-> CHOOSE d \in Drivers : TRUE]
About == [p \in Documents |-> CHOOSE v \in Vehicles : TRUE]
Symmetry == Permutations(Callers)
=============================================================================
