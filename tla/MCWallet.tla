------------------------------ MODULE MCWallet ------------------------------
(* Instances of Wallet for TLC: users, references and goroutines are symmetric. *)
EXTENDS WalletInv, TLC

Symmetry == Permutations(Users) \cup Permutations(Refs) \cup Permutations(Sessions)
=============================================================================
