----------------------------- MODULE WalletInv -----------------------------
(* The inductive invariant behind the safety properties of Wallet.         *)
EXTENDS Wallet

(* An active transaction has locked the first `at` rows of its operation,  *)
(* and each of them still covers what it was checked for.                  *)
Secured(x) ==
  /\ x.at <= Len(Rows(x.op))
  /\ x.pc = "lock" => x.at < Len(Rows(x.op))
  /\ x.pc = "commit" => x.at = Len(Rows(x.op))
  /\ \A i \in 1..x.at : /\ Rows(x.op)[i].wallet \in Open
                        /\ balance[Rows(x.op)[i].wallet] >= Rows(x.op)[i].need

TxOK(x) ==
  /\ x # NoTx => x.op \in Calls
  /\ x.pc = "mark" => x.op.ref # NoRef
  /\ Active(x) => Secured(x) /\ x.op.ref \notin processed

(* Two active transactions share neither a row nor a reference.            *)
Apart(x, y) ==
  Active(x) /\ Active(y) => /\ Locks(x) \cap Locks(y) = {}
                            /\ x.op.ref = y.op.ref => x.op.ref = NoRef

WalletInv ==
  /\ TypeOK
  /\ \A s \in Sessions : TxOK(tx[s])
  /\ \A s, t \in Sessions : s # t => Apart(tx[s], tx[t])

(* A deposit under way is not in the books yet, and nobody else makes it.  *)
NewDeposits ==
  \A s \in Sessions : Active(tx[s]) /\ tx[s].op.kind = "deposit" =>
    /\ Posts(tx[s].op) \cap entries = {}
    /\ \A t \in Sessions \ {s} : Active(tx[t]) => tx[t].op # tx[s].op

(* What a commit adds to the books is new, so the sums grow by all of it.  *)
BooksInv ==
  /\ WalletInv
  /\ InboxAtomic
  /\ NewDeposits
  /\ IsFiniteSet(entries)
  /\ Balanced

(* Where a locking read locks all it scans, one transaction at a time has  *)
(* locks at all.                                                           *)
LocksInv ==
  /\ WalletInv
  /\ Scan => \A s, t \in Sessions : s # t => Locks(tx[s]) = {} \/ Locks(tx[t]) = {}
=============================================================================
