------------------------------ MODULE FlowInv ------------------------------
(* The inductive invariant behind the safety property of DepositFlow.      *)
EXTENDS DepositFlow, MatchingInv

FlowTypeOK ==
  /\ balance \in [Accounts -> Nat]
  /\ refused \subseteq holds
  /\ mock \in BOOLEAN

(* Every request has an identifier of its own and a price a driver quoted. *)
HoldsOK ==
  /\ \A h \in holds : h.id \in 1..used /\ h.price \in Prices
  /\ \A g, h \in holds : g.id = h.id => g = h

(* What may have become of the money AcceptOffer saw.                      *)
Gone(b) ==
  Owner(b) \in debited \/ \E g \in holds : g.id \in applied /\ Owner(g.bid) = Owner(b)

Excused(h) ==
  h.id \in unchecked \/ Owner(h.bid) \in debited \/ \E g \in holds : Rival(g, h)

(* The balance AcceptOffer saw is there until somebody takes it: before    *)
(* the request is published, and until it is processed.                    *)
Seen(w) ==
  w.pc = "request_hold" => mock \/ balance[Owner(w.bid)] >= w.row.price \/ Gone(w.bid)

Backed ==
  \A h \in holds : h.id \notin applied =>
    balance[Owner(h.bid)] >= h.price \/ Excused(h)

FlowInv ==
  /\ ContractInv
  /\ FlowTypeOK
  /\ HoldsOK
  /\ \A t \in Threads : Seen(th[t])
  /\ Backed
  /\ DepositsCovered
=============================================================================
