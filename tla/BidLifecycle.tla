---------------------------- MODULE BidLifecycle ----------------------------
(***************************************************************************)
(* What matching_service promises about one cargo order (a bid), as drawn  *)
(* in the state machine of its service page: a pending bid is soft-locked  *)
(* by the first quote, a quote is either declined, which reopens the bid,  *)
(* or accepted as quoted, and an accepted bid never changes again.         *)
(***************************************************************************)
EXTENDS Naturals

CONSTANTS Bids,      \* identifiers of bids
          Asks,      \* identifiers of asks (empty trips of drivers)
          Prices,    \* prices a driver may quote
          NoAsk      \* stands for uuid.Nil in offered_ask_id

VARIABLE deal        \* deal[b]: status, negotiating ask and quoted price of b

NoDeal   == [status |-> "none", ask |-> NoAsk, price |-> 0]
OpenDeal == [status |-> "pending", ask |-> NoAsk, price |-> 0]

Init == deal = [b \in Bids |-> NoDeal]

Open(b) == /\ deal[b].status = "none"
           /\ deal' = [deal EXCEPT ![b] = OpenDeal]

Quote(b, a, p) ==
  /\ deal[b].status = "pending"
  /\ deal' = [deal EXCEPT ![b] =
                [status |-> "negotiating", ask |-> a, price |-> p]]

Decline(b) == /\ deal[b].status = "negotiating"
              /\ deal' = [deal EXCEPT ![b] = OpenDeal]

Accept(b) == /\ deal[b].status = "negotiating"
             /\ deal' = [deal EXCEPT ![b] =
                           [status |-> "matched", ask   |-> deal[b].ask,
                            price  |-> deal[b].price]]

Next == \E b \in Bids : \/ Open(b)
                        \/ \E a \in Asks, p \in Prices : Quote(b, a, p)
                        \/ Decline(b)
                        \/ Accept(b)

Spec == Init /\ [][Next]_deal
=============================================================================
