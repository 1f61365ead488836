---------------------------- MODULE MatchingInv ----------------------------
(* The inductive invariants behind the safety properties of Matching.      *)
EXTENDS Matching

(* A row under negotiation or matched carries a quote its driver sent.     *)
RowQuoted(b, row) == [bid |-> b, ask |-> row.ask, price |-> row.price] \in submitted

RowsQuoted ==
  \A i \in 1..Len(db), b \in Bids :
    db[i].bid[b].status \in {"negotiating", "matched"} => RowQuoted(b, db[i].bid[b])

(* What the locals of a goroutine promise about the shared state.  None of *)
(* it says that the row the goroutine read is still the row of the master. *)
Accepting == {"check_balance", "request_hold", "write_contract", "match_bid"}

WorkOK(w) ==
  /\ w.pc = "reject_update" => w.row = OpenRow
  /\ w.pc \in Accepting \cup {"offer_update"} =>
       w.row.status = "negotiating" /\ RowQuoted(w.bid, w.row)
  /\ w.pc \in Accepting => w.row.ask = w.ask
  /\ w.pc = "write_contract" =>
       \/ w.id \in slips.lost
       \/ [id |-> w.id, bid |-> w.bid, price |-> w.row.price] \in holds
  /\ w.pc \in {"match_bid", "match_ask"} =>
       \E c \in contracts : /\ c.bid = w.bid /\ c.ask = w.ask
                            /\ c.price = w.row.price

(* Contract safety holds for every lag, every failure and any number of    *)
(* callers: AcceptOffer's order of writes is enough, the mutex is not used. *)
ContractInv ==
  /\ TypeOK
  /\ RowsQuoted
  /\ \A t \in Threads : WorkOK(th[t])
  /\ MatchedHasContract
  /\ PriceWasQuoted
  /\ DepositRequested

-------------------------------------------------------------------------
(* The mutex: a goroutine inside a critical section holds it, and the row  *)
(* it read is the row it updates, unless the slave showed an old one.      *)

Outside == {"idle", "offer_ack"}

Fresh(w) ==
  /\ w.pc = "offer_update" => /\ Master.bid[w.bid].status = "pending"
                              /\ w.row = [status |-> "negotiating", ask |-> w.ask,
                                          price |-> w.price]
                              /\ w.price \in Prices
  /\ w.pc = "reject_update" => /\ Master.bid[w.bid].status = "negotiating"
                               /\ w.row = OpenRow
  /\ w.pc \in Accepting => /\ Master.bid[w.bid] = w.row
                           /\ w.row.status = "negotiating"

RowFresh(w) == Fresh(w) \/ w.bid \in slips.stale

LockInv ==
  /\ TypeOK
  /\ \A t \in Threads : th[t].pc \notin Outside => mu = t
  /\ \A t \in Threads : RowFresh(th[t])

(* A contract on a bid is followed by the flip of the bid before anybody   *)
(* else looks at it, unless its AcceptOffer ended in between.              *)
Sold(c) ==
  \/ c.bid \in slips.stale
  \/ c.id \in slips.cut
  \/ Master.bid[c.bid].status = "matched"
  \/ \E t \in Threads : th[t].pc = "match_bid" /\ th[t].bid = c.bid /\ th[t].id = c.id

SaleInv ==
  /\ LockInv
  /\ OneContractPerBid
  /\ \A c \in contracts : Sold(c)
=============================================================================
