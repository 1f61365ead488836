------------------------------ MODULE Matching ------------------------------
(***************************************************************************)
(* matching_service: the negotiation between shippers and drivers.         *)
(*                                                                         *)
(* The engine's handlers run in goroutines (one per gRPC call, one for the *)
(* NATS subscription).  ProcessOfferQueue, RejectOffer and AcceptOffer     *)
(* hold the engine's mutex from their first read to their return; every    *)
(* database, wallet and broker call in between is a step of its own.  Rows *)
(* are written to the master and read from the slave, which replays the    *)
(* master's log up to Lag states behind.  Offers travel through a          *)
(* JetStream queue with explicit acknowledgement.                          *)
(***************************************************************************)
EXTENDS Integers, Sequences, FiniteSets

CONSTANTS Bids, Asks, Prices, \* identifiers, and the prices a driver may quote
          NoAsk,              \* uuid.Nil as offered_ask_id
          Callers,            \* goroutines of concurrent gRPC calls
          Consumer,           \* the goroutine of the JetStream subscription
          Free,               \* the value of an unlocked mutex
          Lag,                \* how many states the slave may be behind
          MaxContracts,       \* bound: attempts that reach the wallet with funds
          Faults              \* which failures the environment may inject

Threads == Callers \cup {Consumer}

ASSUME ConstantsOK ==
  /\ NoAsk \notin Asks
  /\ Consumer \notin Callers
  /\ Free \notin Threads
  /\ Prices \subseteq Nat \ {0}
  /\ Lag \in Nat
  /\ MaxContracts \in Nat
  /\ Faults \subseteq {"db", "mq", "kafka", "ack", "crash"}

VARIABLES
  db,        \* states of the tables bids and asks: slave first, master last
  contracts, \* table matches (never read by the engine, so not replicated here)
  holds,     \* records published to the Kafka topic wallet.hold_deposit
  used,      \* number of contract identifiers generated so far
  offers,    \* JetStream messages under matching.offers.* not acknowledged
  submitted, \* history: every offer a driver has submitted
  mu,        \* holder of matchingEngineImpl.mu
  th,        \* program counter and locals of each goroutine
  published, \* notices sent to users by the last step
  slips      \* history: what went wrong, and where (see below)

vars == <<db, contracts, holds, used, offers, submitted, mu, th, published, slips>>

-----------------------------------------------------------------------------
(* Rows, messages and goroutines.                                          *)

Amount == Prices \cup {0}  \* 0: no price given

BidRow == [status : {"none", "pending", "negotiating", "matched"},
           ask : Asks \cup {NoAsk}, price : Amount]
AskRow == {"none", "pending", "matched"}
Tables == [bid : [Bids -> BidRow], ask : [Asks -> AskRow]]

NoRow   == [status |-> "none", ask |-> NoAsk, price |-> 0]
OpenRow == [status |-> "pending", ask |-> NoAsk, price |-> 0]

Offer    == [bid : Bids, ask : Asks, price : Prices]
Contract == [id : 0..MaxContracts, bid : Bids, ask : Asks, price : Amount]
Hold     == [id : 0..MaxContracts, bid : Bids, price : Amount]

Notice == [kind : {"candidate", "suggestion", "received", "busy", "rejected",
                   "matched"},
           to : {"shipper", "driver"}, bid : Bids, ask : Asks]

PC == {"offer_update", "offer_forward", "offer_ack",
       "reject_update", "reject_notify",
       "check_balance", "request_hold", "write_contract", "match_bid", "match_ask",
       "announce"}

Work == [pc : PC, bid : Bids, ask : Asks, price : Amount,
         row : BidRow, id : 0..MaxContracts]
Idle == [pc |-> "idle"]

\* The causes the properties allow for, written down where they happen: bids on
\* which a handler acted after reading a row the master no longer had, contracts
\* whose deposit request the producer lost, and contracts whose AcceptOffer ended
\* between that request and the flip of the bid.
Slips == [stale : SUBSET Bids, lost : SUBSET (0..MaxContracts),
          cut : SUBSET (0..MaxContracts)]

-----------------------------------------------------------------------------
(* The repository: writes append a state to the log of the master, reads   *)
(* see the state the slave has replayed.                                   *)

Master == db[Len(db)]
Slave  == db[1]

Write(tables) ==
  db' = IF Len(db) > Lag THEN Append(Tail(db), tables) ELSE Append(db, tables)

WithBid(b, row) == [bid |-> [Master.bid EXCEPT ![b] = row], ask |-> Master.ask]
WithAsk(a, row) == [bid |-> Master.bid, ask |-> [Master.ask EXCEPT ![a] = row]]

UpdateBid(b, row) == Write(WithBid(b, row))
UpdateAsk(a, row) == Write(WithAsk(a, row))

\* A handler acts on the row of b that the slave shows.
Act(b) == slips' = IF Slave.bid[b] = Master.bid[b] THEN slips
                   ELSE [slips EXCEPT !.stale = @ \cup {b}]

Replay == /\ Len(db) > 1
          /\ db' = Tail(db)
          /\ published' = {}
          /\ UNCHANGED <<contracts, holds, used, offers, submitted, mu, th, slips>>

(* NATS and RabbitMQ publications whose errors are ignored or only logged. *)
Publish(notices) == \/ published' = notices
                    \/ "mq" \in Faults /\ published' = {}

(* Taking the mutex, moving on under it, and returning from a handler.     *)
Lock(t, work) == /\ th[t] = Idle
                 /\ mu = Free
                 /\ mu' = t
                 /\ th' = [th EXCEPT ![t] = work]
Goto(t, pc) == th' = [th EXCEPT ![t].pc = pc] /\ UNCHANGED mu
Return(t)   == th' = [th EXCEPT ![t] = Idle] /\ mu' = Free

\* Goroutines end, some of them between the request for the deposit and the flip.
End(ts) ==
  slips' = [slips EXCEPT !.cut = @ \cup
    {th[t].id : t \in {u \in ts : th[u].pc \in {"write_contract", "match_bid"}}}]

\* (variant) an early return on an error keeps the mutex
ErrorKeepsLock(t) ==
  /\ "db" \in Faults
  /\ th' = [th EXCEPT ![t] = Idle] /\ UNCHANGED mu
  /\ End({t})
  /\ published' = {}
  /\ UNCHANGED <<db, contracts, holds, used, offers, submitted>>

DbError(t) == /\ "db" \in Faults
              /\ Return(t)
              /\ End({t})
              /\ published' = {}
              /\ UNCHANGED <<db, contracts, holds, used, offers, submitted>>

-----------------------------------------------------------------------------
(* Posting bids and asks, and quoting: no lock is held.                    *)

\* Which pending asks are near enough, and which bids are eligible and how they
\* rank, is left open: any selection of the rows the slave shows as pending.
Broadcast(b) ==
  \E fits \in SUBSET {a \in Asks : Slave.ask[a] = "pending"} :
    Publish({[kind |-> "candidate", to |-> "driver", bid |-> b, ask |-> a] : a \in fits})

Suggest(a) ==
  \E ranked \in SUBSET {b \in Bids : Slave.bid[b].status = "pending"} :
    Publish({[kind |-> "suggestion", to |-> "driver", bid |-> b, ask |-> a] : b \in ranked})

SubmitBid(b) ==
  /\ Master.bid[b].status = "none"
  /\ UpdateBid(b, OpenRow)
  /\ Broadcast(b)
  /\ UNCHANGED <<contracts, holds, used, offers, submitted, mu, th, slips>>

SubmitAsk(a) ==
  /\ Master.ask[a] = "none"
  /\ UpdateAsk(a, "pending")
  /\ Suggest(a)
  /\ UNCHANGED <<contracts, holds, used, offers, submitted, mu, th, slips>>

\* Neither the bid nor the state of the ask is looked at before queueing.
SubmitOffer(b, a, p) ==
  LET m == [bid |-> b, ask |-> a, price |-> p] IN
  /\ Slave.ask[a] # "none"
  /\ m \notin offers
  /\ offers' = offers \cup {m}
  /\ submitted' = submitted \cup {m}
  /\ published' = {}
  /\ UNCHANGED <<db, contracts, holds, used, mu, th, slips>>

-----------------------------------------------------------------------------
(* ProcessOfferQueue, called by the subscription.  A failed read (the row  *)
(* not replayed yet, a database error) is answered by a Nak: the message   *)
(* stays, so that step changes nothing and has no action here.             *)

\* (variant) the bid's own identifier stored as the offered ask
QuotedWrongId(m) == [status |-> "negotiating", ask |-> m.bid, price |-> m.price]
Quoted(m) == [status |-> "negotiating", ask |-> m.ask, price |-> m.price]
OfferWork(m, pc) == [pc |-> pc, bid |-> m.bid, ask |-> m.ask,
                     price |-> m.price, row |-> Quoted(m), id |-> 0]

TakeOffer(m) ==
  /\ m \in offers
  /\ Slave.bid[m.bid].status = "pending"
  /\ Act(m.bid)
  /\ Lock(Consumer, OfferWork(m, "offer_update"))
  /\ published' = {}
  /\ UNCHANGED <<db, contracts, holds, used, offers, submitted>>

\* (variant) a taken bid acknowledges the offer without a word to the driver
RefuseSilently(m) ==
  /\ m \in offers
  /\ th[Consumer] = Idle /\ mu = Free
  /\ Slave.bid[m.bid].status \in {"negotiating", "matched"}
  /\ published' = {}
  /\ th' = [th EXCEPT ![Consumer] = OfferWork(m, "offer_ack")]
  /\ UNCHANGED <<db, contracts, holds, used, offers, submitted, mu, slips>>

RefuseOffer(m) ==
  /\ m \in offers
  /\ th[Consumer] = Idle /\ mu = Free
  /\ Slave.bid[m.bid].status \in {"negotiating", "matched"}
  /\ Publish({[kind |-> "busy", to |-> "driver", bid |-> m.bid,
               ask |-> m.ask]})
  /\ th' = [th EXCEPT ![Consumer] = OfferWork(m, "offer_ack")]
  /\ UNCHANGED <<db, contracts, holds, used, offers, submitted, mu, slips>>

OfferUpdate ==
  LET w == th[Consumer] IN
  /\ w.pc = "offer_update"
  /\ \/ /\ UpdateBid(w.bid, w.row)
        /\ Goto(Consumer, "offer_forward")
        /\ published' = {}
        /\ UNCHANGED <<contracts, holds, used, offers, submitted, slips>>
     \/ DbError(Consumer)

OfferForward ==
  LET w == th[Consumer] IN
  /\ w.pc = "offer_forward"
  /\ Publish({[kind |-> "received", to |-> "shipper", bid |-> w.bid,
               ask |-> w.ask]})
  /\ th' = [th EXCEPT ![Consumer].pc = "offer_ack"]
  /\ mu' = Free
  /\ UNCHANGED <<db, contracts, holds, used, offers, submitted, slips>>

OfferAck ==
  LET w == th[Consumer] IN
  /\ w.pc = "offer_ack"
  /\ \/ offers' = offers \ {[bid |-> w.bid, ask |-> w.ask, price |-> w.price]}
     \/ "ack" \in Faults /\ UNCHANGED offers
  /\ th' = [th EXCEPT ![Consumer] = Idle]
  /\ published' = {}
  /\ UNCHANGED <<db, contracts, holds, used, submitted, mu, slips>>

-----------------------------------------------------------------------------
(* RejectOffer.  The ask named by the shipper is not compared with the ask *)
(* under negotiation.                                                      *)

\* (variant) the status of the bid is not checked
RejectAnyBid(t, b, a) ==
  /\ Slave.bid[b].status # "none"
  /\ Lock(t, [pc |-> "reject_update", bid |-> b, ask |-> a, price |-> 0,
              row |-> OpenRow, id |-> 0])
  /\ Act(b)
  /\ published' = {}
  /\ UNCHANGED <<db, contracts, holds, used, offers, submitted>>

RejectBegin(t, b, a) ==
  /\ Slave.bid[b].status = "negotiating"
  /\ Lock(t, [pc |-> "reject_update", bid |-> b, ask |-> a, price |-> 0,
              row |-> OpenRow, id |-> 0])
  /\ Act(b)
  /\ published' = {}
  /\ UNCHANGED <<db, contracts, holds, used, offers, submitted>>

RejectUpdate(t) ==
  LET w == th[t] IN
  /\ w.pc = "reject_update"
  /\ \/ /\ UpdateBid(w.bid, w.row)
        /\ Goto(t, "reject_notify")
        /\ published' = {}
        /\ UNCHANGED <<contracts, holds, used, offers, submitted, slips>>
     \/ DbError(t)

\* An ask that cannot be read costs the notice, not the call.
RejectNotify(t) ==
  LET w == th[t] IN
  /\ w.pc = "reject_notify"
  /\ \/ /\ Slave.ask[w.ask] # "none"
        /\ Publish({[kind |-> "rejected", to |-> "driver", bid |-> w.bid,
                     ask |-> w.ask]})
     \/ /\ Slave.ask[w.ask] = "none" \/ "db" \in Faults
        /\ published' = {}
  /\ Return(t)
  /\ UNCHANGED <<db, contracts, holds, used, offers, submitted, slips>>

-----------------------------------------------------------------------------
(* AcceptOffer.  p is the price the shipper confirms, 0 when left out.     *)

\* (variant) the ask is not compared with the ask that quoted
AcceptAnyAsk(t, b, a, p) ==
  LET row == Slave.bid[b] IN
  /\ used < MaxContracts
  /\ row.status = "negotiating"
  /\ p > 0 => p = row.price
  /\ Slave.ask[a] # "none"
  /\ Lock(t, [pc |-> "check_balance", bid |-> b, ask |-> a, price |-> p,
              row |-> row, id |-> 0])
  /\ Act(b)
  /\ published' = {}
  /\ UNCHANGED <<db, contracts, holds, used, offers, submitted>>

AcceptBegin(t, b, a, p) ==
  LET row == Slave.bid[b] IN
  /\ used < MaxContracts
  /\ row.status = "negotiating"
  /\ row.ask = a
  /\ p > 0 => p = row.price
  /\ Slave.ask[a] # "none"
  /\ Lock(t, [pc |-> "check_balance", bid |-> b, ask |-> a, price |-> p,
              row |-> row, id |-> 0])
  /\ Act(b)
  /\ published' = {}
  /\ UNCHANGED <<db, contracts, holds, used, offers, submitted>>

\* The wallet is unreachable or the balance is short: the call ends here.
BalanceRefused(t) ==
  /\ th[t].pc = "check_balance"
  /\ Return(t)
  /\ published' = {}
  /\ UNCHANGED <<db, contracts, holds, used, offers, submitted, slips>>

BalanceSuffices(t) ==
  /\ th[t].pc = "check_balance"
  /\ Goto(t, "request_hold")
  /\ published' = {}
  /\ UNCHANGED <<db, contracts, holds, used, offers, submitted, slips>>

\* The producer's error is dropped: a lost record goes unnoticed.
PublishHold(t, price) ==
  LET w == th[t] IN
  /\ w.pc = "request_hold"
  /\ used < MaxContracts
  /\ used' = used + 1
  /\ \/ /\ holds' = holds \cup {[id |-> used + 1, bid |-> w.bid, price |-> price]}
        /\ UNCHANGED slips
     \/ /\ "kafka" \in Faults /\ UNCHANGED holds
        /\ slips' = [slips EXCEPT !.lost = @ \cup {used + 1}]
  /\ th' = [th EXCEPT ![t] = [w EXCEPT !.pc = "write_contract", !.id = used + 1]]
  /\ published' = {}
  /\ UNCHANGED <<db, contracts, offers, submitted, mu>>

\* (variant) the deposit is computed from the price the client confirms
HoldClientPrice(t) == PublishHold(t, th[t].price)

\* The deposit is requested before the contract is written.
RequestHold(t) == PublishHold(t, th[t].row.price)

\* (variant) the error of CreateMatchContract is only logged
WriteContractLoosely(t) ==
  LET w == th[t] IN
  /\ w.pc = "write_contract"
  /\ \/ contracts' = contracts \cup {[id |-> w.id, bid |-> w.bid, ask |-> w.ask,
                                      price |-> w.row.price]}
     \/ "db" \in Faults /\ UNCHANGED contracts
  /\ Goto(t, "match_bid")
  /\ published' = {}
  /\ UNCHANGED <<db, holds, used, offers, submitted, slips>>

WriteContract(t) ==
  LET w == th[t] IN
  /\ w.pc = "write_contract"
  /\ \/ /\ contracts' = contracts \cup {[id |-> w.id, bid |-> w.bid,
                                         ask |-> w.ask, price |-> w.row.price]}
        /\ Goto(t, "match_bid")
        /\ published' = {}
        /\ UNCHANGED <<db, holds, used, offers, submitted, slips>>
     \/ DbError(t)

\* (variant) the status of the bid is not flipped
MatchBidUnflipped(t) ==
  LET w == th[t] IN
  /\ w.pc = "match_bid"
  /\ \/ /\ UpdateBid(w.bid, w.row)
        /\ Goto(t, "match_ask")
        /\ published' = {}
        /\ UNCHANGED <<contracts, holds, used, offers, submitted, slips>>
     \/ DbError(t)

MatchBid(t) ==
  LET w == th[t] IN
  /\ w.pc = "match_bid"
  /\ \/ /\ UpdateBid(w.bid, [w.row EXCEPT !.status = "matched"])
        /\ Goto(t, "match_ask")
        /\ published' = {}
        /\ UNCHANGED <<contracts, holds, used, offers, submitted, slips>>
     \/ DbError(t)

MatchAsk(t) ==
  LET w == th[t] IN
  /\ w.pc = "match_ask"
  /\ \/ /\ UpdateAsk(w.ask, "matched")
        /\ Goto(t, "announce")
        /\ published' = {}
        /\ UNCHANGED <<contracts, holds, used, offers, submitted, slips>>
     \/ DbError(t)

Announce(t) ==
  LET w == th[t] IN
  /\ w.pc = "announce"
  /\ Publish({[kind |-> "matched", to |-> who, bid |-> w.bid, ask |-> w.ask]
                : who \in {"shipper", "driver"}})
  /\ Return(t)
  /\ UNCHANGED <<db, contracts, holds, used, offers, submitted, slips>>

-----------------------------------------------------------------------------
(* The process dies: goroutines and mutex are gone, tables and queue stay. *)

Crash ==
  /\ "crash" \in Faults
  /\ \E t \in Threads : th[t] # Idle
  /\ th' = [t \in Threads |-> Idle]
  /\ mu' = Free
  /\ End(Threads)
  /\ published' = {}
  /\ UNCHANGED <<db, contracts, holds, used, offers, submitted>>

-----------------------------------------------------------------------------
Init ==
  /\ db = <<[bid |-> [b \in Bids |-> NoRow], ask |-> [a \in Asks |-> "none"]]>>
  /\ contracts = {} /\ holds = {} /\ used = 0
  /\ offers = {} /\ submitted = {}
  /\ mu = Free
  /\ th = [t \in Threads |-> Idle]
  /\ published = {}
  /\ slips = [stale |-> {}, lost |-> {}, cut |-> {}]

Request ==
  \/ \E b \in Bids : SubmitBid(b)
  \/ \E a \in Asks : SubmitAsk(a)
  \/ \E b \in Bids, a \in Asks, p \in Prices : SubmitOffer(b, a, p)
  \/ \E t \in Callers, b \in Bids, a \in Asks :
       \/ RejectBegin(t, b, a)
       \/ \E p \in Amount : AcceptBegin(t, b, a, p)

Handler(t) == \/ RejectUpdate(t) \/ RejectNotify(t)
              \/ BalanceRefused(t) \/ BalanceSuffices(t) \/ RequestHold(t)
              \/ WriteContract(t) \/ MatchBid(t) \/ MatchAsk(t) \/ Announce(t)

Queue == \/ \E m \in offers : TakeOffer(m) \/ RefuseOffer(m)
         \/ OfferUpdate \/ OfferForward \/ OfferAck

Next == Request \/ (\E t \in Callers : Handler(t)) \/ Queue \/ Replay \/ Crash

Spec == Init /\ [][Next]_vars

-----------------------------------------------------------------------------
(* Fairness.  Handlers run to completion, the wallet call has a timeout,    *)
(* the slave keeps replaying; JetStream delivers every message again until *)
(* it is acknowledged, and a Go mutex lets no waiter starve, so delivery   *)
(* gets strong fairness.  Users and failures are never fair; that a queued *)
(* quote is answered needs its update not to fail on every delivery.       *)

Fairness ==
  /\ \A t \in Callers : WF_vars(Handler(t))
  /\ WF_vars(OfferUpdate) /\ WF_vars(OfferForward) /\ WF_vars(OfferAck)
  /\ WF_vars(Replay)
  /\ \A m \in Offer : SF_vars(TakeOffer(m) \/ RefuseOffer(m))

UpdateFails == th[Consumer].pc = "offer_update" /\ th'[Consumer] = Idle

FairSpec == Spec /\ Fairness /\ <>[][~UpdateFails]_vars

-----------------------------------------------------------------------------
(* Properties.                                                             *)

\* Every variable has its type: rows, messages and goroutines are what the
\* entities and handlers of the engine allow, and the slave is at most Lag
\* states behind.
TypeOK ==
  /\ db \in Seq(Tables) /\ Len(db) \in 1..(Lag + 1)
  /\ contracts \subseteq Contract
  /\ holds \subseteq Hold
  /\ used \in 0..MaxContracts
  /\ offers \subseteq submitted /\ submitted \subseteq Offer
  /\ mu \in Threads \cup {Free}
  /\ th \in [Threads -> Work \cup {Idle}]
  /\ published \subseteq Notice
  /\ slips \in Slips

\* AcceptOffer writes the contract before it flips the states, so whatever
\* fails in between: a MATCHED bid has a contract with the very ask and price
\* of its row, and a MATCHED ask has a contract.
MatchedHasContract ==
  /\ \A b \in Bids : Master.bid[b].status = "matched" =>
       \E c \in contracts : /\ c.bid = b
                            /\ c.ask = Master.bid[b].ask
                            /\ c.price = Master.bid[b].price
  /\ \A a \in Asks : Master.ask[a] = "matched" =>
       \E c \in contracts : c.ask = a

\* The price of a contract is a price the driver of that very ask quoted for
\* that very bid, however stale the row AcceptOffer read: neither the price the
\* client confirms nor the floor price of an ask that never quoted.
PriceWasQuoted ==
  \A c \in contracts :
    [bid |-> c.bid, ask |-> c.ask, price |-> c.price] \in submitted

\* Every contract has a deposit request for its bid and its price under its own
\* identifier, unless that very request is one the producer lost (AcceptOffer
\* drops the error).
DepositRequested ==
  \A c \in contracts :
    c.id \in slips.lost \/ [id |-> c.id, bid |-> c.bid, price |-> c.price] \in holds

\* AcceptOffer requests the deposit before it writes the contract, so money may be
\* asked for a deal that never comes about; but only when that very attempt ended
\* between the two, by an error or a crash: any other request has its contract,
\* or a goroutine about to write it.
HoldHasContract ==
  \A h \in holds :
    \/ h.id \in slips.cut
    \/ \E c \in contracts : c.id = h.id /\ c.bid = h.bid /\ c.price = h.price
    \/ \E t \in Threads : /\ th[t].pc = "write_contract" /\ th[t].id = h.id
                          /\ th[t].bid = h.bid /\ th[t].row.price = h.price

\* A bid is sold once, for all the accepts, rejections and new quotes of a
\* negotiation: a second contract of one bid is due to an AcceptOffer that ended
\* after the first was written and before the bid was flipped, or to a handler
\* that acted on a row of the slave which the master had already left behind.
OneContractPerBid ==
  \A c, d \in contracts :
    c.bid = d.bid /\ c # d =>
      c.bid \in slips.stale \/ c.id \in slips.cut \/ d.id \in slips.cut

\* The shipper gets the quote that stands: when a contract is written, the master
\* has its bid under negotiation with the very ask and price of the contract,
\* not with a quote declined or replaced since AcceptOffer read the row, unless
\* a handler acted on an out-of-date row of that bid.
AcceptsCurrentQuote ==
  [][\A c \in contracts' \ contracts :
       c.bid \in slips.stale \/
       Master.bid[c.bid] = [status |-> "negotiating", ask |-> c.ask, price |-> c.price]]_vars

\* The rows of the master follow the state machine of BidLifecycle: the first
\* quote holds the soft lock until it is declined or accepted, and a matched
\* bid is final.
BL == INSTANCE BidLifecycle WITH deal <- Master.bid
Lifecycle == BL!Spec

\* While a bid is under negotiation no other driver's quote takes it over: the
\* later driver is told the bid is taken (ProcessOfferQueue, status check).
FirstQuoteHolds ==
  [][\A b \in Bids :
       Master.bid[b].status = "negotiating" /\ Master'.bid[b].status = "negotiating"
         => Master'.bid[b].ask = Master.bid[b].ask]_vars

\* Nobody waits in vain: every queued quote for a posted bid is forwarded to
\* the shipper or its driver is told that the bid is taken.
Answered(m) == th[Consumer].pc = "offer_ack" /\ OfferWork(m, "offer_ack") = th[Consumer]
OfferAnswered ==
  \A m \in Offer :
    (m \in offers /\ ~Answered(m) /\ Master.bid[m.bid].status # "none")
      ~> (\E n \in published : /\ n.kind \in {"received", "busy"}
                               /\ n.bid = m.bid /\ n.ask = m.ask)

\* The engine's mutex is always released again: no handler path keeps it.
MutexReleased == (mu # Free) ~> (mu = Free)
=============================================================================
