----------------------------- MODULE FlowProofs -----------------------------
(***************************************************************************)
(* A theorem about DepositFlow, for every value of its constants: what the *)
(* balance check of AcceptOffer is worth to the deposit it requests.       *)
(***************************************************************************)
EXTENDS FlowInv, MatchingProofs

USE ConstantsOK, FlowConstants DEF Threads

-----------------------------------------------------------------------------
(* Owners and accounts.                                                    *)

LEMMA OwnerTyped ==
  ASSUME NEW b \in Bids
  PROVE  Owner(b) \in Users /\ Owner(b) \in Accounts
BY DEF Owner, Accounts

(* Money moved between two accounts leaves the payer, and nobody else.     *)
LEMMA MovedTyped ==
  ASSUME NEW bal \in [Accounts -> Nat], NEW a \in Accounts, NEW c \in Accounts,
         NEW x \in Nat, bal[a] >= x
  PROVE  /\ L!Moved(bal, a, c, x) \in [Accounts -> Nat]
         /\ \A s \in Accounts : s # a => L!Moved(bal, a, c, x)[s] >= bal[s]
<1>1. \A s \in Accounts : bal[s] \in Nat
  OBVIOUS
<1>2. \A s \in Accounts :
        /\ bal[s] - (IF s = a THEN x ELSE 0) + (IF s = c THEN x ELSE 0) \in Nat
        /\ s # a => bal[s] - (IF s = a THEN x ELSE 0) + (IF s = c THEN x ELSE 0) >= bal[s]
  BY <1>1
<1>3. QED
  BY <1>2 DEF L!Moved

-----------------------------------------------------------------------------
(* The engine's side: who comes to request a deposit, and what he carries. *)

LEMMA RequestsOnly ==
  ASSUME [Next]_vars
  PROVE  UNCHANGED <<holds, used>> \/ \E t \in Callers : RequestHold(t)
BY DEF Next, Request, Handler, Queue, SubmitBid, SubmitAsk, SubmitOffer, RejectBegin,
   AcceptBegin, RejectUpdate, RejectNotify, BalanceRefused, BalanceSuffices, WriteContract,
   MatchBid, MatchAsk, Announce, TakeOffer, RefuseOffer, OfferUpdate, OfferForward,
   OfferAck, DbError, Replay, Crash, vars

LEMMA RequestCarries ==
  ASSUME ContractInv, NEW t \in Callers, RequestHold(t)
  PROVE  /\ th[t].pc = "request_hold" /\ th[t].bid \in Bids /\ th[t].row.price \in Prices
         /\ used' = used + 1 /\ used \in Nat
         /\ \/ holds' = holds
            \/ holds' = holds \cup {[id |-> used + 1, bid |-> th[t].bid,
                                     price |-> th[t].row.price]}
<1>1. TypeOK /\ WorkOK(th[t]) /\ th[t].pc = "request_hold"
  BY DEF ContractInv, RequestHold, PublishHold
<1>2. th[t] \in Work
  BY <1>1, WorkPc
<1>3. [bid |-> th[t].bid, ask |-> th[t].row.ask, price |-> th[t].row.price] \in submitted
  BY <1>1 DEF WorkOK, Accepting, RowQuoted
<1>4. th[t].row.price \in Prices
  BY <1>1, <1>3 DEF TypeOK, Offer
<1>5. used' = used + 1 /\ used \in Nat
      /\ \/ holds' = holds
         \/ holds' = holds \cup {[id |-> used + 1, bid |-> th[t].bid,
                                  price |-> th[t].row.price]}
  BY <1>1 DEF RequestHold, PublishHold, TypeOK
<1>6. QED
  BY <1>1, <1>2, <1>4, <1>5 DEF Work

(* Nobody comes to that point but from the balance check.                  *)
LEMMA ReachesRequest ==
  ASSUME TypeOK, [Next]_vars, NEW s \in Threads, th'[s].pc = "request_hold"
  PROVE  \/ th'[s] = th[s]
         \/ /\ s \in Callers /\ th[s].pc = "check_balance"
            /\ th'[s].bid = th[s].bid /\ th'[s].row = th[s].row
<1>0. th \in [Threads -> Work \cup {Idle}] /\ Idle.pc # "request_hold"
  BY DEF TypeOK, Idle
<1>1. ASSUME NEW t \in Threads, Return(t) PROVE th'[s] = th[s]
  BY <1>0, <1>1 DEF Return
<1>2. ASSUME NEW t \in Threads, NEW pc \in PC \ {"request_hold"}, Goto(t, pc), th[t] \in Work
      PROVE  th'[s] = th[s]
  BY <1>0, <1>2 DEF Goto, Work
<1>3. ASSUME NEW t \in Threads, NEW w, Lock(t, w), w.pc # "request_hold"
      PROVE  th'[s] = th[s]
  BY <1>0, <1>3 DEF Lock
<1>4. ASSUME NEW t \in Callers, BalanceSuffices(t)
      PROVE  \/ th'[s] = th[s]
             \/ /\ s \in Callers /\ th[s].pc = "check_balance"
                /\ th'[s].bid = th[s].bid /\ th'[s].row = th[s].row
  <2>1. th[t] \in Work
    BY <1>4, WorkPc DEF BalanceSuffices
  <2>2. QED
    BY <1>0, <1>4, <2>1 DEF BalanceSuffices, Goto, Work
<1>5. ASSUME NEW t \in Callers, Handler(t), ~BalanceSuffices(t) PROVE th'[s] = th[s]
  <2>1. CASE th[t] = Idle
    BY <1>5, <2>1 DEF Idle, Handler, RejectUpdate, RejectNotify, BalanceRefused,
       RequestHold, PublishHold, WriteContract, MatchBid, MatchAsk, Announce
  <2>2. CASE th[t] \in Work
    <3>1. CASE RequestHold(t)
      BY <1>0, <2>2, <3>1 DEF RequestHold, PublishHold, Work
    <3>2. CASE ~RequestHold(t)
      BY <1>1, <1>2, <1>5, <2>2, <3>2 DEF Handler, RejectUpdate, RejectNotify,
         BalanceRefused, WriteContract, MatchBid, MatchAsk, Announce, DbError, PC
    <3>3. QED
      BY <3>1, <3>2
  <2>3. QED
    BY <1>0, <2>1, <2>2
<1>6. ASSUME Queue PROVE th'[s] = th[s]
  <2>1. ASSUME NEW m \in offers, TakeOffer(m) \/ RefuseOffer(m) PROVE th'[s] = th[s]
    BY <1>0, <1>3, <2>1 DEF TakeOffer, RefuseOffer, OfferWork
  <2>2. CASE OfferUpdate
    BY <1>1, <1>2, <2>2, WorkPc DEF OfferUpdate, DbError, PC
  <2>3. CASE OfferForward \/ OfferAck
    <3>1. th[Consumer] \in Work
      BY <2>3, WorkPc DEF OfferForward, OfferAck
    <3>2. QED
      BY <1>0, <2>3, <3>1 DEF OfferForward, OfferAck, Work
  <2>4. QED
    BY <1>6, <2>1, <2>2, <2>3 DEF Queue
<1>7. ASSUME Request PROVE th'[s] = th[s]
  BY <1>3, <1>7 DEF Request, SubmitBid, SubmitAsk, SubmitOffer, RejectBegin, AcceptBegin
<1>8. CASE Replay \/ Crash \/ UNCHANGED vars
  BY <1>0, <1>8 DEF Replay, Crash, vars
<1>9. QED
  BY <1>4, <1>5, <1>6, <1>7, <1>8 DEF Next

-----------------------------------------------------------------------------
(* What excuses a refusal once, excuses it for good.                       *)

Grow == /\ holds \subseteq holds' /\ applied \subseteq applied'
        /\ unchecked \subseteq unchecked' /\ debited \subseteq debited'

LEMMA ExcusesStay ==
  ASSUME Grow
  PROVE  /\ \A b : Gone(b) => Gone(b)'
         /\ \A h : Excused(h) => Excused(h)'
BY DEF Grow, Gone, Excused, Rival

LEMMA Covered ==
  ASSUME NEW h \in refused
  PROVE  DepositsCovered => Excused(h)
BY DEF DepositsCovered, Excused

LEMMA EngineFlow ==
  ASSUME FlowInv, ContractInv', Engine
  PROVE  FlowInv'
<1>0. /\ ContractInv /\ FlowTypeOK /\ HoldsOK /\ Backed /\ DepositsCovered
      /\ UNCHANGED <<balance, applied, refused, debited, mock>> /\ [Next]_vars
      /\ unchecked \subseteq unchecked' /\ TypeOK
  BY DEF FlowInv, Engine, wallet, ContractInv
<1>1. holds \subseteq holds'
  BY <1>0, RequestsOnly, RequestCarries
<1>2. Grow
  BY <1>0, <1>1 DEF Grow
<1>3. FlowTypeOK'
  BY <1>0, <1>1 DEF FlowTypeOK
<1>4. ASSUME NEW s \in Threads PROVE Seen(th[s])'
  <2>1. CASE th'[s].pc # "request_hold"
    BY <2>1 DEF Seen
  <2>2. CASE th'[s] = th[s]
    BY <1>0, <1>2, <2>2, ExcusesStay DEF FlowInv, Seen
  <2>3. CASE /\ s \in Callers /\ th[s].pc = "check_balance" /\ th'[s].pc = "request_hold"
             /\ th'[s].bid = th[s].bid /\ th'[s].row = th[s].row
    <3>1. CheckBalance(th[s].bid, th[s].row.price)
      BY <2>3 DEF Engine
    <3>2. QED
      BY <1>0, <2>3, <3>1 DEF CheckBalance, Seen
  <2>4. QED
    BY <1>0, <2>1, <2>2, <2>3, ReachesRequest
<1>5. DepositsCovered'
  BY <1>0, <1>2, Covered, ExcusesStay DEF DepositsCovered, Excused
<1>6. CASE UNCHANGED <<holds, used>>
  <2>1. HoldsOK'
    BY <1>0, <1>6 DEF HoldsOK
  <2>2. Backed'
    BY <1>0, <1>2, <1>6, ExcusesStay DEF Backed
  <2>3. QED
    BY <1>3, <1>4, <1>5, <2>1, <2>2 DEF FlowInv
<1>7. ASSUME NEW t \in Callers, RequestHold(t) PROVE FlowInv'
  <2>1. PICK k : k = [id |-> used + 1, bid |-> th[t].bid, price |-> th[t].row.price]
    OBVIOUS
  <2>2. /\ k.bid \in Bids /\ k.price \in Prices /\ k.id = used + 1
        /\ used' = used + 1 /\ used \in Nat
        /\ holds' = holds \/ holds' = holds \cup {k}
        /\ th[t].pc = "request_hold" /\ th[t].bid = k.bid /\ th[t].row.price = k.price
    BY <1>0, <1>7, <2>1, RequestCarries
  <2>3. \A h \in holds : h.id \in 1..used /\ h.id # k.id
    BY <1>0, <2>2 DEF HoldsOK
  <2>4. \A h \in holds' : h \in holds \/ h = k
    BY <2>2
  <2>5. HoldsOK'
    <3>1. \A h \in holds' : h.id \in 1..used' /\ h.price \in Prices
      BY <1>0, <2>2, <2>3, <2>4 DEF HoldsOK
    <3>2. \A g, h \in holds' : g.id = h.id => g = h
      BY <1>0, <2>3, <2>4 DEF HoldsOK
    <3>3. QED
      BY <3>1, <3>2 DEF HoldsOK
  <2>6. balance[Owner(k.bid)] >= k.price \/ Excused(k)'
    <3>1. mock \/ balance[Owner(k.bid)] >= k.price \/ Gone(k.bid)
      BY <2>2 DEF FlowInv, Seen
    <3>2. CASE mock
      <4>1. k.id \in unchecked'
        BY <2>2, <3>2 DEF Engine
      <4>2. QED
        BY <4>1 DEF Excused
    <3>3. CASE Gone(k.bid)
      <4>1. CASE Owner(k.bid) \in debited
        BY <1>0, <4>1 DEF Excused
      <4>2. ASSUME NEW g \in holds, g.id \in applied, Owner(g.bid) = Owner(k.bid)
            PROVE  Excused(k)'
        <5>1. g # k /\ g \in holds'
          BY <1>1, <2>3
        <5>2. QED
          BY <1>0, <4>2, <5>1 DEF Excused, Rival
      <4>3. QED
        BY <3>3, <4>1, <4>2 DEF Gone
    <3>4. QED
      BY <3>1, <3>2, <3>3
  <2>7. Backed'
    <3>1. ASSUME NEW h \in holds', h.id \notin applied'
          PROVE  balance'[Owner(h.bid)] >= h.price \/ Excused(h)'
      <4>1. CASE h = k
        BY <1>0, <2>6, <4>1
      <4>2. CASE h \in holds
        BY <1>0, <1>2, <3>1, <4>2, ExcusesStay DEF Backed
      <4>3. QED
        BY <2>4, <4>1, <4>2
    <3>2. QED
      BY <3>1 DEF Backed
  <2>8. QED
    BY <1>3, <1>4, <1>5, <2>5, <2>7 DEF FlowInv
<1>8. QED
  BY <1>0, <1>6, <1>7, RequestsOnly

LEMMA RestartFlow ==
  ASSUME FlowInv, ContractInv', Restart
  PROVE  FlowInv'
<1>0. /\ FlowTypeOK /\ HoldsOK /\ Backed /\ DepositsCovered /\ mock' \in BOOLEAN
      /\ UNCHANGED <<balance, applied, refused, debited, unchecked, holds, used>>
  BY DEF FlowInv, Restart, wallet, Crash, vars
<1>1. FlowTypeOK' /\ HoldsOK' /\ Backed' /\ DepositsCovered'
  BY <1>0 DEF FlowTypeOK, HoldsOK, Backed, Excused, Rival, DepositsCovered
<1>2. \A s \in Threads : th'[s] = Idle
  BY DEF Restart, Crash, vars
<1>3. \A s \in Threads : Seen(th[s])'
  BY <1>2 DEF Seen, Idle
<1>4. QED
  BY <1>1, <1>3 DEF FlowInv

-----------------------------------------------------------------------------
(* The wallet's side.                                                      *)

(* Whoever has money taken from him goes on record, by a hold of his own   *)
(* or as a debit; nobody else's balance falls.                             *)
LEMMA WalletFlow ==
  ASSUME FlowInv, ContractInv', UNCHANGED <<vars, mock, unchecked>>, Grow, FlowTypeOK',
         \A h \in holds : balance'[Owner(h.bid)] < balance[Owner(h.bid)]
                            => h.id \in applied' \/ Excused(h)',
         \A b \in Bids : balance'[Owner(b)] < balance[Owner(b)] => Gone(b)',
         \A h \in refused' : Excused(h)'
  PROVE  FlowInv'
<1>0. /\ FlowTypeOK /\ HoldsOK /\ Backed /\ DepositsCovered /\ TypeOK
      /\ UNCHANGED <<holds, used, th, mock>>
  BY DEF FlowInv, vars, ContractInv
<1>1. HoldsOK'
  BY <1>0 DEF HoldsOK
<1>2. \A u \in Users : balance[u] \in Nat /\ balance'[u] \in Nat
  BY <1>0 DEF FlowTypeOK, Accounts
<1>3. \A h \in holds : Owner(h.bid) \in Users /\ h.price \in Nat
  BY <1>0, OwnerTyped DEF TypeOK, Hold, HoldsOK
<1>4. ASSUME NEW h \in holds, h.id \notin applied'
      PROVE  balance'[Owner(h.bid)] >= h.price \/ Excused(h)'
  <2>1. h.id \notin applied
    BY <1>4 DEF Grow
  <2>2. CASE balance[Owner(h.bid)] >= h.price
    BY <1>2, <1>3, <1>4, <2>2
  <2>3. CASE Excused(h)
    BY <2>3, ExcusesStay
  <2>4. QED
    BY <1>0, <2>1, <2>2, <2>3 DEF Backed
<1>5. Backed'
  BY <1>0, <1>4 DEF Backed
<1>6. ASSUME NEW s \in Threads PROVE Seen(th[s])'
  <2>1. CASE th[s].pc # "request_hold"
    BY <1>0, <2>1 DEF Seen
  <2>2. CASE th[s].pc = "request_hold"
    <3>1. th[s] \in Work
      BY <1>0, <2>2, WorkPc
    <3>2. th[s].bid \in Bids /\ th[s].row.price \in Nat
      <4>1. th[s].bid \in Bids /\ th[s].row \in BidRow
        BY <3>1 DEF Work
      <4>2. Amount \subseteq Nat
        BY DEF Amount
      <4>3. QED
        BY <4>1, <4>2 DEF BidRow
    <3>3. mock \/ balance[Owner(th[s].bid)] >= th[s].row.price \/ Gone(th[s].bid)
      BY <2>2 DEF FlowInv, Seen
    <3>4. Gone(th[s].bid) => Gone(th[s].bid)'
      BY <1>0, ExcusesStay
    <3>5. Owner(th[s].bid) \in Users
      BY <3>2, OwnerTyped
    <3>6. mock \/ balance'[Owner(th[s].bid)] >= th[s].row.price \/ Gone(th[s].bid)'
      BY <1>0, <1>2, <3>2, <3>3, <3>4, <3>5
    <3>7. QED
      BY <1>0, <3>6 DEF Seen
  <2>3. QED
    BY <2>1, <2>2
<1>7. DepositsCovered'
  BY DEF DepositsCovered, Excused
<1>8. QED
  BY <1>1, <1>5, <1>6, <1>7 DEF FlowInv

LEMMA HoldFlow ==
  ASSUME FlowInv, ContractInv', NEW h \in holds, HoldDeposit(h)
  PROVE  FlowInv'
<1>0. /\ FlowTypeOK /\ HoldsOK /\ Backed /\ DepositsCovered /\ TypeOK
      /\ UNCHANGED <<vars, mock, unchecked, debited>> /\ UNCHANGED holds
      /\ h.id \notin applied
  BY DEF FlowInv, ContractInv, HoldDeposit, vars
<1>1. \A b \in Bids : Owner(b) \in Accounts
  BY OwnerTyped
<1>2. h.bid \in Bids /\ \A g \in holds : g.bid \in Bids
  BY <1>0 DEF TypeOK, Hold
<1>3. CASE balance[Owner(h.bid)] >= h.price
  <2>1. /\ applied' = applied \cup {h.id} /\ UNCHANGED refused
        /\ balance' = L!Moved(balance, Owner(h.bid), Escrow, h.price)
    BY <1>3 DEF HoldDeposit, L!Move, L!Once
  <2>2. Grow
    BY <1>0, <2>1 DEF Grow
  <2>3. h.price \in Nat /\ Escrow \in Accounts /\ balance \in [Accounts -> Nat]
    BY <1>0 DEF HoldsOK, FlowTypeOK, Accounts
  <2>4. /\ balance' \in [Accounts -> Nat]
        /\ \A s \in Accounts : s # Owner(h.bid) => balance'[s] >= balance[s]
    BY <1>1, <1>2, <1>3, <2>1, <2>3, MovedTyped
  <2>5. FlowTypeOK'
    BY <1>0, <2>1, <2>4 DEF FlowTypeOK
  <2>6. \A s \in Accounts : balance[s] \in Nat /\ balance'[s] \in Nat
    BY <2>3, <2>4
  <2>7. ASSUME NEW b \in Bids, balance'[Owner(b)] < balance[Owner(b)]
        PROVE  Owner(b) = Owner(h.bid)
    BY <1>1, <2>4, <2>6, <2>7
  <2>8. \A b \in Bids : balance'[Owner(b)] < balance[Owner(b)] => Gone(b)'
    BY <1>0, <2>1, <2>7 DEF Gone
  <2>9. \A g \in holds : balance'[Owner(g.bid)] < balance[Owner(g.bid)]
                           => g.id \in applied' \/ Excused(g)'
    BY <1>0, <1>2, <2>1, <2>7 DEF Excused, Rival
  <2>10. \A g \in refused' : Excused(g)'
    BY <1>0, <2>1, <2>2, Covered, ExcusesStay
  <2>11. QED
    BY <1>0, <2>2, <2>5, <2>8, <2>9, <2>10, WalletFlow
<1>4. CASE ~(balance[Owner(h.bid)] >= h.price)
  <2>1. refused' = refused \cup {h} /\ UNCHANGED <<balance, applied>>
    BY <1>4 DEF HoldDeposit
  <2>2. Grow
    BY <1>0, <2>1 DEF Grow
  <2>3. FlowTypeOK'
    BY <1>0, <2>1 DEF FlowTypeOK
  <2>4. \A g \in refused' : Excused(g)
    BY <1>0, <1>4, <2>1, Covered DEF Backed
  <2>5. \A s \in Accounts : ~(balance'[s] < balance[s])
    BY <1>0, <2>1 DEF FlowTypeOK
  <2>6. \A g \in refused' : Excused(g)'
    BY <2>2, <2>4, ExcusesStay
  <2>7. QED
    BY <1>0, <1>1, <1>2, <2>2, <2>3, <2>5, <2>6, WalletFlow
<1>5. QED
  BY <1>3, <1>4

LEMMA ClientFlow ==
  ASSUME FlowInv, ContractInv', Client
  PROVE  FlowInv'
<1>0. /\ FlowTypeOK /\ DepositsCovered /\ TypeOK
      /\ UNCHANGED <<vars, refused, mock, unchecked>> /\ UNCHANGED holds
      /\ debited' = debited \cup {u \in Users : balance'[u] < balance[u]}
  BY DEF FlowInv, ContractInv, Client, vars
<1>1. balance \in [Accounts -> Nat] /\ Users \subseteq Accounts /\ Escrow \in Accounts
      /\ Prices \subseteq Nat
  BY <1>0 DEF FlowTypeOK, Accounts
<1>2. balance' \in [Accounts -> Nat] /\ applied \subseteq applied'
  <2>1. ASSUME NEW u \in Users, NEW x \in Prices, L!Deposit(u, x)
        PROVE  balance' \in [Accounts -> Nat] /\ applied \subseteq applied'
    BY <1>1, <2>1 DEF L!Deposit
  <2>2. ASSUME NEW r \in ClientRefs, NEW u \in Users, NEW v \in Users, NEW x \in Prices,
               L!Move(r, u, v, x)
        PROVE  balance' \in [Accounts -> Nat] /\ applied \subseteq applied'
    BY <1>1, <2>2, MovedTyped DEF L!Move, L!Once
  <2>3. ASSUME NEW r \in ClientRefs, NEW u \in Users, NEW v \in Users, NEW x \in Prices,
               NEW fare \in Prices, L!Settle(r, u, v, x, fare)
        PROVE  balance' \in [Accounts -> Nat] /\ applied \subseteq applied'
    <3>1. PICK mid : mid = L!Moved(balance, Escrow, u, x)
      OBVIOUS
    <3>2. /\ balance[Escrow] >= x /\ balance[v] >= fare
          /\ applied \subseteq applied' /\ balance' = L!Moved(mid, v, u, fare)
      BY <2>3, <3>1 DEF L!Settle, L!Once
    <3>3. mid \in [Accounts -> Nat] /\ mid[v] >= balance[v]
      BY <1>1, <3>1, <3>2, MovedTyped
    <3>4. mid[v] \in Nat /\ balance[v] \in Nat /\ fare \in Nat
      BY <1>1, <3>3
    <3>5. mid[v] >= fare
      BY <3>2, <3>3, <3>4
    <3>6. QED
      BY <1>1, <3>2, <3>3, <3>4, <3>5, MovedTyped
  <2>4. QED
    BY <2>1, <2>2, <2>3 DEF Client
<1>3. FlowTypeOK' /\ Grow
  BY <1>0, <1>2 DEF FlowTypeOK, Grow
<1>4. \A b \in Bids : balance'[Owner(b)] < balance[Owner(b)] => Owner(b) \in debited'
  BY <1>0, OwnerTyped
<1>5. \A h \in holds : h.bid \in Bids
  BY <1>0 DEF TypeOK, Hold
<1>6. \A b \in Bids : balance'[Owner(b)] < balance[Owner(b)] => Gone(b)'
  BY <1>4 DEF Gone
<1>7. \A h \in holds : balance'[Owner(h.bid)] < balance[Owner(h.bid)]
                         => h.id \in applied' \/ Excused(h)'
  BY <1>4, <1>5 DEF Excused
<1>8. \A g \in refused' : Excused(g)'
  BY <1>0, <1>3, Covered, ExcusesStay
<1>9. QED
  BY <1>0, <1>3, <1>6, <1>7, <1>8, WalletFlow

-----------------------------------------------------------------------------
(* The composition.                                                        *)

LEMMA InitFlow == FInit => FlowInv
<1> SUFFICES ASSUME FInit PROVE FlowInv
  OBVIOUS
<1>1. /\ ContractInv /\ holds = {} /\ refused = {} /\ balance = Opening /\ mock \in BOOLEAN
      /\ \A t \in Threads : th[t] = Idle
  BY InitContract DEF FInit, Init
<1>2. Opening \in [Accounts -> Nat]
  BY DEF Opening, Accounts
<1>3. QED
  BY <1>1, <1>2 DEF FlowInv, FlowTypeOK, HoldsOK, Seen, Idle, Backed, DepositsCovered

LEMMA NextFlow == ASSUME FlowInv, [FNext]_fvars PROVE FlowInv'
<1>1. [Next]_vars
  BY DEF FNext, Engine, Restart, Next, HoldDeposit, Client, fvars
<1>2. ContractInv'
  BY <1>1, NextContract DEF FlowInv
<1>3. CASE UNCHANGED fvars
  <2>1. UNCHANGED <<balance, applied, refused, debited, mock, unchecked, holds, used, th>>
    BY <1>3 DEF fvars, wallet, vars
  <2>2. FlowTypeOK' /\ HoldsOK' /\ Backed' /\ DepositsCovered'
    BY <2>1 DEF FlowInv, FlowTypeOK, HoldsOK, Backed, Excused, Rival, DepositsCovered
  <2>3. \A s \in Threads : Seen(th[s])'
    BY <2>1 DEF FlowInv, Seen, Gone
  <2>4. QED
    BY <1>2, <2>2, <2>3 DEF FlowInv
<1>4. QED
  BY <1>2, <1>3, EngineFlow, RestartFlow, HoldFlow, ClientFlow DEF FNext

(* A deposit turned down was vouched for by the mock wallet, or its        *)
(* shipper's money went elsewhere after AcceptOffer saw it: for every lag, *)
(* failure, restart and number of callers.                                 *)
THEOREM RefusalsExplained == FSpec => []DepositsCovered
<1>1. FlowInv => DepositsCovered
  BY DEF FlowInv
<1>2. FlowInv /\ [FNext]_fvars => FlowInv'
  BY NextFlow
<1>3. QED
  BY <1>1, <1>2, InitFlow, PTL DEF FSpec
=============================================================================
