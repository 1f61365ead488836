--------------------------- MODULE MatchingProofs ---------------------------
(***************************************************************************)
(* Theorems about Matching, for every value of its constants: the types;   *)
(* AcceptOffer's contract safety; that a bid is sold once, for the quote   *)
(* that stands, and that no deposit is requested in vain, but for the      *)
(* slips the history names; and, without replication lag, that the engine  *)
(* implements BidLifecycle.                                                *)
(***************************************************************************)
EXTENDS MatchingInv, TLAPS, SequenceTheorems

USE ConstantsOK DEF Threads

-----------------------------------------------------------------------------
(* The log of the master.                                                  *)

DbOK == db \in Seq(Tables) /\ Len(db) \in 1..(Lag + 1)

(* Every state the slave may still show after a write is one it could show *)
(* before, or the state just written.                                      *)
LEMMA WriteLog ==
  ASSUME DbOK, NEW s \in Tables, Write(s)
  PROVE  /\ DbOK'
         /\ Master' = s
         /\ \A i \in 1..Len(db)' : \/ db'[i] = s
                                   \/ \E j \in 1..Len(db) : db'[i] = db[j]
<1>1. CASE Len(db) > Lag
  <2>1. db' = Append(Tail(db), s)
    BY <1>1 DEF Write
  <2>2. Tail(db) \in Seq(Tables) /\ Len(Tail(db)) = Len(db) - 1
        /\ \A i \in 1..Len(Tail(db)) : Tail(db)[i] = db[i + 1]
    BY DEF DbOK
  <2>3. db' \in Seq(Tables) /\ Len(db)' = Len(db)
    BY <2>1, <2>2, AppendProperties DEF DbOK
  <2>4. Master' = s
    BY <2>1, <2>2, <2>3, AppendProperties DEF Master, DbOK
  <2>5. \A i \in 1..Len(db)' : db'[i] = s \/ (i + 1 \in 1..Len(db) /\ db'[i] = db[i + 1])
    <3> SUFFICES ASSUME NEW i \in 1..Len(db)'
                 PROVE  db'[i] = s \/ (i + 1 \in 1..Len(db) /\ db'[i] = db[i + 1])
      OBVIOUS
    <3>1. CASE i = Len(db)'
      BY <3>1, <2>4 DEF Master
    <3>2. CASE i # Len(db)'
      <4>1. i \in 1..Len(Tail(db)) /\ i + 1 \in 1..Len(db)
        <5>1. Len(db) \in Nat /\ Len(Tail(db)) = Len(db) - 1 /\ i \in 1..Len(db)
          BY <2>2, <2>3 DEF DbOK
        <5>2. i # Len(db)
          BY <3>2, <2>3
        <5>3. QED
          BY <5>1, <5>2
      <4>2. db'[i] = Tail(db)[i]
        BY <4>1, <2>1, <2>2, AppendProperties
      <4>3. QED
        BY <4>1, <4>2, <2>2
    <3>3. QED
      BY <3>1, <3>2
  <2>6. QED
    BY <2>3, <2>4, <2>5 DEF DbOK
<1>2. CASE ~(Len(db) > Lag)
  <2>1. db' = Append(db, s)
    BY <1>2 DEF Write
  <2>2. QED
    BY <1>2, <2>1 DEF DbOK, Master
<1>3. QED
  BY <1>1, <1>2

LEMMA ReplayLog ==
  ASSUME DbOK, Len(db) > 1, db' = Tail(db)
  PROVE  /\ DbOK'
         /\ Master' = Master
         /\ \A i \in 1..Len(db)' : \E j \in 1..Len(db) : db'[i] = db[j]
<1>1. Tail(db) \in Seq(Tables) /\ Len(Tail(db)) = Len(db) - 1
      /\ \A i \in 1..Len(Tail(db)) : Tail(db)[i] = db[i + 1]
  BY DEF DbOK
<1>2. \A i \in 1..Len(db)' : i + 1 \in 1..Len(db) /\ db'[i] = db[i + 1]
  BY <1>1 DEF DbOK
<1>3. QED
  BY <1>1, <1>2 DEF DbOK, Master

LEMMA EndsTyped ==
  ASSUME DbOK
  PROVE  Master \in Tables /\ Slave \in Tables
BY DEF DbOK, Master, Slave

LEMMA WithTyped ==
  ASSUME DbOK
  PROVE  /\ \A b \in Bids, row \in BidRow : WithBid(b, row) \in Tables
         /\ \A a \in Asks, row \in AskRow : WithAsk(a, row) \in Tables
BY EndsTyped DEF Tables, WithBid, WithAsk

-----------------------------------------------------------------------------
(* Type correctness.                                                       *)

LEMMA UpdateTyped ==
  ASSUME DbOK,
         \/ \E b \in Bids, row \in BidRow : UpdateBid(b, row)
         \/ \E a \in Asks, row \in AskRow : UpdateAsk(a, row)
  PROVE  DbOK'
BY WriteLog, WithTyped DEF UpdateBid, UpdateAsk

LEMMA RowsTyped == NoRow \in BidRow /\ OpenRow \in BidRow
BY DEF NoRow, OpenRow, BidRow, Amount

LEMMA InitType == Init => TypeOK
<1> SUFFICES ASSUME Init PROVE TypeOK
  OBVIOUS
<1> DEFINE empty == [bid |-> [b \in Bids |-> NoRow], ask |-> [a \in Asks |-> "none"]]
<1>1. empty \in Tables
  BY RowsTyped DEF Tables, AskRow
<1>2. db \in Seq(Tables) /\ Len(db) = 1
  BY <1>1 DEF Init
<1>3. slips \in Slips
  BY DEF Init, Slips
<1>4. QED
  BY <1>2, <1>3 DEF Init, TypeOK

(* The steps that only move a goroutine and perhaps write one row.         *)
LEMMA WorkPc ==
  ASSUME TypeOK, NEW t \in Threads, th[t].pc # "idle"
  PROVE  th[t] \in Work
BY DEF TypeOK, Idle

LEMMA ActType ==
  ASSUME TypeOK, NEW b \in Bids, Act(b)
  PROVE  slips' \in Slips
BY DEF TypeOK, Act, Slips

LEMMA EndType ==
  ASSUME TypeOK, NEW ts \in SUBSET Threads, End(ts)
  PROVE  slips' \in Slips
<1> DEFINE ended == {th[t].id : t \in {u \in ts : th[u].pc \in {"write_contract", "match_bid"}}}
<1>1. ended \subseteq 0..MaxContracts
  BY DEF TypeOK, Idle, Work
<1>2. slips' = [slips EXCEPT !.cut = @ \cup ended]
  BY DEF End
<1> HIDE DEF ended
<1>3. QED
  BY <1>1, <1>2 DEF TypeOK, Slips

LEMMA DbErrorType ==
  ASSUME TypeOK, NEW t \in Threads, DbError(t)
  PROVE  TypeOK'
<1>1. slips' \in Slips
  BY EndType DEF DbError
<1>2. QED
  BY <1>1 DEF TypeOK, DbError, Return

LEMMA PublishType ==
  ASSUME NEW notices \in SUBSET Notice, Publish(notices)
  PROVE  published' \subseteq Notice
BY DEF Publish

LEMMA NextType == TypeOK /\ [Next]_vars => TypeOK'
<1> SUFFICES ASSUME TypeOK, [Next]_vars PROVE TypeOK'
  OBVIOUS
<1> DbOK
  BY DEF DbOK, TypeOK
<1> Master \in Tables /\ Slave \in Tables
  BY EndsTyped
<1>1. ASSUME NEW b \in Bids, SubmitBid(b) PROVE TypeOK'
  <2>1. DbOK'
    BY <1>1, UpdateTyped, RowsTyped DEF SubmitBid
  <2>2. published' \subseteq Notice
    BY <1>1 DEF SubmitBid, Broadcast, Publish, Notice
  <2>3. QED
    BY <1>1, <2>1, <2>2 DEF SubmitBid, TypeOK, DbOK
<1>2. ASSUME NEW a \in Asks, SubmitAsk(a) PROVE TypeOK'
  <2>1. DbOK'
    BY <1>2, UpdateTyped DEF SubmitAsk, AskRow
  <2>2. published' \subseteq Notice
    BY <1>2 DEF SubmitAsk, Suggest, Publish, Notice
  <2>3. QED
    BY <1>2, <2>1, <2>2 DEF SubmitAsk, TypeOK, DbOK
<1>3. ASSUME NEW b \in Bids, NEW a \in Asks, NEW p \in Prices, SubmitOffer(b, a, p)
      PROVE  TypeOK'
  BY <1>3 DEF SubmitOffer, TypeOK, Offer
<1>4. ASSUME NEW t \in Callers, NEW b \in Bids, NEW a \in Asks, RejectBegin(t, b, a)
      PROVE  TypeOK'
  <2>1. [pc |-> "reject_update", bid |-> b, ask |-> a, price |-> 0,
         row |-> OpenRow, id |-> 0] \in Work
    BY RowsTyped DEF Work, PC, Amount
  <2>2. slips' \in Slips
    BY <1>4, ActType DEF RejectBegin
  <2>3. QED
    BY <1>4, <2>1, <2>2 DEF RejectBegin, Lock, TypeOK
<1>5. ASSUME NEW t \in Callers, NEW b \in Bids, NEW a \in Asks,
             NEW p \in Amount, AcceptBegin(t, b, a, p)
      PROVE  TypeOK'
  <2>1. [pc |-> "check_balance", bid |-> b, ask |-> a, price |-> p,
         row |-> Slave.bid[b], id |-> 0] \in Work
    BY DEF Work, PC, Tables
  <2>2. slips' \in Slips
    BY <1>5, ActType DEF AcceptBegin
  <2>3. QED
    BY <1>5, <2>1, <2>2 DEF AcceptBegin, Lock, TypeOK
<1>6. ASSUME NEW t \in Callers, RejectUpdate(t) PROVE TypeOK'
  <2>1. th[t] \in Work
    BY <1>6, WorkPc DEF RejectUpdate
  <2>2. CASE UpdateBid(th[t].bid, th[t].row) /\ Goto(t, "reject_notify")
             /\ published' = {}
             /\ UNCHANGED <<contracts, holds, used, offers, submitted, slips>>
    <3>1. DbOK'
      BY <2>1, <2>2, UpdateTyped DEF Work
    <3>2. [th[t] EXCEPT !.pc = "reject_notify"] \in Work
      BY <2>1 DEF Work, PC
    <3>3. QED
      BY <2>2, <3>1, <3>2 DEF Goto, TypeOK, DbOK
  <2>3. QED
    BY <1>6, <2>2, DbErrorType DEF RejectUpdate
<1>7. ASSUME NEW t \in Callers, RejectNotify(t) PROVE TypeOK'
  <2>1. th[t] \in Work
    BY <1>7, WorkPc DEF RejectNotify
  <2>2. published' \subseteq Notice
    BY <1>7, <2>1 DEF RejectNotify, Publish, Notice, Work
  <2>3. QED
    BY <1>7, <2>2 DEF RejectNotify, Return, TypeOK
<1>8. ASSUME NEW t \in Callers, BalanceRefused(t) PROVE TypeOK'
  BY <1>8 DEF BalanceRefused, Return, TypeOK
<1>9. ASSUME NEW t \in Callers, RequestHold(t) PROVE TypeOK'
  <2>1. th[t] \in Work
    BY <1>9, WorkPc DEF RequestHold, PublishHold
  <2>2. used + 1 \in 0..MaxContracts /\ th[t].row.price \in Amount
    BY <1>9, <2>1 DEF RequestHold, PublishHold, TypeOK, Work, BidRow
  <2>3. [th[t] EXCEPT !.pc = "write_contract", !.id = used + 1] \in Work
    BY <2>1, <2>2 DEF Work, PC
  <2>4. th' \in [Threads -> Work \cup {Idle}]
    BY <1>9, <2>3 DEF RequestHold, PublishHold, TypeOK
  <2>5. holds' \subseteq Hold
    BY <1>9, <2>1, <2>2 DEF RequestHold, PublishHold, TypeOK, Hold, Work
  <2>6. slips' \in Slips
    BY <1>9, <2>2 DEF RequestHold, PublishHold, TypeOK, Slips
  <2>7. QED
    BY <1>9, <2>2, <2>4, <2>5, <2>6 DEF RequestHold, PublishHold, TypeOK
<1>10. ASSUME NEW t \in Callers, WriteContract(t) PROVE TypeOK'
  <2>1. th[t] \in Work
    BY <1>10, WorkPc DEF WriteContract
  <2>2. th[t].row.price \in Amount
    BY <2>1 DEF Work, BidRow
  <2>3. [th[t] EXCEPT !.pc = "match_bid"] \in Work
    BY <2>1 DEF Work, PC
  <2>4. CASE DbError(t)
    BY <2>4, DbErrorType
  <2>5. CASE ~DbError(t)
    <3>1. th' \in [Threads -> Work \cup {Idle}]
      BY <1>10, <2>3, <2>5 DEF WriteContract, Goto, TypeOK
    <3>2. contracts' \subseteq Contract
      BY <1>10, <2>1, <2>2, <2>5 DEF WriteContract, TypeOK, Contract, Work
    <3>3. QED
      BY <1>10, <2>5, <3>1, <3>2 DEF WriteContract, Goto, TypeOK
  <2>6. QED
    BY <2>4, <2>5
<1>11. ASSUME NEW t \in Callers, MatchBid(t) PROVE TypeOK'
  <2>1. th[t] \in Work
    BY <1>11, WorkPc DEF MatchBid
  <2>2. [th[t].row EXCEPT !.status = "matched"] \in BidRow
    BY <2>1 DEF Work, BidRow
  <2>3. [th[t] EXCEPT !.pc = "match_ask"] \in Work
    BY <2>1 DEF Work, PC
  <2>4. CASE DbError(t)
    BY <2>4, DbErrorType
  <2>5. CASE ~DbError(t)
    <3>1. DbOK'
      BY <1>11, <2>1, <2>2, <2>5, UpdateTyped DEF MatchBid, Work
    <3>2. QED
      BY <1>11, <2>3, <2>5, <3>1 DEF MatchBid, Goto, TypeOK, DbOK
  <2>6. QED
    BY <2>4, <2>5
<1>12. ASSUME NEW t \in Callers, MatchAsk(t) PROVE TypeOK'
  <2>1. th[t] \in Work
    BY <1>12, WorkPc DEF MatchAsk
  <2>2. [th[t] EXCEPT !.pc = "announce"] \in Work
    BY <2>1 DEF Work, PC
  <2>3. CASE DbError(t)
    BY <2>3, DbErrorType
  <2>4. CASE ~DbError(t)
    <3>1. DbOK'
      BY <1>12, <2>1, <2>4, UpdateTyped DEF MatchAsk, Work, AskRow
    <3>2. QED
      BY <1>12, <2>2, <2>4, <3>1 DEF MatchAsk, Goto, TypeOK, DbOK
  <2>5. QED
    BY <2>3, <2>4
<1>13. ASSUME NEW t \in Callers, Announce(t) PROVE TypeOK'
  <2>1. th[t] \in Work
    BY <1>13, WorkPc DEF Announce
  <2>2. published' \subseteq Notice
    BY <1>13, <2>1 DEF Announce, Publish, Notice, Work
  <2>3. QED
    BY <1>13, <2>2 DEF Announce, Return, TypeOK
<1>14. ASSUME NEW m \in offers, TakeOffer(m) \/ RefuseOffer(m) PROVE TypeOK'
  <2>1. m \in Offer /\ Quoted(m) \in BidRow
    BY DEF TypeOK, Offer, Quoted, BidRow, Amount
  <2>2. /\ OfferWork(m, "offer_update") \in Work
        /\ OfferWork(m, "offer_ack") \in Work
    BY <2>1 DEF OfferWork, Work, PC, Offer, Amount
  <2>3. CASE TakeOffer(m)
    <3>1. slips' \in Slips
      BY <2>1, <2>3, ActType DEF TakeOffer, Offer
    <3>2. QED
      BY <2>2, <2>3, <3>1 DEF TakeOffer, Lock, TypeOK
  <2>4. CASE RefuseOffer(m)
    <3>1. published' \subseteq Notice
      BY <2>1, <2>4 DEF RefuseOffer, Publish, Notice, Offer
    <3>2. QED
      BY <2>2, <2>4, <3>1 DEF RefuseOffer, TypeOK
  <2>5. QED
    BY <1>14, <2>3, <2>4
<1>15. ASSUME OfferUpdate PROVE TypeOK'
  <2>1. th[Consumer] \in Work
    BY <1>15, WorkPc DEF OfferUpdate
  <2>2. [th[Consumer] EXCEPT !.pc = "offer_forward"] \in Work
    BY <2>1 DEF Work, PC
  <2>3. CASE DbError(Consumer)
    BY <2>3, DbErrorType
  <2>4. CASE ~DbError(Consumer)
    <3>1. DbOK'
      BY <1>15, <2>1, <2>4, UpdateTyped DEF OfferUpdate, Work
    <3>2. QED
      BY <1>15, <2>2, <2>4, <3>1 DEF OfferUpdate, Goto, TypeOK, DbOK
  <2>5. QED
    BY <2>3, <2>4
<1>16. ASSUME OfferForward PROVE TypeOK'
  <2>1. th[Consumer] \in Work
    BY <1>16, WorkPc DEF OfferForward
  <2>2. [th[Consumer] EXCEPT !.pc = "offer_ack"] \in Work
    BY <2>1 DEF Work, PC
  <2>3. published' \subseteq Notice
    BY <1>16, <2>1 DEF OfferForward, Publish, Notice, Work
  <2>4. QED
    BY <1>16, <2>2, <2>3 DEF OfferForward, TypeOK
<1>17. ASSUME OfferAck PROVE TypeOK'
  BY <1>17 DEF OfferAck, TypeOK
<1>18. ASSUME Replay PROVE TypeOK'
  BY <1>18, ReplayLog DEF Replay, TypeOK, DbOK
<1>19. ASSUME Crash PROVE TypeOK'
  <2>1. slips' \in Slips
    BY <1>19, EndType DEF Crash
  <2>2. QED
    BY <1>19, <2>1 DEF Crash, TypeOK
<1>20. ASSUME NEW t \in Callers, BalanceSuffices(t) PROVE TypeOK'
  <2>1. th[t] \in Work
    BY <1>20, WorkPc DEF BalanceSuffices
  <2>2. [th[t] EXCEPT !.pc = "request_hold"] \in Work
    BY <2>1 DEF Work, PC
  <2>3. QED
    BY <1>20, <2>2 DEF BalanceSuffices, Goto, TypeOK
<1>21. CASE UNCHANGED vars
  BY <1>21 DEF vars, TypeOK
<1>22. QED
  BY <1>1, <1>2, <1>3, <1>4, <1>5, <1>6, <1>7, <1>8, <1>9, <1>10, <1>11, <1>12,
     <1>13, <1>14, <1>15, <1>16, <1>17, <1>18, <1>19, <1>20, <1>21
     DEF Next, Request, Handler, Queue

(* Whatever the lag, the failures and the number of callers, every         *)
(* variable of the engine keeps its type.                                  *)
THEOREM Typing == Spec => []TypeOK
<1>1. Init => TypeOK
  BY InitType
<1>2. TypeOK /\ [Next]_vars => TypeOK'
  BY NextType
<1>3. QED
  BY <1>1, <1>2, PTL DEF Spec

-----------------------------------------------------------------------------
(* What a step may do to the tables, and to what the goroutines know.      *)

(* What went wrong stays on record.                                        *)
SlipsKept == /\ slips.stale \subseteq slips'.stale
             /\ slips.lost \subseteq slips'.lost
             /\ slips.cut \subseteq slips'.cut

LEMMA SlipsGrow == ASSUME TypeOK, [Next]_vars PROVE SlipsKept
<1>1. slips \in Slips
  BY DEF TypeOK
<1>2. CASE UNCHANGED slips
  BY <1>2 DEF SlipsKept
<1>3. ASSUME NEW b \in Bids, Act(b) PROVE SlipsKept
  BY <1>1, <1>3 DEF Act, SlipsKept, Slips
<1>4. ASSUME NEW ts \in SUBSET Threads, End(ts) PROVE SlipsKept
  BY <1>1, <1>4 DEF End, SlipsKept, Slips
<1>5. ASSUME NEW t \in Callers, RequestHold(t) PROVE SlipsKept
  BY <1>1, <1>5 DEF RequestHold, PublishHold, SlipsKept, Slips
<1>6. \A m \in offers : m.bid \in Bids
  BY DEF TypeOK, Offer
<1>7. QED
  BY <1>2, <1>3, <1>4, <1>5, <1>6 DEF Next, Request, Handler, Queue, SubmitBid, SubmitAsk,
     SubmitOffer, RejectBegin, AcceptBegin, RejectUpdate, RejectNotify, BalanceRefused,
     BalanceSuffices, WriteContract, MatchBid, MatchAsk, Announce, TakeOffer, RefuseOffer,
     OfferUpdate, OfferForward, OfferAck, DbError, Replay, Crash, vars

LEMMA BidWritten ==
  ASSUME TypeOK, RowsQuoted, submitted \subseteq submitted',
         NEW b \in Bids, NEW row \in BidRow, UpdateBid(b, row),
         row.status \in {"negotiating", "matched"} => RowQuoted(b, row)'
  PROVE  /\ RowsQuoted'
         /\ Master' = WithBid(b, row)
<1>1. DbOK /\ WithBid(b, row) \in Tables /\ Master \in Tables
  BY WithTyped, EndsTyped DEF DbOK, TypeOK
<1>2. /\ Master' = WithBid(b, row)
      /\ \A i \in 1..Len(db)' : \/ db'[i] = WithBid(b, row)
                                \/ \E j \in 1..Len(db) : db'[i] = db[j]
  BY <1>1, WriteLog DEF UpdateBid
<1>3. \A c \in Bids : Master.bid[c].status \in {"negotiating", "matched"}
                        => RowQuoted(c, Master.bid[c])
  BY <1>1 DEF RowsQuoted, Master, DbOK
<1>4. ASSUME NEW i \in 1..Len(db)', NEW c \in Bids,
             db'[i].bid[c].status \in {"negotiating", "matched"}
      PROVE  RowQuoted(c, db[i].bid[c])'
  <2>1. CASE db'[i] = WithBid(b, row)
    <3>1. db'[i].bid[c] = IF c = b THEN row ELSE Master.bid[c]
      BY <1>1, <2>1 DEF WithBid, Tables
    <3>2. QED
      BY <1>3, <1>4, <3>1 DEF RowQuoted
  <2>2. CASE \E j \in 1..Len(db) : db'[i] = db[j]
    BY <1>4, <2>2 DEF RowsQuoted, RowQuoted
  <2>3. QED
    BY <1>2, <2>1, <2>2
<1>5. QED
  BY <1>2, <1>4 DEF RowsQuoted

LEMMA AskWritten ==
  ASSUME TypeOK, RowsQuoted, submitted \subseteq submitted',
         NEW a \in Asks, NEW row \in AskRow, UpdateAsk(a, row)
  PROVE  /\ RowsQuoted'
         /\ Master' = WithAsk(a, row)
<1>1. DbOK /\ WithAsk(a, row) \in Tables /\ Master \in Tables
  BY WithTyped, EndsTyped DEF DbOK, TypeOK
<1>2. /\ Master' = WithAsk(a, row)
      /\ \A i \in 1..Len(db)' : \/ db'[i] = WithAsk(a, row)
                                \/ \E j \in 1..Len(db) : db'[i] = db[j]
  BY <1>1, WriteLog DEF UpdateAsk
<1>3. \A i \in 1..Len(db)' : \E j \in 1..Len(db) : db'[i].bid = db[j].bid
  BY <1>1, <1>2 DEF WithAsk, Master, DbOK
<1>4. QED
  BY <1>2, <1>3 DEF RowsQuoted, RowQuoted

(* Contracts, holds and quotes are only ever added, so what one goroutine  *)
(* does leaves the promises of the others standing.                        *)
LEMMA WorkKept ==
  ASSUME \A t \in Threads : WorkOK(th[t]),
         th \in [Threads -> Work \cup {Idle}],
         submitted \subseteq submitted', holds \subseteq holds',
         contracts \subseteq contracts', SlipsKept,
         NEW t \in Threads, NEW w, WorkOK(w)',
         th' = [th EXCEPT ![t] = w]
  PROVE  \A s \in Threads : WorkOK(th[s])'
<1> SUFFICES ASSUME NEW s \in Threads PROVE WorkOK(th[s])'
  OBVIOUS
<1>1. CASE s = t
  BY <1>1
<1>2. CASE s # t
  <2>1. th'[s] = th[s] /\ WorkOK(th[s])
    BY <1>2
  <2>2. QED
    BY <2>1 DEF WorkOK, RowQuoted, SlipsKept
<1>3. QED
  BY <1>1, <1>2

LEMMA IdleOK == WorkOK(Idle)'
BY DEF WorkOK, Idle, Accepting

(* Steps that write no row and no contract.                                *)
LEMMA QuietStep ==
  ASSUME ContractInv, TypeOK', SlipsKept, UNCHANGED <<db, contracts>>,
         holds \subseteq holds', submitted \subseteq submitted',
         \A t \in Threads : WorkOK(th[t])'
  PROVE  ContractInv'
<1>1. RowsQuoted'
  BY DEF ContractInv, RowsQuoted, RowQuoted
<1>2. MatchedHasContract'
  BY DEF ContractInv, MatchedHasContract, Master
<1>3. PriceWasQuoted' /\ DepositRequested'
  BY DEF ContractInv, PriceWasQuoted, DepositRequested, SlipsKept
<1>4. QED
  BY <1>1, <1>2, <1>3 DEF ContractInv

(* Steps that write the row of a bid which is open or under negotiation.   *)
LEMMA BidStep ==
  ASSUME ContractInv, TypeOK', SlipsKept, UNCHANGED <<contracts, holds, submitted>>,
         NEW b \in Bids, NEW row \in BidRow, UpdateBid(b, row),
         row.status \in {"negotiating", "matched"} => RowQuoted(b, row)',
         row.status = "matched" =>
           \E c \in contracts : c.bid = b /\ c.ask = row.ask /\ c.price = row.price,
         \A t \in Threads : WorkOK(th[t])'
  PROVE  ContractInv'
<1>1. RowsQuoted' /\ Master' = WithBid(b, row)
  BY BidWritten DEF ContractInv
<1>2. Master \in Tables
  BY EndsTyped DEF ContractInv, TypeOK, DbOK
<1>3. MatchedHasContract'
  <2>1. ASSUME NEW c \in Bids, Master'.bid[c].status = "matched"
        PROVE  \E k \in contracts : /\ k.bid = c
                                    /\ k.ask = Master'.bid[c].ask
                                    /\ k.price = Master'.bid[c].price
    <3>1. CASE c = b
      BY <1>1, <1>2, <2>1, <3>1 DEF WithBid, Tables
    <3>2. CASE c # b
      BY <1>1, <1>2, <2>1, <3>2 DEF WithBid, Tables, ContractInv, MatchedHasContract
    <3>3. QED
      BY <3>1, <3>2
  <2>2. Master'.ask = Master.ask
    BY <1>1 DEF WithBid
  <2>3. QED
    BY <2>1, <2>2 DEF ContractInv, MatchedHasContract
<1>4. PriceWasQuoted' /\ DepositRequested'
  BY DEF ContractInv, PriceWasQuoted, DepositRequested, SlipsKept
<1>5. QED
  BY <1>1, <1>3, <1>4 DEF ContractInv

(* Steps that write the row of an ask.                                     *)
LEMMA AskStep ==
  ASSUME ContractInv, TypeOK', SlipsKept, UNCHANGED <<contracts, holds, submitted>>,
         NEW a \in Asks, NEW row \in AskRow, UpdateAsk(a, row),
         row = "matched" => \E c \in contracts : c.ask = a,
         \A t \in Threads : WorkOK(th[t])'
  PROVE  ContractInv'
<1>1. RowsQuoted' /\ Master' = WithAsk(a, row)
  BY AskWritten DEF ContractInv
<1>2. Master \in Tables
  BY EndsTyped DEF ContractInv, TypeOK, DbOK
<1>3. MatchedHasContract'
  <2>1. Master'.bid = Master.bid
    BY <1>1 DEF WithAsk
  <2>2. \A d \in Asks : Master'.ask[d] = "matched" => \E c \in contracts : c.ask = d
    BY <1>1, <1>2 DEF WithAsk, Tables, ContractInv, MatchedHasContract
  <2>3. QED
    BY <2>1, <2>2 DEF ContractInv, MatchedHasContract
<1>4. PriceWasQuoted' /\ DepositRequested'
  BY DEF ContractInv, PriceWasQuoted, DepositRequested, SlipsKept
<1>5. QED
  BY <1>1, <1>3, <1>4 DEF ContractInv

-----------------------------------------------------------------------------
(* A handler that fails forgets its locals and leaves the tables as they   *)
(* are: this is where a contract without a matched bid comes from, and it  *)
(* is safe.                                                                *)
LEMMA ReturnStep ==
  ASSUME ContractInv, TypeOK', SlipsKept, UNCHANGED <<db, contracts, holds, submitted>>,
         NEW t \in Threads, th' = [th EXCEPT ![t] = Idle]
  PROVE  ContractInv'
<1>1. \A s \in Threads : WorkOK(th[s])'
  BY WorkKept, IdleOK DEF ContractInv, TypeOK
<1>2. QED
  BY <1>1, QuietStep

LEMMA NextContract == ContractInv /\ [Next]_vars => ContractInv'
<1> SUFFICES ASSUME ContractInv, [Next]_vars PROVE ContractInv'
  OBVIOUS
<1> TypeOK /\ TypeOK'
  BY NextType DEF ContractInv
<1> SlipsKept
  BY SlipsGrow
<1> DbOK
  BY DEF DbOK, TypeOK
<1> Master \in Tables /\ Slave \in Tables
  BY EndsTyped
<1> /\ \A t \in Threads : WorkOK(th[t])
    /\ th \in [Threads -> Work \cup {Idle}]
  BY DEF ContractInv, TypeOK
<1>1. ASSUME NEW b \in Bids, SubmitBid(b) PROVE ContractInv'
  <2>1. \A t \in Threads : WorkOK(th[t])'
    BY <1>1 DEF SubmitBid, WorkOK, RowQuoted, SlipsKept
  <2>2. OpenRow.status = "pending"
    BY DEF OpenRow
  <2>3. QED
    BY <1>1, <2>1, <2>2, BidStep, RowsTyped DEF SubmitBid
<1>2. ASSUME NEW a \in Asks, SubmitAsk(a) PROVE ContractInv'
  <2>1. \A t \in Threads : WorkOK(th[t])'
    BY <1>2 DEF SubmitAsk, WorkOK, RowQuoted, SlipsKept
  <2>2. QED
    BY <1>2, <2>1, AskStep DEF SubmitAsk, AskRow
<1>3. ASSUME NEW b \in Bids, NEW a \in Asks, NEW p \in Prices, SubmitOffer(b, a, p)
      PROVE  ContractInv'
  <2>1. /\ UNCHANGED <<db, contracts, holds, th>>
        /\ submitted \subseteq submitted'
    BY <1>3 DEF SubmitOffer
  <2>2. \A t \in Threads : WorkOK(th[t])'
    BY <2>1 DEF WorkOK, RowQuoted, SlipsKept
  <2>3. QED
    BY <2>1, <2>2, QuietStep
<1>4. ASSUME NEW t \in Callers, NEW b \in Bids, NEW a \in Asks, RejectBegin(t, b, a)
      PROVE  ContractInv'
  <2> DEFINE w == [pc |-> "reject_update", bid |-> b, ask |-> a, price |-> 0,
                   row |-> OpenRow, id |-> 0]
  <2>1. WorkOK(w)'
    BY DEF WorkOK, Accepting
  <2>2. /\ th' = [th EXCEPT ![t] = w]
        /\ UNCHANGED <<db, contracts, holds, submitted>>
    BY <1>4 DEF RejectBegin, Lock
  <2> HIDE DEF w
  <2>3. \A s \in Threads : WorkOK(th[s])'
    BY <2>1, <2>2, WorkKept
  <2>4. QED
    BY <2>2, <2>3, QuietStep
<1>5. ASSUME NEW t \in Callers, NEW b \in Bids, NEW a \in Asks,
             NEW p \in Amount, AcceptBegin(t, b, a, p)
      PROVE  ContractInv'
  <2>1. PICK row : row = Slave.bid[b]
    OBVIOUS
  <2>2. row.status = "negotiating" /\ row.ask = a /\ RowQuoted(b, row)
    BY <1>5, <2>1 DEF AcceptBegin, ContractInv, RowsQuoted, Slave, DbOK
  <2> DEFINE w == [pc |-> "check_balance", bid |-> b, ask |-> a, price |-> p,
                   row |-> row, id |-> 0]
  <2>3. /\ th' = [th EXCEPT ![t] = w]
        /\ UNCHANGED <<db, contracts, holds, submitted>>
    BY <1>5, <2>1 DEF AcceptBegin, Lock
  <2>4. WorkOK(w)'
    BY <2>2, <2>3 DEF WorkOK, Accepting, RowQuoted
  <2> HIDE DEF w
  <2>5. \A s \in Threads : WorkOK(th[s])'
    BY <2>3, <2>4, WorkKept
  <2>6. QED
    BY <2>3, <2>5, QuietStep
<1>6. ASSUME NEW t \in Callers, RejectUpdate(t) PROVE ContractInv'
  <2>1. CASE DbError(t)
    BY <2>1, ReturnStep DEF DbError, Return
  <2>2. CASE ~DbError(t)
    <3>1. PICK w : w = th[t]
      OBVIOUS
    <3>2. w \in Work /\ w.pc = "reject_update" /\ WorkOK(w)
      BY <1>6, <3>1, WorkPc DEF RejectUpdate
    <3> DEFINE n == [w EXCEPT !.pc = "reject_notify"]
    <3>3. /\ UpdateBid(w.bid, w.row)
          /\ th' = [th EXCEPT ![t] = n]
          /\ UNCHANGED <<contracts, holds, submitted>>
      BY <1>6, <2>2, <3>1, <3>2 DEF RejectUpdate, Goto, Work
    <3>4. n.pc = "reject_notify" /\ WorkOK(n)'
      BY <3>2 DEF WorkOK, Accepting, Work
    <3> HIDE DEF n
    <3>5. \A s \in Threads : WorkOK(th[s])'
      BY <3>3, <3>4, WorkKept
    <3>6. w.bid \in Bids /\ w.row = OpenRow /\ w.row.status = "pending"
      BY <3>2 DEF WorkOK, OpenRow, Work
    <3>7. QED
      BY <3>3, <3>5, <3>6, BidStep, RowsTyped
  <2>3. QED
    BY <2>1, <2>2
<1>7. ASSUME NEW t \in Callers, RejectNotify(t) PROVE ContractInv'
  BY <1>7, ReturnStep DEF RejectNotify, Return
<1>8. ASSUME NEW t \in Callers, BalanceRefused(t) PROVE ContractInv'
  BY <1>8, ReturnStep DEF BalanceRefused, Return
<1>9. ASSUME NEW t \in Callers, RequestHold(t) PROVE ContractInv'
  <2>1. PICK w : w = th[t]
    OBVIOUS
  <2>2. PICK k : k = used + 1
    OBVIOUS
  <2>3. w \in Work /\ w.pc = "request_hold" /\ WorkOK(w)
    BY <1>9, <2>1, WorkPc DEF RequestHold, PublishHold
  <2> DEFINE n == [w EXCEPT !.pc = "write_contract", !.id = k]
  <2>4. /\ th' = [th EXCEPT ![t] = n]
        /\ UNCHANGED <<db, contracts, submitted>>
        /\ holds \subseteq holds'
        /\ \/ k \in slips'.lost
           \/ [id |-> k, bid |-> w.bid, price |-> w.row.price] \in holds'
    BY <1>9, <2>1, <2>2 DEF RequestHold, PublishHold, TypeOK, Slips
  <2>5. n.pc = "write_contract" /\ n.id = k /\ n.bid = w.bid /\ n.row = w.row
        /\ n.ask = w.ask
    BY <2>3 DEF Work
  <2> HIDE DEF n
  <2>6. WorkOK(n)'
    BY <2>3, <2>4, <2>5 DEF WorkOK, Accepting, RowQuoted
  <2>7. \A s \in Threads : WorkOK(th[s])'
    BY <2>4, <2>6, WorkKept
  <2>8. QED
    BY <2>4, <2>7, QuietStep
<1>10. ASSUME NEW t \in Callers, WriteContract(t) PROVE ContractInv'
  <2>1. CASE DbError(t)
    BY <2>1, ReturnStep DEF DbError, Return
  <2>2. CASE ~DbError(t)
    <3>1. PICK w : w = th[t]
      OBVIOUS
    <3>2. w \in Work /\ w.pc = "write_contract" /\ WorkOK(w)
      BY <1>10, <3>1, WorkPc DEF WriteContract
    <3> DEFINE n == [w EXCEPT !.pc = "match_bid"]
               c == [id |-> w.id, bid |-> w.bid, ask |-> w.ask, price |-> w.row.price]
    <3>3. /\ contracts' = contracts \cup {c}
          /\ th' = [th EXCEPT ![t] = n]
          /\ UNCHANGED <<db, holds, submitted>>
      BY <1>10, <2>2, <3>1, <3>2 DEF WriteContract, Goto, Work
    <3>4. n.pc = "match_bid" /\ n.bid = w.bid /\ n.row = w.row /\ n.ask = w.ask
      BY <3>2 DEF Work
    <3>5. c.id = w.id /\ c.bid = w.bid /\ c.ask = w.ask /\ c.price = w.row.price
      OBVIOUS
    <3>6. /\ RowQuoted(w.bid, w.row) /\ w.row.ask = w.ask /\ w.row.status = "negotiating"
          /\ \/ c.id \in slips.lost
             \/ [id |-> c.id, bid |-> c.bid, price |-> c.price] \in holds
      BY <3>2, <3>5 DEF WorkOK, Accepting
    <3> HIDE DEF n, c
    <3>7. WorkOK(n)'
      BY <3>3, <3>4, <3>5, <3>6 DEF WorkOK, Accepting, RowQuoted
    <3>8. \A s \in Threads : WorkOK(th[s])'
      BY <3>3, <3>7, WorkKept
    <3>9. PriceWasQuoted'
      BY <3>3, <3>5, <3>6 DEF ContractInv, PriceWasQuoted, RowQuoted
    <3>10. DepositRequested'
      BY <3>3, <3>6 DEF ContractInv, DepositRequested, SlipsKept
    <3>11. RowsQuoted'
      BY <3>3 DEF ContractInv, RowsQuoted, RowQuoted
    <3>12. MatchedHasContract'
      BY <3>3 DEF ContractInv, MatchedHasContract, Master
    <3>13. QED
      BY <3>8, <3>9, <3>10, <3>11, <3>12 DEF ContractInv
  <2>3. QED
    BY <2>1, <2>2
<1>11. ASSUME NEW t \in Callers, MatchBid(t) PROVE ContractInv'
  <2>1. CASE DbError(t)
    BY <2>1, ReturnStep DEF DbError, Return
  <2>2. CASE ~DbError(t)
    <3>1. PICK w : w = th[t]
      OBVIOUS
    <3>2. w \in Work /\ w.pc = "match_bid" /\ WorkOK(w)
      BY <1>11, <3>1, WorkPc DEF MatchBid
    <3> DEFINE n == [w EXCEPT !.pc = "match_ask"]
               row == [w.row EXCEPT !.status = "matched"]
    <3>3. /\ UpdateBid(w.bid, row)
          /\ th' = [th EXCEPT ![t] = n]
          /\ UNCHANGED <<contracts, holds, submitted>>
      BY <1>11, <2>2, <3>1, <3>2 DEF MatchBid, Goto, Work
    <3>4. n.pc = "match_ask" /\ n.bid = w.bid /\ n.row = w.row /\ n.ask = w.ask
      BY <3>2 DEF Work
    <3>5. row \in BidRow /\ row.status = "matched" /\ row.ask = w.row.ask
          /\ row.price = w.row.price /\ w.bid \in Bids
      BY <3>2 DEF Work, BidRow
    <3> HIDE DEF n, row
    <3>6. /\ RowQuoted(w.bid, w.row) /\ w.row.ask = w.ask
          /\ \E c \in contracts : /\ c.bid = w.bid /\ c.ask = w.ask
                                  /\ c.price = w.row.price
      BY <3>2 DEF WorkOK, Accepting
    <3>7. WorkOK(n)'
      BY <3>3, <3>4, <3>6 DEF WorkOK, Accepting
    <3>8. \A s \in Threads : WorkOK(th[s])'
      BY <3>3, <3>7, WorkKept
    <3>9. RowQuoted(w.bid, row)'
      BY <3>3, <3>5, <3>6 DEF RowQuoted
    <3>10. QED
      BY <3>3, <3>5, <3>6, <3>8, <3>9, BidStep
  <2>3. QED
    BY <2>1, <2>2
<1>12. ASSUME NEW t \in Callers, MatchAsk(t) PROVE ContractInv'
  <2>1. CASE DbError(t)
    BY <2>1, ReturnStep DEF DbError, Return
  <2>2. CASE ~DbError(t)
    <3>1. PICK w : w = th[t]
      OBVIOUS
    <3>2. w \in Work /\ w.pc = "match_ask" /\ WorkOK(w)
      BY <1>12, <3>1, WorkPc DEF MatchAsk
    <3> DEFINE n == [w EXCEPT !.pc = "announce"]
    <3>3. /\ UpdateAsk(w.ask, "matched")
          /\ th' = [th EXCEPT ![t] = n]
          /\ UNCHANGED <<contracts, holds, submitted>>
      BY <1>12, <2>2, <3>1, <3>2 DEF MatchAsk, Goto, Work
    <3>4. n.pc = "announce"
      BY <3>2 DEF Work
    <3>5. w.ask \in Asks /\ \E c \in contracts : c.ask = w.ask
      BY <3>2 DEF WorkOK, Work
    <3> HIDE DEF n
    <3>6. WorkOK(n)'
      BY <3>4 DEF WorkOK, Accepting
    <3>7. \A s \in Threads : WorkOK(th[s])'
      BY <3>3, <3>6, WorkKept
    <3>8. QED
      BY <3>3, <3>5, <3>7, AskStep DEF AskRow
  <2>3. QED
    BY <2>1, <2>2
<1>13. ASSUME NEW t \in Callers, Announce(t) PROVE ContractInv'
  BY <1>13, ReturnStep DEF Announce, Return
<1>14. ASSUME NEW m \in offers, TakeOffer(m) \/ RefuseOffer(m) PROVE ContractInv'
  <2>1. m \in Offer /\ m \in submitted
    BY DEF TypeOK
  <2>2. PICK w : /\ w \in {OfferWork(m, "offer_update"), OfferWork(m, "offer_ack")}
                 /\ th' = [th EXCEPT ![Consumer] = w]
    BY <1>14 DEF TakeOffer, RefuseOffer, Lock
  <2>3. UNCHANGED <<db, contracts, holds, submitted>>
    BY <1>14 DEF TakeOffer, RefuseOffer, Lock
  <2>4. /\ w.pc \in {"offer_update", "offer_ack"} /\ w.bid = m.bid
        /\ w.row.status = "negotiating" /\ w.row.ask = m.ask /\ w.row.price = m.price
    BY <2>2 DEF OfferWork, Quoted
  <2>5. RowQuoted(w.bid, w.row)
    BY <2>1, <2>4 DEF RowQuoted, Offer
  <2>6. WorkOK(w)'
    BY <2>3, <2>4, <2>5 DEF WorkOK, Accepting, RowQuoted
  <2>7. \A s \in Threads : WorkOK(th[s])'
    BY <2>2, <2>3, <2>6, WorkKept
  <2>8. QED
    BY <2>3, <2>7, QuietStep
<1>15. ASSUME OfferUpdate PROVE ContractInv'
  <2>1. CASE DbError(Consumer)
    BY <2>1, ReturnStep DEF DbError, Return
  <2>2. CASE ~DbError(Consumer)
    <3>1. PICK w : w = th[Consumer]
      OBVIOUS
    <3>2. w \in Work /\ w.pc = "offer_update" /\ WorkOK(w)
      BY <1>15, <3>1, WorkPc DEF OfferUpdate
    <3> DEFINE n == [w EXCEPT !.pc = "offer_forward"]
    <3>3. /\ UpdateBid(w.bid, w.row)
          /\ th' = [th EXCEPT ![Consumer] = n]
          /\ UNCHANGED <<contracts, holds, submitted>>
      BY <1>15, <2>2, <3>1, <3>2 DEF OfferUpdate, Goto, Work
    <3>4. n.pc = "offer_forward"
      BY <3>2 DEF Work
    <3>5. w.bid \in Bids /\ w.row \in BidRow /\ w.row.status = "negotiating"
          /\ RowQuoted(w.bid, w.row)
      BY <3>2 DEF WorkOK, Work
    <3> HIDE DEF n
    <3>6. WorkOK(n)'
      BY <3>4 DEF WorkOK, Accepting
    <3>7. \A s \in Threads : WorkOK(th[s])'
      BY <3>3, <3>6, WorkKept
    <3>8. RowQuoted(w.bid, w.row)'
      BY <3>3, <3>5 DEF RowQuoted
    <3>9. QED
      BY <3>3, <3>5, <3>7, <3>8, BidStep
  <2>3. QED
    BY <2>1, <2>2
<1>16. ASSUME OfferForward PROVE ContractInv'
  <2>1. PICK w : w = th[Consumer]
    OBVIOUS
  <2>2. w \in Work
    BY <1>16, <2>1, WorkPc DEF OfferForward
  <2> DEFINE n == [w EXCEPT !.pc = "offer_ack"]
  <2>3. /\ th' = [th EXCEPT ![Consumer] = n]
        /\ UNCHANGED <<db, contracts, holds, submitted>>
    BY <1>16, <2>1, <2>2 DEF OfferForward, Work
  <2>4. n.pc = "offer_ack"
    BY <2>2 DEF Work
  <2> HIDE DEF n
  <2>5. WorkOK(n)'
    BY <2>4 DEF WorkOK, Accepting
  <2>6. \A s \in Threads : WorkOK(th[s])'
    BY <2>3, <2>5, WorkKept
  <2>7. QED
    BY <2>3, <2>6, QuietStep
<1>17. ASSUME OfferAck PROVE ContractInv'
  BY <1>17, ReturnStep DEF OfferAck
<1>18. ASSUME Replay PROVE ContractInv'
  <2>1. /\ Master' = Master
        /\ \A i \in 1..Len(db)' : \E j \in 1..Len(db) : db'[i] = db[j]
    BY <1>18, ReplayLog DEF Replay
  <2>2. UNCHANGED <<contracts, holds, submitted, th>>
    BY <1>18 DEF Replay
  <2>3. RowsQuoted'
    BY <2>1, <2>2 DEF ContractInv, RowsQuoted, RowQuoted
  <2>4. MatchedHasContract' /\ PriceWasQuoted' /\ DepositRequested'
    BY <2>1, <2>2 DEF ContractInv, MatchedHasContract, PriceWasQuoted, DepositRequested,
       SlipsKept
  <2>5. \A t \in Threads : WorkOK(th[t])'
    BY <2>2 DEF WorkOK, RowQuoted, SlipsKept
  <2>6. QED
    BY <2>3, <2>4, <2>5 DEF ContractInv
<1>19. ASSUME Crash PROVE ContractInv'
  <2>1. \A t \in Threads : WorkOK(th[t])'
    BY <1>19 DEF Crash, WorkOK, Idle, Accepting
  <2>2. QED
    BY <1>19, <2>1, QuietStep DEF Crash
<1>20. ASSUME NEW t \in Callers, BalanceSuffices(t) PROVE ContractInv'
  <2>1. PICK w : w = th[t]
    OBVIOUS
  <2>2. w \in Work /\ w.pc = "check_balance" /\ WorkOK(w)
    BY <1>20, <2>1, WorkPc DEF BalanceSuffices
  <2> DEFINE n == [w EXCEPT !.pc = "request_hold"]
  <2>3. /\ th' = [th EXCEPT ![t] = n]
        /\ UNCHANGED <<db, contracts, holds, submitted>>
    BY <1>20, <2>1 DEF BalanceSuffices, Goto
  <2>4. n.pc = "request_hold" /\ n.bid = w.bid /\ n.row = w.row /\ n.ask = w.ask
    BY <2>2 DEF Work
  <2> HIDE DEF n
  <2>5. WorkOK(n)'
    BY <2>2, <2>3, <2>4 DEF WorkOK, Accepting, RowQuoted
  <2>6. \A s \in Threads : WorkOK(th[s])'
    BY <2>3, <2>5, WorkKept
  <2>7. QED
    BY <2>3, <2>6, QuietStep
<1>21. CASE UNCHANGED vars
  <2>1. UNCHANGED <<db, contracts, holds, submitted, th>>
    BY <1>21 DEF vars
  <2>2. \A t \in Threads : WorkOK(th[t])'
    BY <2>1 DEF WorkOK, RowQuoted, SlipsKept
  <2>3. QED
    BY <2>1, <2>2, QuietStep
<1>22. QED
  BY <1>1, <1>2, <1>3, <1>4, <1>5, <1>6, <1>7, <1>8, <1>9, <1>10, <1>11, <1>12,
     <1>13, <1>14, <1>15, <1>16, <1>17, <1>18, <1>19, <1>20, <1>21
     DEF Next, Request, Handler, Queue

LEMMA InitContract == Init => ContractInv
<1> SUFFICES ASSUME Init PROVE ContractInv
  OBVIOUS
<1>1. TypeOK
  BY InitType
<1>2. /\ Len(db) = 1 /\ Master = db[1] /\ contracts = {}
      /\ \A b \in Bids : db[1].bid[b].status = "none"
      /\ \A a \in Asks : db[1].ask[a] = "none"
  BY DEF Init, Master, NoRow
<1>3. \A t \in Threads : WorkOK(th[t])
  BY DEF Init, WorkOK, Idle, Accepting
<1>4. QED
  BY <1>1, <1>2, <1>3 DEF ContractInv, RowsQuoted, MatchedHasContract,
                          PriceWasQuoted, DepositRequested

(* A matched bid or ask always has its contract, for the very ask and price *)
(* of the row: AcceptOffer's order of writes (contract, bid, ask) keeps it  *)
(* through database errors, crashes, lost messages and replication lag.     *)
THEOREM MatchedIsContracted == Spec => []MatchedHasContract
<1>1. Init => ContractInv
  BY InitContract
<1>2. ContractInv /\ [Next]_vars => ContractInv'
  BY NextContract
<1>3. ContractInv => MatchedHasContract
  BY DEF ContractInv
<1>4. QED
  BY <1>1, <1>2, <1>3, PTL DEF Spec

(* The price of every contract was quoted by the driver of its ask for its *)
(* bid, even when AcceptOffer read a row the slave had not yet updated.     *)
THEOREM ContractPriceQuoted == Spec => []PriceWasQuoted
<1>1. Init => ContractInv
  BY InitContract
<1>2. ContractInv /\ [Next]_vars => ContractInv'
  BY NextContract
<1>3. ContractInv => PriceWasQuoted
  BY DEF ContractInv
<1>4. QED
  BY <1>1, <1>2, <1>3, PTL DEF Spec

(* Every contract has its deposit request on the Kafka topic, for its own   *)
(* bid and price, but for the very requests the producer lost.              *)
THEOREM DepositIsRequested == Spec => []DepositRequested
<1>1. Init => ContractInv
  BY InitContract
<1>2. ContractInv /\ [Next]_vars => ContractInv'
  BY NextContract
<1>3. ContractInv => DepositRequested
  BY DEF ContractInv
<1>4. QED
  BY <1>1, <1>2, <1>3, PTL DEF Spec

-----------------------------------------------------------------------------
(* What a write leaves in the master's rows.                               *)

LEMMA BidRowWritten ==
  ASSUME TypeOK, NEW b \in Bids, NEW row \in BidRow, UpdateBid(b, row)
  PROVE  Master'.bid = [Master.bid EXCEPT ![b] = row]
BY WithTyped, WriteLog DEF UpdateBid, WithBid, TypeOK, DbOK

LEMMA AskRowWritten ==
  ASSUME TypeOK, NEW a \in Asks, NEW row \in AskRow, UpdateAsk(a, row)
  PROVE  Master'.bid = Master.bid
BY WithTyped, WriteLog DEF UpdateAsk, WithAsk, TypeOK, DbOK

-----------------------------------------------------------------------------
(* A step of the holder of the mutex, or of a goroutine that takes it: the *)
(* others are outside their critical sections and promise nothing.         *)
LEMMA HolderStep ==
  ASSUME LockInv, TypeOK', SlipsKept, NEW t \in Threads, mu \in {t, Free}, NEW w,
         th' = [th EXCEPT ![t] = w], RowFresh(w)',
         w.pc \notin Outside => mu' = t
  PROVE  LockInv'
<1>1. th \in [Threads -> Work \cup {Idle}]
  BY DEF LockInv, TypeOK
<1>2. \A s \in Threads : s # t => th'[s] = th[s] /\ th[s].pc \in Outside
  BY <1>1 DEF LockInv
<1>3. th'[t] = w
  BY <1>1
<1>4. \A s \in Threads : RowFresh(th[s])'
  BY <1>2, <1>3 DEF RowFresh, Fresh, Outside, Accepting
<1>5. \A s \in Threads : th'[s].pc \notin Outside => mu' = s
  BY <1>2, <1>3
<1>6. QED
  BY <1>4, <1>5 DEF LockInv

LEMMA IdleFresh == RowFresh(Idle)' /\ Idle.pc \in Outside
BY DEF RowFresh, Fresh, Idle, Outside, Accepting

LEMMA ReturnLock ==
  ASSUME LockInv, TypeOK', SlipsKept, NEW t \in Threads, th[t].pc \notin Outside, Return(t)
  PROVE  LockInv'
BY HolderStep, IdleFresh DEF Return, LockInv

(* Steps without the mutex change no row a goroutine has read.             *)
LEMMA BystanderStep ==
  ASSUME LockInv, TypeOK', SlipsKept, UNCHANGED <<mu, th>>,
         \A b \in Bids : Master.bid[b].status # "none" => Master'.bid[b] = Master.bid[b]
  PROVE  LockInv'
<1>1. ASSUME NEW s \in Threads PROVE RowFresh(th[s])'
  <2>1. RowFresh(th[s]) /\ th[s] \in Work \cup {Idle}
    BY DEF LockInv, TypeOK
  <2>2. CASE th[s].bid \in slips.stale
    BY <2>2 DEF RowFresh, SlipsKept
  <2>3. CASE /\ Fresh(th[s])
             /\ th[s].pc \in Accepting \cup {"offer_update", "reject_update"}
    <3>1. Master.bid[th[s].bid].status \in {"pending", "negotiating"} /\ th[s].bid \in Bids
      BY <2>1, <2>3 DEF Fresh, Work, Idle, Accepting
    <3>2. Master'.bid[th[s].bid] = Master.bid[th[s].bid]
      BY <3>1
    <3>3. QED
      BY <2>3, <3>2 DEF RowFresh, Fresh
  <2>4. CASE th[s].pc \notin Accepting \cup {"offer_update", "reject_update"}
    BY <2>4 DEF RowFresh, Fresh
  <2>5. QED
    BY <2>1, <2>2, <2>3, <2>4 DEF RowFresh
<1>2. QED
  BY <1>1 DEF LockInv

-----------------------------------------------------------------------------
(* Every step keeps the invariant, and is a step of BidLifecycle, changes  *)
(* no row of the master, or writes one on the strength of an old row.      *)

StaleWrite ==
  \E b \in slips.stale, row \in BidRow : Master'.bid = [Master.bid EXCEPT ![b] = row]

Lawful == [BL!Next]_(Master.bid) \/ StaleWrite

(* Taking the mutex after a read: the row is the master's, or goes on      *)
(* record as an old one.                                                   *)
LEMMA ActFresh ==
  ASSUME TypeOK, NEW b \in Bids, Act(b), NEW w, w.bid = b, UNCHANGED db,
         Slave.bid[b] = Master.bid[b] => Fresh(w)'
  PROVE  RowFresh(w)'
<1>1. slips \in Slips
  BY DEF TypeOK
<1>2. CASE Slave.bid[b] = Master.bid[b]
  BY <1>2 DEF RowFresh
<1>3. CASE Slave.bid[b] # Master.bid[b]
  <2>1. b \in slips'.stale
    BY <1>1, <1>3 DEF Act, Slips
  <2>2. QED
    BY <2>1 DEF RowFresh
<1>4. QED
  BY <1>2, <1>3

LEMMA NextLock == ASSUME LockInv, [Next]_vars PROVE LockInv' /\ Lawful
<1> DEFINE Kept == UNCHANGED Master.bid
<1> TypeOK /\ TypeOK'
  BY NextType DEF LockInv
<1> SlipsKept
  BY SlipsGrow
<1> DbOK
  BY DEF DbOK, TypeOK
<1> Master \in Tables /\ Slave \in Tables
  BY EndsTyped
<1> Master.bid \in [Bids -> BidRow]
  BY DEF Tables
<1>0. UNCHANGED db => Kept
  BY DEF Master
<1>1. ASSUME NEW b \in Bids, SubmitBid(b) PROVE LockInv' /\ BL!Next
  <2>1. Master'.bid = [Master.bid EXCEPT ![b] = OpenRow] /\ Master.bid[b].status = "none"
    BY <1>1, BidRowWritten, RowsTyped DEF SubmitBid
  <2>2. UNCHANGED <<mu, th>>
    BY <1>1 DEF SubmitBid
  <2>3. BL!Open(b)
    BY <2>1 DEF BL!Open, BL!OpenDeal, OpenRow
  <2>4. QED
    BY <2>1, <2>2, <2>3, BystanderStep DEF BL!Next
<1>2. ASSUME NEW a \in Asks, SubmitAsk(a) PROVE LockInv' /\ Kept
  <2>1. Master'.bid = Master.bid
    BY <1>2, AskRowWritten DEF SubmitAsk, AskRow
  <2>2. UNCHANGED <<mu, th>>
    BY <1>2 DEF SubmitAsk
  <2>3. QED
    BY <2>1, <2>2, BystanderStep
<1>3. ASSUME NEW b \in Bids, NEW a \in Asks, NEW p \in Prices, SubmitOffer(b, a, p)
      PROVE  LockInv' /\ Kept
  <2>1. Kept /\ UNCHANGED <<mu, th>>
    BY <1>0, <1>3 DEF SubmitOffer
  <2>2. QED
    BY <2>1, BystanderStep
<1>4. ASSUME NEW t \in Callers, NEW b \in Bids, NEW a \in Asks, RejectBegin(t, b, a)
      PROVE  LockInv' /\ Kept
  <2> DEFINE w == [pc |-> "reject_update", bid |-> b, ask |-> a, price |-> 0,
                   row |-> OpenRow, id |-> 0]
  <2>1. /\ th' = [th EXCEPT ![t] = w] /\ mu = Free /\ mu' = t /\ Kept /\ UNCHANGED db
        /\ Act(b) /\ Slave.bid[b].status = "negotiating"
    BY <1>0, <1>4 DEF RejectBegin, Lock
  <2>2. RowFresh(w)'
    BY <2>1, ActFresh DEF Fresh, Accepting
  <2> HIDE DEF w
  <2>3. QED
    BY <2>1, <2>2, HolderStep
<1>5. ASSUME NEW t \in Callers, NEW b \in Bids, NEW a \in Asks,
             NEW p \in Amount, AcceptBegin(t, b, a, p)
      PROVE  LockInv' /\ Kept
  <2>1. PICK row : row = Slave.bid[b]
    OBVIOUS
  <2> DEFINE w == [pc |-> "check_balance", bid |-> b, ask |-> a, price |-> p,
                   row |-> row, id |-> 0]
  <2>2. /\ th' = [th EXCEPT ![t] = w] /\ mu = Free /\ mu' = t /\ Kept /\ UNCHANGED db
        /\ Act(b) /\ row.status = "negotiating"
    BY <1>0, <1>5, <2>1 DEF AcceptBegin, Lock
  <2>3. RowFresh(w)'
    BY <2>1, <2>2, ActFresh DEF Fresh, Accepting
  <2> HIDE DEF w
  <2>4. QED
    BY <2>2, <2>3, HolderStep
<1>6. ASSUME NEW t \in Callers, RejectUpdate(t) PROVE LockInv' /\ Lawful
  <2>1. PICK w : w = th[t]
    OBVIOUS
  <2>2. w \in Work /\ w.pc = "reject_update" /\ RowFresh(w) /\ mu = t
    BY <1>6, <2>1, WorkPc DEF RejectUpdate, LockInv, Outside
  <2>3. CASE DbError(t)
    BY <1>0, <2>1, <2>2, <2>3, ReturnLock DEF DbError, Outside, Lawful
  <2>4. CASE ~DbError(t)
    <3> DEFINE n == [w EXCEPT !.pc = "reject_notify"]
    <3>1. /\ UpdateBid(w.bid, w.row)
          /\ th' = [th EXCEPT ![t] = n]
          /\ mu' = t
      BY <1>6, <2>1, <2>2, <2>4 DEF RejectUpdate, Goto, Work
    <3>2. n.pc = "reject_notify"
      BY <2>2 DEF Work
    <3> HIDE DEF n
    <3>3. RowFresh(n)'
      BY <3>2 DEF RowFresh, Fresh, Accepting
    <3>4. LockInv'
      BY <2>2, <3>1, <3>3, HolderStep
    <3>5. w.bid \in Bids /\ w.row \in BidRow
      BY <2>2 DEF Work
    <3>6. CASE Fresh(w)
      <4>1. w.row = OpenRow /\ Master.bid[w.bid].status = "negotiating"
        BY <2>2, <3>6 DEF Fresh
      <4>2. BL!Decline(w.bid)
        BY <3>1, <3>5, <4>1, BidRowWritten DEF BL!Decline, BL!OpenDeal, OpenRow
      <4>3. QED
        BY <3>4, <3>5, <4>2 DEF BL!Next, Lawful
    <3>7. CASE w.bid \in slips.stale
      BY <3>1, <3>4, <3>5, <3>7, BidRowWritten DEF Lawful, StaleWrite
    <3>8. QED
      BY <2>2, <3>6, <3>7 DEF RowFresh
  <2>5. QED
    BY <2>3, <2>4
<1>7. ASSUME NEW t \in Callers, RejectNotify(t) PROVE LockInv' /\ Kept
  BY <1>0, <1>7, ReturnLock DEF RejectNotify, Outside
<1>8. ASSUME NEW t \in Callers, BalanceRefused(t) PROVE LockInv' /\ Kept
  BY <1>0, <1>8, ReturnLock DEF BalanceRefused, Outside
<1>9. ASSUME NEW t \in Callers, RequestHold(t) PROVE LockInv' /\ Kept
  <2>1. PICK w : w = th[t]
    OBVIOUS
  <2>2. w \in Work /\ w.pc = "request_hold" /\ RowFresh(w) /\ mu = t
    BY <1>9, <2>1, WorkPc DEF RequestHold, PublishHold, LockInv, Outside
  <2>3. PICK k : k = used + 1
    OBVIOUS
  <2> DEFINE n == [w EXCEPT !.pc = "write_contract", !.id = k]
  <2>4. th' = [th EXCEPT ![t] = n] /\ mu' = t /\ Kept
    BY <1>0, <1>9, <2>1, <2>2, <2>3 DEF RequestHold, PublishHold
  <2>5. n.pc = "write_contract" /\ n.bid = w.bid /\ n.row = w.row
    BY <2>2 DEF Work
  <2> HIDE DEF n
  <2>6. RowFresh(n)'
    BY <2>2, <2>4, <2>5 DEF RowFresh, Fresh, Accepting, SlipsKept
  <2>7. QED
    BY <2>2, <2>4, <2>6, HolderStep
<1>10. ASSUME NEW t \in Callers, WriteContract(t) PROVE LockInv' /\ Kept
  <2>1. PICK w : w = th[t]
    OBVIOUS
  <2>2. w \in Work /\ w.pc = "write_contract" /\ RowFresh(w) /\ mu = t
    BY <1>10, <2>1, WorkPc DEF WriteContract, LockInv, Outside
  <2>3. CASE DbError(t)
    BY <1>0, <2>1, <2>2, <2>3, ReturnLock DEF DbError, Outside, Lawful
  <2>4. CASE ~DbError(t)
    <3> DEFINE n == [w EXCEPT !.pc = "match_bid"]
    <3>1. th' = [th EXCEPT ![t] = n] /\ mu' = t /\ Kept
      BY <1>0, <1>10, <2>1, <2>2, <2>4 DEF WriteContract, Goto
    <3>2. n.pc = "match_bid" /\ n.bid = w.bid /\ n.row = w.row
      BY <2>2 DEF Work
    <3> HIDE DEF n
    <3>3. RowFresh(n)'
      BY <2>2, <3>1, <3>2 DEF RowFresh, Fresh, Accepting, SlipsKept
    <3>4. QED
      BY <2>2, <3>1, <3>3, HolderStep
  <2>5. QED
    BY <2>3, <2>4
<1>11. ASSUME NEW t \in Callers, MatchBid(t) PROVE LockInv' /\ Lawful
  <2>1. PICK w : w = th[t]
    OBVIOUS
  <2>2. w \in Work /\ w.pc = "match_bid" /\ RowFresh(w) /\ mu = t
    BY <1>11, <2>1, WorkPc DEF MatchBid, LockInv, Outside
  <2>3. CASE DbError(t)
    BY <1>0, <2>1, <2>2, <2>3, ReturnLock DEF DbError, Outside, Lawful
  <2>4. CASE ~DbError(t)
    <3> DEFINE n == [w EXCEPT !.pc = "match_ask"]
               row == [w.row EXCEPT !.status = "matched"]
    <3>1. /\ UpdateBid(w.bid, row)
          /\ th' = [th EXCEPT ![t] = n]
          /\ mu' = t
      BY <1>11, <2>1, <2>2, <2>4 DEF MatchBid, Goto, Work
    <3>2. n.pc = "match_ask"
      BY <2>2 DEF Work
    <3>3. row \in BidRow /\ w.bid \in Bids
          /\ row = [status |-> "matched", ask |-> w.row.ask, price |-> w.row.price]
      BY <2>2 DEF Work, BidRow
    <3> HIDE DEF n, row
    <3>4. RowFresh(n)'
      BY <3>2 DEF RowFresh, Fresh, Accepting
    <3>5. LockInv'
      BY <2>2, <3>1, <3>4, HolderStep
    <3>6. CASE Fresh(w)
      <4>1. Master.bid[w.bid] = w.row /\ w.row.status = "negotiating"
        BY <2>2, <3>6 DEF Fresh, Accepting
      <4>2. BL!Accept(w.bid)
        BY <3>1, <3>3, <4>1, BidRowWritten DEF BL!Accept
      <4>3. QED
        BY <3>3, <3>5, <4>2 DEF BL!Next, Lawful
    <3>7. CASE w.bid \in slips.stale
      BY <3>1, <3>3, <3>5, <3>7, BidRowWritten DEF Lawful, StaleWrite
    <3>8. QED
      BY <2>2, <3>6, <3>7 DEF RowFresh
  <2>5. QED
    BY <2>3, <2>4
<1>12. ASSUME NEW t \in Callers, MatchAsk(t) PROVE LockInv' /\ Kept
  <2>1. PICK w : w = th[t]
    OBVIOUS
  <2>2. w \in Work /\ w.pc = "match_ask" /\ mu = t
    BY <1>12, <2>1, WorkPc DEF MatchAsk, LockInv, Outside
  <2>3. CASE DbError(t)
    BY <1>0, <2>1, <2>2, <2>3, ReturnLock DEF DbError, Outside, Lawful
  <2>4. CASE ~DbError(t)
    <3> DEFINE n == [w EXCEPT !.pc = "announce"]
    <3>1. /\ UpdateAsk(w.ask, "matched") /\ w.ask \in Asks
          /\ th' = [th EXCEPT ![t] = n]
          /\ mu' = t
      BY <1>12, <2>1, <2>2, <2>4 DEF MatchAsk, Goto, Work
    <3>2. n.pc = "announce"
      BY <2>2 DEF Work
    <3> HIDE DEF n
    <3>3. RowFresh(n)'
      BY <3>2 DEF RowFresh, Fresh, Accepting
    <3>4. QED
      BY <2>2, <3>1, <3>3, HolderStep, AskRowWritten DEF AskRow
  <2>5. QED
    BY <2>3, <2>4
<1>13. ASSUME NEW t \in Callers, Announce(t) PROVE LockInv' /\ Kept
  BY <1>0, <1>13, ReturnLock DEF Announce, Outside
<1>14. ASSUME NEW m \in offers, TakeOffer(m) PROVE LockInv' /\ Kept
  <2>1. m \in Offer
    BY DEF TypeOK
  <2>2. PICK w : w = OfferWork(m, "offer_update")
    OBVIOUS
  <2>3. /\ th' = [th EXCEPT ![Consumer] = w] /\ mu = Free /\ mu' = Consumer /\ Kept
        /\ UNCHANGED db /\ Act(m.bid) /\ Slave.bid[m.bid].status = "pending"
    BY <1>0, <1>14, <2>2 DEF TakeOffer, Lock
  <2>4. /\ w.pc = "offer_update" /\ w.bid = m.bid /\ w.price \in Prices
        /\ w.row = [status |-> "negotiating", ask |-> w.ask, price |-> w.price]
    BY <2>1, <2>2 DEF OfferWork, Quoted, Offer
  <2>5. m.bid \in Bids
    BY <2>1 DEF Offer
  <2>6. RowFresh(w)'
    BY <2>3, <2>4, <2>5, ActFresh DEF Fresh, Accepting
  <2>7. QED
    BY <2>3, <2>6, HolderStep
<1>15. ASSUME NEW m \in offers, RefuseOffer(m) PROVE LockInv' /\ Kept
  <2>1. PICK w : w = OfferWork(m, "offer_ack")
    OBVIOUS
  <2>2. /\ th' = [th EXCEPT ![Consumer] = w] /\ mu = Free /\ Kept
    BY <1>0, <1>15, <2>1 DEF RefuseOffer
  <2>3. w.pc = "offer_ack"
    BY <2>1 DEF OfferWork
  <2>4. RowFresh(w)' /\ w.pc \in Outside
    BY <2>3 DEF RowFresh, Fresh, Accepting, Outside
  <2>5. QED
    BY <2>2, <2>4, HolderStep
<1>16. ASSUME OfferUpdate PROVE LockInv' /\ Lawful
  <2>1. PICK w : w = th[Consumer]
    OBVIOUS
  <2>2. w \in Work /\ w.pc = "offer_update" /\ RowFresh(w) /\ mu = Consumer
    BY <1>16, <2>1, WorkPc DEF OfferUpdate, LockInv, Outside
  <2>3. CASE DbError(Consumer)
    BY <1>0, <2>1, <2>2, <2>3, ReturnLock DEF DbError, Outside, Lawful
  <2>4. CASE ~DbError(Consumer)
    <3> DEFINE n == [w EXCEPT !.pc = "offer_forward"]
    <3>1. /\ UpdateBid(w.bid, w.row)
          /\ th' = [th EXCEPT ![Consumer] = n]
          /\ mu' = Consumer
      BY <1>16, <2>1, <2>2, <2>4 DEF OfferUpdate, Goto, Work
    <3>2. n.pc = "offer_forward"
      BY <2>2 DEF Work
    <3> HIDE DEF n
    <3>3. RowFresh(n)'
      BY <3>2 DEF RowFresh, Fresh, Accepting
    <3>4. LockInv'
      BY <2>2, <3>1, <3>3, HolderStep
    <3>5. w.bid \in Bids /\ w.ask \in Asks /\ w.row \in BidRow
      BY <2>2 DEF Work
    <3>6. CASE Fresh(w)
      <4>1. /\ w.row = [status |-> "negotiating", ask |-> w.ask, price |-> w.price]
            /\ w.price \in Prices /\ Master.bid[w.bid].status = "pending"
        BY <2>2, <3>6 DEF Fresh
      <4>2. BL!Quote(w.bid, w.ask, w.price)
        BY <3>1, <3>5, <4>1, BidRowWritten DEF BL!Quote
      <4>3. QED
        BY <3>4, <3>5, <4>1, <4>2 DEF BL!Next, Lawful
    <3>7. CASE w.bid \in slips.stale
      BY <3>1, <3>4, <3>5, <3>7, BidRowWritten DEF Lawful, StaleWrite
    <3>8. QED
      BY <2>2, <3>6, <3>7 DEF RowFresh
  <2>5. QED
    BY <2>3, <2>4
<1>17. ASSUME OfferForward PROVE LockInv' /\ Kept
  <2>1. PICK w : w = th[Consumer]
    OBVIOUS
  <2>2. w \in Work /\ w.pc = "offer_forward" /\ mu = Consumer
    BY <1>17, <2>1, WorkPc DEF OfferForward, LockInv, Outside
  <2> DEFINE n == [w EXCEPT !.pc = "offer_ack"]
  <2>3. th' = [th EXCEPT ![Consumer] = n] /\ Kept
    BY <1>0, <1>17, <2>1 DEF OfferForward
  <2>4. n.pc = "offer_ack"
    BY <2>2 DEF Work
  <2> HIDE DEF n
  <2>5. RowFresh(n)' /\ n.pc \in Outside
    BY <2>4 DEF RowFresh, Fresh, Accepting, Outside
  <2>6. QED
    BY <2>2, <2>3, <2>5, HolderStep
<1>18. ASSUME OfferAck PROVE LockInv' /\ Kept
  <2>1. /\ th' = [th EXCEPT ![Consumer] = Idle] /\ UNCHANGED mu /\ Kept
    BY <1>0, <1>18 DEF OfferAck
  <2>2. \A s \in Threads : th'[s] = th[s] \/ th'[s] = Idle
    BY <2>1 DEF TypeOK
  <2>3. \A s \in Threads : RowFresh(th[s])' /\ (th'[s].pc \notin Outside => mu' = s)
    BY <2>1, <2>2, IdleFresh DEF LockInv, RowFresh, Fresh, SlipsKept
  <2>4. QED
    BY <2>1, <2>3 DEF LockInv
<1>19. ASSUME Replay PROVE LockInv' /\ Kept
  <2>1. Kept /\ UNCHANGED <<mu, th>>
    BY <1>19, ReplayLog DEF Replay
  <2>2. QED
    BY <2>1, BystanderStep
<1>20. ASSUME Crash PROVE LockInv' /\ Kept
  <2>1. Kept /\ \A t \in Threads : th'[t] = Idle
    BY <1>0, <1>20 DEF Crash
  <2>2. QED
    BY <2>1, IdleFresh DEF LockInv
<1>21. ASSUME UNCHANGED vars PROVE LockInv' /\ Kept
  <2>1. Kept /\ UNCHANGED <<mu, th>>
    BY <1>0, <1>21 DEF vars
  <2>2. QED
    BY <2>1, BystanderStep
<1>22. ASSUME NEW t \in Callers, BalanceSuffices(t) PROVE LockInv' /\ Kept
  <2>1. PICK w : w = th[t]
    OBVIOUS
  <2>2. w \in Work /\ w.pc = "check_balance" /\ RowFresh(w) /\ mu = t
    BY <1>22, <2>1, WorkPc DEF BalanceSuffices, LockInv, Outside
  <2> DEFINE n == [w EXCEPT !.pc = "request_hold"]
  <2>3. th' = [th EXCEPT ![t] = n] /\ mu' = t /\ Kept
    BY <1>0, <1>22, <2>1, <2>2 DEF BalanceSuffices, Goto
  <2>4. n.pc = "request_hold" /\ n.bid = w.bid /\ n.row = w.row
    BY <2>2 DEF Work
  <2> HIDE DEF n
  <2>5. RowFresh(n)'
    BY <2>2, <2>3, <2>4 DEF RowFresh, Fresh, Accepting, SlipsKept
  <2>6. QED
    BY <2>2, <2>3, <2>5, HolderStep
<1>23. Kept \/ BL!Next => Lawful
  BY DEF Lawful
<1>24. QED
  BY <1>1, <1>2, <1>3, <1>4, <1>5, <1>6, <1>7, <1>8, <1>9, <1>10, <1>11, <1>12,
     <1>13, <1>14, <1>15, <1>16, <1>17, <1>18, <1>19, <1>20, <1>21, <1>22, <1>23
     DEF Next, Request, Handler, Queue

-----------------------------------------------------------------------------
(* With Lag = 0 the log has one state: the slave shows the master.         *)

LEMMA SlaveIsMaster ==
  ASSUME TypeOK, Lag = 0
  PROVE  DbOK /\ Slave = Master /\ Master \in Tables
<1>1. DbOK
  BY DEF TypeOK, DbOK
<1>2. Len(db) = 1
  BY DEF TypeOK
<1>3. QED
  BY <1>1, <1>2, EndsTyped DEF Slave, Master

(* So nothing is ever read too late.                                       *)
LEMMA NeverStale ==
  ASSUME TypeOK, Lag = 0, slips.stale = {}, [Next]_vars
  PROVE  slips'.stale = {}
<1>1. Slave = Master /\ slips \in Slips
  BY SlaveIsMaster DEF TypeOK
<1>2. CASE UNCHANGED slips
  BY <1>2
<1>3. ASSUME NEW b, Act(b) PROVE slips'.stale = {}
  BY <1>1, <1>3 DEF Act
<1>4. ASSUME NEW ts, End(ts) PROVE slips'.stale = {}
  BY <1>1, <1>4 DEF End, Slips
<1>5. ASSUME NEW t \in Callers, RequestHold(t) PROVE slips'.stale = {}
  BY <1>1, <1>5 DEF RequestHold, PublishHold, Slips
<1>6. QED
  BY <1>2, <1>3, <1>4, <1>5 DEF Next, Request, Handler, Queue, SubmitBid, SubmitAsk,
     SubmitOffer, RejectBegin, AcceptBegin, RejectUpdate, RejectNotify, BalanceRefused,
     BalanceSuffices, WriteContract, MatchBid, MatchAsk, Announce, TakeOffer, RefuseOffer,
     OfferUpdate, OfferForward, OfferAck, DbError, Replay, Crash, vars

LEMMA InitLifecycle == Init => LockInv /\ BL!Init
<1> SUFFICES ASSUME Init PROVE LockInv /\ BL!Init
  OBVIOUS
<1>1. TypeOK
  BY InitType
<1>2. \A t \in Threads : th[t] = Idle
  BY DEF Init
<1>3. LockInv
  BY <1>1, <1>2 DEF LockInv, RowFresh, Fresh, Idle, Outside, Accepting
<1>4. Master.bid = [b \in Bids |-> NoRow]
  BY DEF Init, Master
<1>5. QED
  BY <1>3, <1>4 DEF BL!Init, BL!NoDeal, NoRow

(* If no read lags behind a write, the engine implements the documented    *)
(* state machine of a bid: one quote at a time holds the soft lock and a   *)
(* matched bid is final, for any number of concurrent handlers, redelivered *)
(* offers, database errors and crashes.                                    *)
THEOREM LifecycleImplemented ==
  ASSUME Lag = 0
  PROVE  Spec => Lifecycle
<1>1. Init => LockInv /\ slips.stale = {} /\ BL!Init
  BY InitLifecycle DEF Init
<1>2. LockInv /\ slips.stale = {} /\ [Next]_vars =>
        LockInv' /\ (slips.stale = {})' /\ [BL!Next]_(Master.bid)
  BY NextLock, NeverStale DEF Lawful, StaleWrite, LockInv
<1>3. QED
  BY <1>1, <1>2, PTL DEF Spec, Lifecycle, BL!Spec

-----------------------------------------------------------------------------
(* A bid is sold once.                                                     *)

(* The row of a bid leaves "matched" in no step of BidLifecycle.           *)
LEMMA MatchedStays ==
  ASSUME TypeOK, Lawful, NEW b \in Bids, b \notin slips.stale,
         Master.bid[b].status = "matched"
  PROVE  Master'.bid[b].status = "matched"
<1>1. Master.bid \in [Bids -> BidRow]
  BY EndsTyped DEF TypeOK, DbOK, Tables
<1>2. CASE UNCHANGED Master.bid
  BY <1>2
<1>3. CASE BL!Next
  <2>1. PICK c \in Bids : /\ Master.bid[c].status # "matched"
                          /\ \E row : Master'.bid = [Master.bid EXCEPT ![c] = row]
    BY <1>3 DEF BL!Next, BL!Open, BL!Quote, BL!Decline, BL!Accept
  <2>2. QED
    BY <1>1, <2>1
<1>4. CASE StaleWrite
  BY <1>1, <1>4 DEF StaleWrite
<1>5. QED
  BY <1>2, <1>3, <1>4 DEF Lawful

(* A goroutine that ends before the flip goes on record.                   *)
LEMMA EndRecords ==
  ASSUME TypeOK, NEW ts \in SUBSET Threads, End(ts), NEW t \in ts,
         th[t].pc \in {"write_contract", "match_bid"}
  PROVE  th[t].id \in slips'.cut
BY DEF TypeOK, End, Slips

(* A goroutine about to flip a bid goes on unless an error or a crash ends *)
(* it.                                                                     *)
LEMMA MatchBidStays ==
  ASSUME TypeOK, [Next]_vars, NEW t \in Threads, th[t].pc = "match_bid"
  PROVE  \/ th'[t] = th[t]
         \/ Master'.bid[th[t].bid].status = "matched"
         \/ th[t].id \in slips'.cut
<1>0. th \in [Threads -> Work \cup {Idle}] /\ th[t] # Idle
  BY DEF TypeOK, Idle
<1>1. ASSUME NEW s \in Callers, NEW b \in Bids, NEW a \in Asks,
             RejectBegin(s, b, a) \/ \E p \in Amount : AcceptBegin(s, b, a, p)
      PROVE  th'[t] = th[t]
  BY <1>0, <1>1 DEF RejectBegin, AcceptBegin, Lock
<1>2. ASSUME NEW s \in Threads, DbError(s)
      PROVE  th'[t] = th[t] \/ th[t].id \in slips'.cut
  <2>1. CASE s = t
    BY <1>2, <2>1, EndRecords DEF DbError
  <2>2. CASE s # t
    BY <1>0, <1>2, <2>2 DEF DbError, Return
  <2>3. QED
    BY <2>1, <2>2
<1>3. ASSUME NEW s \in Callers, Handler(s), ~MatchBid(s), ~DbError(s)
      PROVE  th'[t] = th[t]
  BY <1>0, <1>3 DEF Handler, RejectUpdate, RejectNotify, BalanceRefused, BalanceSuffices,
     RequestHold, PublishHold, WriteContract, MatchAsk, Announce, Goto, Return
<1>4. ASSUME NEW s \in Callers, MatchBid(s), ~DbError(s)
      PROVE  th'[t] = th[t] \/ Master'.bid[th[t].bid].status = "matched"
  <2>1. CASE s # t
    BY <1>0, <1>4, <2>1 DEF MatchBid, Goto
  <2>2. CASE s = t
    <3>1. PICK w : w = th[t]
      OBVIOUS
    <3> DEFINE row == [w.row EXCEPT !.status = "matched"]
    <3>2. w \in Work /\ w.bid \in Bids /\ row \in BidRow /\ row.status = "matched"
      BY <3>1, WorkPc DEF Work, BidRow
    <3>3. UpdateBid(w.bid, row)
      BY <1>4, <2>2, <3>1 DEF MatchBid
    <3> HIDE DEF row
    <3>4. Master'.bid = [Master.bid EXCEPT ![w.bid] = row] /\ Master.bid \in [Bids -> BidRow]
      BY <3>2, <3>3, BidRowWritten, EndsTyped DEF TypeOK, DbOK, Tables
    <3>5. QED
      BY <3>1, <3>2, <3>4
  <2>3. QED
    BY <2>1, <2>2
<1>5. ASSUME Queue, ~DbError(Consumer) PROVE th'[t] = th[t]
  BY <1>0, <1>5 DEF Queue, TakeOffer, RefuseOffer, OfferUpdate, OfferForward, OfferAck,
     Lock, Goto, Return
<1>6. ASSUME Crash PROVE th[t].id \in slips'.cut
  BY <1>6, EndRecords DEF Crash
<1>7. QED
  BY <1>1, <1>2, <1>3, <1>4, <1>5, <1>6
     DEF Next, Request, SubmitBid, SubmitAsk, SubmitOffer, Replay, vars

LEMMA NextSale == ASSUME SaleInv, [Next]_vars PROVE SaleInv'
<1> TypeOK /\ LockInv /\ LockInv' /\ TypeOK' /\ Lawful
  BY NextLock DEF SaleInv, LockInv
<1> SlipsKept
  BY SlipsGrow
<1>0. ASSUME NEW c \in contracts PROVE Sold(c)'
  <2>1. c.bid \in Bids /\ Sold(c)
    BY DEF TypeOK, Contract, SaleInv
  <2>2. CASE c.bid \in slips.stale \/ c.id \in slips.cut
    BY <2>2 DEF Sold, SlipsKept
  <2>3. CASE c.bid \notin slips.stale /\ Master.bid[c.bid].status = "matched"
    BY <2>1, <2>3, MatchedStays DEF Sold
  <2>4. CASE \E t \in Threads : th[t].pc = "match_bid" /\ th[t].bid = c.bid /\ th[t].id = c.id
    BY <2>4, MatchBidStays DEF Sold
  <2>5. QED
    BY <2>1, <2>2, <2>3, <2>4 DEF Sold
<1>1. CASE UNCHANGED contracts
  <2>1. OneContractPerBid'
    BY <1>1 DEF SaleInv, OneContractPerBid, SlipsKept
  <2>2. QED
    BY <1>0, <1>1, <2>1 DEF SaleInv
<1>2. ASSUME NEW t \in Callers, WriteContract(t), ~UNCHANGED contracts PROVE SaleInv'
  <2>1. PICK w : w = th[t]
    OBVIOUS
  <2>2. /\ w \in Work /\ w.pc = "write_contract" /\ RowFresh(w) /\ mu = t
        /\ w.bid \in Bids
    BY <1>2, <2>1, WorkPc DEF WriteContract, LockInv, Outside, Work
  <2> DEFINE c == [id |-> w.id, bid |-> w.bid, ask |-> w.ask, price |-> w.row.price]
             n == [w EXCEPT !.pc = "match_bid"]
  <2>3. /\ contracts' = contracts \cup {c}
        /\ th' = [th EXCEPT ![t] = n]
    BY <1>2, <2>1 DEF WriteContract, Goto, DbError
  <2>4. /\ n.pc = "match_bid" /\ n.bid = w.bid /\ n.id = w.id
        /\ c.bid = w.bid /\ c.id = w.id /\ th'[t] = n
    BY <2>2, <2>3 DEF Work, TypeOK
  <2> HIDE DEF c, n
  <2>5. Sold(c)'
    BY <2>4 DEF Sold
  <2>6. \A s \in Threads : th[s].pc # "match_bid"
    BY <2>1, <2>2 DEF LockInv, Outside
  <2>7. ASSUME NEW d \in contracts, d.bid = c.bid, c.bid \notin slips.stale
        PROVE  d.id \in slips.cut
    <3>1. Fresh(w)
      BY <2>2, <2>4, <2>7 DEF RowFresh
    <3>2. Master.bid[c.bid].status = "negotiating"
      BY <2>2, <2>4, <3>1 DEF Fresh, Accepting
    <3>3. QED
      BY <2>6, <2>7, <3>2 DEF SaleInv, Sold
  <2>8. ASSUME NEW d \in contracts', NEW e \in contracts', d.bid = e.bid, d # e
        PROVE  d.bid \in slips'.stale \/ d.id \in slips'.cut \/ e.id \in slips'.cut
    <3>1. CASE d \in contracts /\ e \in contracts
      BY <2>8, <3>1 DEF SaleInv, OneContractPerBid, SlipsKept
    <3>2. CASE d = c \/ e = c
      BY <2>3, <2>7, <2>8, <3>2 DEF SlipsKept
    <3>3. QED
      BY <2>3, <3>1, <3>2
  <2>9. OneContractPerBid'
    BY <2>8 DEF OneContractPerBid
  <2>10. QED
    BY <1>0, <2>3, <2>5, <2>9 DEF SaleInv
<1>3. UNCHANGED contracts \/ \E t \in Callers : WriteContract(t)
  BY DEF Next, Request, Handler, Queue, SubmitBid, SubmitAsk, SubmitOffer, RejectBegin,
     AcceptBegin, RejectUpdate, RejectNotify, BalanceRefused, BalanceSuffices, RequestHold,
     PublishHold, MatchBid, MatchAsk, Announce, TakeOffer, RefuseOffer, OfferUpdate,
     OfferForward, OfferAck, DbError, Replay, Crash, vars
<1>4. QED
  BY <1>1, <1>2, <1>3

LEMMA InitSale == Init => SaleInv
<1> SUFFICES ASSUME Init PROVE SaleInv
  OBVIOUS
<1>1. LockInv /\ contracts = {}
  BY InitLifecycle DEF Init
<1>2. QED
  BY <1>1 DEF SaleInv, OneContractPerBid

(* A bid is sold once, however many accepts, quotes and redelivered offers *)
(* race for it, for every lag and failure: the mutex makes the status      *)
(* check and the flip one step for everybody else, so a second contract    *)
(* takes an attempt that ended between the two, or an old row of the slave. *)
THEOREM SoldOnce == Spec => []OneContractPerBid
<1>1. SaleInv /\ [Next]_vars => SaleInv'
  BY NextSale
<1>2. SaleInv => OneContractPerBid
  BY DEF SaleInv
<1>3. QED
  BY <1>1, <1>2, InitSale, PTL DEF Spec

(* A contract is written for the quote that stands in the master at that   *)
(* very moment, wherever the slave did not mislead a handler: a quote that *)
(* was declined, or replaced, between the read and the write is not sold.  *)
THEOREM CurrentQuoteSold == Spec => AcceptsCurrentQuote
<1>1. ASSUME LockInv, ContractInv, [Next]_vars,
             NEW c \in contracts' \ contracts, c.bid \notin slips.stale
      PROVE  Master.bid[c.bid] = [status |-> "negotiating", ask |-> c.ask, price |-> c.price]
  <2>1. PICK t \in Callers : WriteContract(t)
    BY <1>1 DEF Next, Request, Handler, Queue, SubmitBid, SubmitAsk, SubmitOffer,
       RejectBegin, AcceptBegin, RejectUpdate, RejectNotify, BalanceRefused,
       BalanceSuffices, RequestHold, PublishHold, MatchBid, MatchAsk, Announce, TakeOffer,
       RefuseOffer, OfferUpdate, OfferForward, OfferAck, DbError, Replay, Crash, vars
  <2>2. PICK w : w = th[t]
    OBVIOUS
  <2>3. w \in Work /\ w.pc = "write_contract" /\ RowFresh(w) /\ WorkOK(w)
    BY <1>1, <2>1, <2>2, WorkPc DEF WriteContract, LockInv, ContractInv
  <2>4. c = [id |-> w.id, bid |-> w.bid, ask |-> w.ask, price |-> w.row.price]
    BY <1>1, <2>1, <2>2 DEF WriteContract, DbError
  <2>5. w.row.ask = w.ask /\ w.row \in BidRow
    BY <2>3 DEF WorkOK, Accepting, Work
  <2>6. Master.bid[w.bid] = w.row /\ w.row.status = "negotiating"
    BY <1>1, <2>3, <2>4 DEF RowFresh, Fresh, Accepting
  <2>7. w.row = [status |-> "negotiating", ask |-> w.ask, price |-> w.row.price]
    BY <2>5, <2>6 DEF BidRow
  <2>8. c.bid = w.bid /\ c.ask = w.ask /\ c.price = w.row.price
    BY <2>4
  <2>9. QED
    BY <2>6, <2>7, <2>8
<1>2. LockInv /\ ContractInv /\ [Next]_vars =>
        [\A c \in contracts' \ contracts :
           c.bid \in slips.stale \/
           Master.bid[c.bid] = [status |-> "negotiating", ask |-> c.ask, price |-> c.price]]_vars
  BY <1>1
<1>3. Init => LockInv /\ ContractInv
  BY InitContract, InitLifecycle
<1>4. LockInv /\ ContractInv /\ [Next]_vars => LockInv' /\ ContractInv'
  BY NextLock, NextContract
<1>5. QED
  BY <1>2, <1>3, <1>4, PTL DEF Spec, AcceptsCurrentQuote

-----------------------------------------------------------------------------
(* Deposits.                                                               *)

(* A goroutine between the deposit request and the contract only moves by  *)
(* writing that contract, or ends and goes on record.                      *)
LEMMA WritesContract ==
  ASSUME TypeOK, [Next]_vars, NEW t \in Threads, th[t].pc = "write_contract"
  PROVE  \/ th'[t] = th[t]
         \/ [id |-> th[t].id, bid |-> th[t].bid, ask |-> th[t].ask,
             price |-> th[t].row.price] \in contracts'
         \/ th[t].id \in slips'.cut
<1>0. th \in [Threads -> Work \cup {Idle}] /\ th[t] # Idle
  BY DEF TypeOK, Idle
<1>1. ASSUME NEW s \in Callers, NEW b \in Bids, NEW a \in Asks,
             RejectBegin(s, b, a) \/ \E p \in Amount : AcceptBegin(s, b, a, p)
      PROVE  th'[t] = th[t]
  BY <1>0, <1>1 DEF RejectBegin, AcceptBegin, Lock
<1>2. ASSUME NEW s \in Threads, DbError(s)
      PROVE  th'[t] = th[t] \/ th[t].id \in slips'.cut
  <2>1. CASE s = t
    BY <1>2, <2>1, EndRecords DEF DbError
  <2>2. CASE s # t
    BY <1>0, <1>2, <2>2 DEF DbError, Return
  <2>3. QED
    BY <2>1, <2>2
<1>3. ASSUME NEW s \in Callers, Handler(s), ~WriteContract(s), ~DbError(s)
      PROVE  th'[t] = th[t]
  BY <1>0, <1>3 DEF Handler, RejectUpdate, RejectNotify, BalanceRefused, BalanceSuffices,
     RequestHold, PublishHold, MatchBid, MatchAsk, Announce, Goto, Return
<1>4. ASSUME NEW s \in Callers, WriteContract(s), ~DbError(s)
      PROVE  \/ th'[t] = th[t]
             \/ [id |-> th[t].id, bid |-> th[t].bid, ask |-> th[t].ask,
                 price |-> th[t].row.price] \in contracts'
  BY <1>0, <1>4 DEF WriteContract, Goto
<1>5. ASSUME Queue, ~DbError(Consumer) PROVE th'[t] = th[t]
  BY <1>0, <1>5 DEF Queue, TakeOffer, RefuseOffer, OfferUpdate, OfferForward, OfferAck,
     Lock, Goto, Return
<1>6. ASSUME Crash PROVE th[t].id \in slips'.cut
  BY <1>6, EndRecords DEF Crash
<1>7. QED
  BY <1>1, <1>2, <1>3, <1>4, <1>5, <1>6
     DEF Next, Request, SubmitBid, SubmitAsk, SubmitOffer, Replay, vars

LEMMA NextHold ==
  ASSUME TypeOK, HoldHasContract, [Next]_vars
  PROVE  HoldHasContract'
<1> DEFINE Writing(h, t) == /\ th[t].pc = "write_contract" /\ th[t].id = h.id
                            /\ th[t].bid = h.bid /\ th[t].row.price = h.price
           Written(h, c) == c.id = h.id /\ c.bid = h.bid /\ c.price = h.price
<1> SlipsKept
  BY SlipsGrow
<1>1. contracts \subseteq contracts'
  BY DEF Next, Request, Handler, Queue, SubmitBid, SubmitAsk, SubmitOffer, RejectBegin,
     AcceptBegin, RejectUpdate, RejectNotify, BalanceRefused, BalanceSuffices, RequestHold,
     PublishHold, WriteContract, MatchBid, MatchAsk, Announce, TakeOffer, RefuseOffer,
     OfferUpdate, OfferForward, OfferAck, DbError, Replay, Crash, vars
<1>2. ASSUME NEW h \in holds
      PROVE  \/ h.id \in slips'.cut
             \/ \E c \in contracts' : Written(h, c)
             \/ \E t \in Threads : Writing(h, t)'
  <2>1. CASE h.id \in slips.cut
    BY <2>1 DEF SlipsKept
  <2>2. CASE \E c \in contracts : Written(h, c)
    BY <1>1, <2>2
  <2>3. ASSUME NEW t \in Threads, Writing(h, t)
        PROVE  h.id \in slips'.cut \/ (\E c \in contracts' : Written(h, c)) \/ Writing(h, t)'
    <3>1. CASE th'[t] = th[t]
      BY <2>3, <3>1
    <3>2. CASE th[t].id \in slips'.cut
      BY <2>3, <3>2
    <3>3. CASE th'[t] # th[t] /\ th[t].id \notin slips'.cut
      <4> DEFINE c == [id |-> th[t].id, bid |-> th[t].bid, ask |-> th[t].ask,
                       price |-> th[t].row.price]
      <4>1. c \in contracts'
        BY <2>3, <3>3, WritesContract
      <4>2. Written(h, c)
        BY <2>3
      <4>3. QED
        BY <4>1, <4>2
    <3>4. QED
      BY <3>1, <3>2, <3>3
  <2>4. QED
    BY <2>1, <2>2, <2>3 DEF HoldHasContract
<1>3. ASSUME NEW h \in holds', h \notin holds
      PROVE  \E t \in Threads : Writing(h, t)'
  <2>1. PICK t \in Callers : RequestHold(t)
    BY <1>3 DEF Next, Request, Handler, Queue, SubmitBid, SubmitAsk, SubmitOffer,
       RejectBegin, AcceptBegin, RejectUpdate, RejectNotify, BalanceRefused,
       BalanceSuffices, WriteContract, MatchBid, MatchAsk, Announce, TakeOffer, RefuseOffer,
       OfferUpdate, OfferForward, OfferAck, DbError, Replay, Crash, vars
  <2>2. PICK w : w = th[t]
    OBVIOUS
  <2>3. w \in Work
    BY <2>1, <2>2, WorkPc DEF RequestHold, PublishHold
  <2>4. PICK k : k = used + 1
    OBVIOUS
  <2> DEFINE n == [w EXCEPT !.pc = "write_contract", !.id = k]
  <2>5. /\ th' = [th EXCEPT ![t] = n]
        /\ h = [id |-> k, bid |-> w.bid, price |-> w.row.price]
    BY <1>3, <2>1, <2>2, <2>4 DEF RequestHold, PublishHold
  <2>6. n.pc = "write_contract" /\ n.id = k /\ n.bid = w.bid /\ n.row = w.row
    BY <2>3 DEF Work
  <2> HIDE DEF n
  <2>7. th'[t] = n
    BY <2>5 DEF TypeOK
  <2>8. QED
    BY <2>5, <2>6, <2>7
<1>4. QED
  BY <1>2, <1>3 DEF HoldHasContract

(* No deposit is requested in vain but by an attempt that an error or a    *)
(* crash ended before the contract was written: every other request        *)
(* belongs to a contract written or being written, for any lag.            *)
THEOREM HoldIsContracted == Spec => []HoldHasContract
<1>1. Init => TypeOK /\ HoldHasContract
  BY InitType DEF Init, HoldHasContract
<1>2. TypeOK /\ HoldHasContract /\ [Next]_vars => TypeOK' /\ HoldHasContract'
  BY NextType, NextHold
<1>3. QED
  BY <1>1, <1>2, PTL DEF Spec
=============================================================================
