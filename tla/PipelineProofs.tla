--------------------------- MODULE PipelineProofs ---------------------------
(***************************************************************************)
(* Theorems about DepositPipeline, for every value of its constants: the   *)
(* pipeline is a client of the wallet like any other, so what is proved of *)
(* the wallet's transactions holds for it; and a request that the consumer *)
(* has marked is never dropped without a trace.                            *)
(***************************************************************************)
EXTENDS PipelineInv, WalletProofs, SequenceTheorems

USE WalletConstants, PipelineConstants

-----------------------------------------------------------------------------
(* The channel.                                                            *)

LEMMA AppendToSet ==
  ASSUME NEW S, NEW q \in Seq(S), NEW e \in S
  PROVE  /\ Append(q, e) \in Seq(S) /\ Len(Append(q, e)) = Len(q) + 1
         /\ ToSet(Append(q, e)) = ToSet(q) \cup {e}
<1>1. Append(q, e) \in Seq(S) /\ Len(Append(q, e)) = Len(q) + 1
      /\ \A i \in 1..Len(q) : Append(q, e)[i] = q[i]
      /\ Append(q, e)[Len(q) + 1] = e
  BY AppendProperties
<1>2. DOMAIN q = 1..Len(q) /\ DOMAIN Append(q, e) = 1..(Len(q) + 1) /\ Len(q) \in Nat
  BY <1>1, LenProperties
<1>3. \A i \in 1..(Len(q) + 1) : i \in 1..Len(q) \/ i = Len(q) + 1
  BY <1>2
<1>4. 1..Len(q) \subseteq 1..(Len(q) + 1) /\ Len(q) + 1 \in 1..(Len(q) + 1)
  BY <1>2
<1>5. QED
  BY <1>1, <1>2, <1>3, <1>4 DEF ToSet

LEMMA TailToSet ==
  ASSUME NEW S, NEW q \in Seq(S), q # <<>>
  PROVE  /\ Head(q) \in S /\ Tail(q) \in Seq(S) /\ Len(Tail(q)) = Len(q) - 1
         /\ ToSet(q) = {Head(q)} \cup ToSet(Tail(q))
<1>1. Head(q) \in S /\ Tail(q) \in Seq(S) /\ Len(Tail(q)) = Len(q) - 1 /\ Len(q) \in Nat \ {0}
      /\ Head(q) = q[1] /\ \A i \in 1..Len(Tail(q)) : Tail(q)[i] = q[i + 1]
  BY HeadTailProperties, LenProperties, EmptySeq
<1>2. DOMAIN q = 1..Len(q) /\ DOMAIN Tail(q) = 1..(Len(q) - 1)
  BY <1>1, LenProperties
<1>3. \A i \in 1..Len(q) : i = 1 \/ (i - 1 \in 1..(Len(q) - 1) /\ (i - 1) + 1 = i)
  BY <1>1
<1>4. 1 \in 1..Len(q) /\ \A i \in 1..(Len(q) - 1) : i + 1 \in 1..Len(q)
  BY <1>1
<1>5. ToSet(q) \subseteq {Head(q)} \cup ToSet(Tail(q))
  <2> SUFFICES ASSUME NEW i \in 1..Len(q) PROVE q[i] \in {Head(q)} \cup ToSet(Tail(q))
    BY <1>2 DEF ToSet
  <2>1. CASE i = 1
    BY <1>1, <2>1
  <2>2. CASE i # 1
    <3>1. i - 1 \in 1..Len(Tail(q)) /\ Tail(q)[i - 1] = q[i]
      BY <1>1, <1>3, <2>2
    <3>2. QED
      BY <1>1, <1>2, <3>1 DEF ToSet
  <2>3. QED
    BY <2>1, <2>2
<1>6. {Head(q)} \cup ToSet(Tail(q)) \subseteq ToSet(q)
  BY <1>1, <1>2, <1>4 DEF ToSet
<1>7. QED
  BY <1>1, <1>5, <1>6

-----------------------------------------------------------------------------
(* Every step of the pipeline is a step of the wallet or none.             *)

LEMMA HoldShape ==
  ASSUME NEW e \in Holds
  PROVE  /\ e \in Calls /\ e.kind = "hold" /\ e.ref \in Contracts /\ e.ref # NoRef
         /\ e.from \in Payers
BY DEF Holds, Calls, HoldDeposit

LEMMA PublishedShape ==
  ASSUME NEW r \in Contracts, NEW u \in Payers, NEW x \in Amounts
  PROVE  HoldDeposit(r, u, x) \in Holds /\ HoldDeposit(r, u, x).ref = r
<1>1. HoldDeposit(r, u, x) \in Holds
  BY DEF Holds
<1>2. HoldDeposit(r, u, x).ref = r
  BY DEF HoldDeposit
<1>3. QED
  BY <1>1, <1>2

LEMMA TakeCalls ==
  ASSUME PipelineTypeOK, Take
  PROVE  /\ Head(queue) \in topic /\ Head(queue) \in Calls
         /\ Tail(queue) \in Seq(topic) /\ Len(Tail(queue)) = Len(queue) - 1
         /\ ToSet(queue) = {Head(queue)} \cup ToSet(Tail(queue))
         /\ Call(Worker)
<1>1. queue \in Seq(topic) /\ queue # <<>> /\ Begin(Worker, Head(queue)) /\ topic \subseteq Holds
  BY DEF PipelineTypeOK, Take
<1>2. /\ Head(queue) \in topic
      /\ Tail(queue) \in Seq(topic) /\ Len(Tail(queue)) = Len(queue) - 1
      /\ ToSet(queue) = {Head(queue)} \cup ToSet(Tail(queue))
  BY <1>1, TailToSet
<1>3. Head(queue) \in Calls /\ Head(queue).kind = "hold"
  BY <1>1, <1>2, HoldShape
<1>4. QED
  BY <1>1, <1>2, <1>3 DEF Call

LEMMA ClientCalls ==
  ASSUME NEW s \in Sessions \ {Worker}, ClientCall(s)
  PROVE  Call(s)
BY DEF ClientCall, Call

LEMMA WalletStep ==
  ASSUME WalletInv, PipelineTypeOK, [PNext]_pvars
  PROVE  [Next]_wvars
<1>1. CASE Take
  BY <1>1, TakeCalls DEF Next
<1>2. CASE Handle
  BY <1>2 DEF Handle, Next, Work
<1>3. CASE Restart
  <2>1. CASE \E s \in Sessions : tx[s] # NoTx
    BY <1>3, <2>1 DEF Restart, Stop, Next
  <2>2. CASE \A s \in Sessions : tx[s] = NoTx
    <3>1. tx = [s \in Sessions |-> NoTx]
      BY <2>2 DEF WalletInv, TypeOK
    <3>2. QED
      BY <1>3, <3>1 DEF Restart, wvars
  <2>3. QED
    BY <2>1, <2>2
<1>4. ASSUME NEW s \in Sessions \ {Worker}, ClientCall(s) \/ Work(s) PROVE Next
  BY <1>4, ClientCalls DEF Next
<1>5. CASE UNCHANGED wvars
  BY <1>5
<1>6. ASSUME ~UNCHANGED wvars
      PROVE  \/ Take \/ Handle \/ Restart
             \/ \E s \in Sessions \ {Worker} : ClientCall(s) \/ Work(s)
  BY <1>6 DEF PNext, PublishHold, Fetch, Discard, CommitOffsets, Rebalance, Shutdown, pvars, wvars
<1>7. QED
  BY <1>1, <1>2, <1>3, <1>4, <1>5, <1>6

-----------------------------------------------------------------------------
(* The types.                                                              *)

LEMMA NextPipelineType ==
  ASSUME WalletInv, PipelineTypeOK, WorkerOK, [PNext]_pvars
  PROVE  PipelineTypeOK'
<1>0. /\ topic \subseteq Holds /\ committed \subseteq marked /\ marked \subseteq topic
      /\ queue \in Seq(topic) /\ Len(queue) <= Cap
      /\ stopping \in BOOLEAN /\ dropped \subseteq marked /\ (dropped # {} => stopping)
      /\ lost \subseteq topic /\ refused \subseteq topic
  BY DEF PipelineTypeOK
<1>1. ASSUME NEW r \in Contracts, NEW u \in Payers, NEW x \in Amounts, PublishHold(r, u, x)
      PROVE  PipelineTypeOK'
  <2>1. topic \subseteq topic' /\ topic' \subseteq Holds
    BY <1>0, <1>1, PublishedShape DEF PublishHold
  <2>2. queue \in Seq(topic')
    BY <1>0, <2>1, SeqMonotonic
  <2>3. QED
    BY <1>0, <1>1, <2>1, <2>2 DEF PublishHold, PipelineTypeOK
<1>2. ASSUME NEW e \in topic, Fetch(e) PROVE PipelineTypeOK'
  <2>1. Append(queue, e) \in Seq(topic) /\ Len(Append(queue, e)) = Len(queue) + 1
    BY <1>0, AppendToSet
  <2>2. Len(queue) \in Nat
    BY <1>0
  <2>3. QED
    BY <1>0, <1>2, <2>1, <2>2 DEF Fetch, PipelineTypeOK
<1>3. ASSUME NEW e \in topic, Discard(e) PROVE PipelineTypeOK'
  BY <1>0, <1>3 DEF Discard, PipelineTypeOK
<1>4. CASE CommitOffsets \/ Rebalance \/ Shutdown
  BY <1>0, <1>4 DEF CommitOffsets, Rebalance, Shutdown, PipelineTypeOK
<1>5. CASE Take
  <2>1. Len(queue) \in Nat
    BY <1>0
  <2>2. Tail(queue) \in Seq(topic) /\ Len(Tail(queue)) <= Cap
    BY <1>0, <1>5, <2>1, TakeCalls
  <2>3. QED
    BY <1>0, <1>5, <2>2 DEF Take, PipelineTypeOK
<1>6. CASE Handle
  <2>1. tx[Worker] # NoTx
    BY <1>6 DEF Handle, MarkMessageProcessed, GetWalletForUpdate, Commit, Index, Rollback, NoTx
  <2>2. tx[Worker].op \in topic
    BY <2>1 DEF WorkerOK
  <2>3. lost' \subseteq topic /\ refused' \subseteq topic
    BY <1>0, <1>6, <2>2 DEF Handle
  <2>4. QED
    BY <1>0, <1>6, <2>3 DEF Handle, PipelineTypeOK
<1>7. CASE Restart
  <2>1. <<>> \in Seq(topic) /\ Len(<<>>) <= Cap
    OBVIOUS
  <2>2. QED
    BY <1>0, <1>7, <2>1 DEF Restart, PipelineTypeOK
<1>8. CASE UNCHANGED kafka
  BY <1>0, <1>8 DEF kafka, PipelineTypeOK
<1>9. QED
  BY <1>1, <1>2, <1>3, <1>4, <1>5, <1>6, <1>7, <1>8 DEF PNext, ClientCall, pvars, kafka

-----------------------------------------------------------------------------
(* What the steps of a transaction leave to the invariant.                 *)

LEMMA WorkStep ==
  ASSUME WalletInv, NEW s \in Sessions, Work(s)
  PROVE  /\ tx[s] # NoTx
         /\ tx'[s] = NoTx \/ tx'[s].op = tx[s].op
         /\ tx'[s] # NoTx /\ tx'[s].pc = "index" => Commit(s)
         /\ \A t \in Sessions \ {s} : tx'[t] = tx[t]
<1>1. tx \in [Sessions -> TxState \cup {NoTx}]
  BY DEF WalletInv, TypeOK
<1>2. tx[s] # NoTx
  BY DEF Work, MarkMessageProcessed, GetWalletForUpdate, Commit, Index, Rollback, NoTx
<1>3. PICK n : Become(s, n) /\ (n = NoTx \/ n.op = tx[s].op)
               /\ (n # NoTx /\ n.pc = "index" => Commit(s))
  <2>1. CASE MarkMessageProcessed(s)
    BY <2>1 DEF MarkMessageProcessed, Tx
  <2>2. CASE GetWalletForUpdate(s)
    BY <2>2 DEF GetWalletForUpdate, Tx
  <2>3. CASE Commit(s)
    BY <2>3 DEF Commit, Tx
  <2>4. CASE Rollback(s) \/ Index(s)
    BY <2>4 DEF Rollback, Index
  <2>5. QED
    BY <2>1, <2>2, <2>3, <2>4 DEF Work
<1>4. QED
  BY <1>1, <1>2, <1>3 DEF Become

LEMMA BeginStep ==
  ASSUME WalletInv, NEW s \in Sessions, NEW op, Begin(s, op)
  PROVE  /\ tx'[s] # NoTx /\ tx'[s].op = op /\ tx'[s].pc # "index"
         /\ \A t \in Sessions \ {s} : tx'[t] = tx[t]
<1>1. tx \in [Sessions -> TxState \cup {NoTx}]
  BY DEF WalletInv, TypeOK
<1>2. tx' = [tx EXCEPT ![s] = Tx(IF op.ref = NoRef THEN "lock" ELSE "mark", op, 0)]
  BY DEF Begin, Become
<1>3. QED
  BY <1>1, <1>2 DEF Tx, NoTx

LEMMA BooksGrow ==
  ASSUME [Next]_wvars
  PROVE  entries \subseteq entries' /\ processed \subseteq processed'
<1>1. CASE UNCHANGED <<balance, entries, processed>>
  BY <1>1
<1>2. ASSUME NEW s \in Sessions, Commit(s)
      PROVE  entries \subseteq entries' /\ processed \subseteq processed'
  BY <1>2 DEF Commit
<1>3. QED
  BY <1>1, <1>2, EntriesStep

LEMMA HandleWorks == ASSUME Handle PROVE Work(Worker)
BY DEF Handle, Work

(* Records are published once, and nothing takes them off the topic.       *)
LEMMA NextRequests ==
  ASSUME OneRequest, [PNext]_pvars
  PROVE  topic \subseteq topic' /\ OneRequest'
<1>1. ASSUME NEW r \in Contracts, NEW u \in Payers, NEW x \in Amounts, PublishHold(r, u, x)
      PROVE  topic \subseteq topic' /\ OneRequest'
  <2>1. PICK h : h = HoldDeposit(r, u, x)
    OBVIOUS
  <2>2. topic' = topic \cup {h} /\ h.ref = r /\ \A e \in topic : e.ref # r
    BY <1>1, <2>1, PublishedShape DEF PublishHold
  <2>3. QED
    BY <2>2 DEF OneRequest
<1>2. UNCHANGED topic
      \/ \E r \in Contracts, u \in Payers, x \in Amounts : PublishHold(r, u, x)
  BY DEF PNext, Fetch, Discard, CommitOffsets, Rebalance, Take, Handle, Shutdown, Restart,
     ClientCall, kafka, pvars
<1>3. QED
  BY <1>1, <1>2 DEF OneRequest

(* The transaction of the worker, seen from outside.                       *)
LEMMA WorkerStep ==
  ASSUME WalletInv, [PNext]_pvars
  PROVE  Take \/ Handle \/ Restart \/ tx'[Worker] = tx[Worker]
<1>1. ASSUME NEW s \in Sessions \ {Worker}, ClientCall(s) PROVE tx'[Worker] = tx[Worker]
  BY <1>1, BeginStep DEF ClientCall
<1>2. ASSUME NEW s \in Sessions \ {Worker}, Work(s) PROVE tx'[Worker] = tx[Worker]
  BY <1>2, WorkStep
<1>3. QED
  BY <1>1, <1>2 DEF PNext, PublishHold, Fetch, Discard, CommitOffsets, Rebalance, Shutdown, pvars, wvars

LEMMA NextWorker ==
  ASSUME WalletInv, PipelineTypeOK, OneRequest, WorkerOK, [PNext]_pvars
  PROVE  WorkerOK'
<1>0. topic \subseteq topic' /\ entries \subseteq entries'
  BY NextRequests, WalletStep, BooksGrow
<1>1. CASE Take
  <2>1. tx'[Worker].op = Head(queue) /\ tx'[Worker].pc # "index" /\ Head(queue) \in topic
    BY <1>1, TakeCalls, BeginStep DEF Take
  <2>2. QED
    BY <1>0, <2>1 DEF WorkerOK
<1>2. CASE Handle
  <2>1. PICK op : op = tx[Worker].op
    OBVIOUS
  <2>2. /\ tx'[Worker] = NoTx \/ tx'[Worker].op = op
        /\ tx'[Worker] # NoTx /\ tx'[Worker].pc = "index" => Commit(Worker)
        /\ op \in topic
    BY <1>2, <2>1, WorkStep, HandleWorks DEF WorkerOK
  <2>3. Commit(Worker) => Posts(op) \subseteq entries'
    BY <2>1 DEF Commit
  <2>4. tx'[Worker] # NoTx =>
          /\ tx'[Worker].op = op /\ op \in topic'
          /\ tx'[Worker].pc = "index" => Posts(tx'[Worker].op) \subseteq entries'
    BY <1>0, <2>2, <2>3
  <2>5. QED
    BY <2>4 DEF WorkerOK, Frozen
<1>3. CASE Restart
  BY <1>3 DEF Restart, WorkerOK
<1>4. CASE tx'[Worker] = tx[Worker]
  BY <1>0, <1>4 DEF WorkerOK, Frozen
<1>5. QED
  BY <1>1, <1>2, <1>3, <1>4, WorkerStep

LEMMA NextClients ==
  ASSUME WalletInv, ClientsOK, [PNext]_pvars
  PROVE  ClientsOK'
<1> SUFFICES ASSUME NEW s \in Sessions \ {Worker}, tx'[s] # NoTx
             PROVE  tx'[s].op.kind = "deposit" \/ tx'[s].op.ref \in TransferRefs
  BY DEF ClientsOK
<1>1. CASE tx'[s] = tx[s]
  BY <1>1 DEF ClientsOK
<1>2. ASSUME NEW t \in Sessions \ {Worker}, ClientCall(t)
      PROVE  tx'[s] = tx[s] \/ tx'[s].op.kind = "deposit" \/ tx'[s].op.ref \in TransferRefs
  <2>1. PICK op : /\ op.kind = "deposit" \/ op.ref \in TransferRefs
                  /\ Begin(t, op)
    BY <1>2 DEF ClientCall
  <2>2. QED
    BY <2>1, BeginStep
<1>3. ASSUME NEW t \in Sessions, Work(t)
      PROVE  tx'[s] = tx[s] \/ tx'[s].op.kind = "deposit" \/ tx'[s].op.ref \in TransferRefs
  <2>1. CASE t = s
    BY <1>3, <2>1, WorkStep DEF ClientsOK
  <2>2. CASE t # s
    BY <1>3, <2>2, WorkStep
  <2>3. QED
    BY <2>1, <2>2
<1>4. ASSUME Take PROVE tx'[s] = tx[s]
  BY <1>4, BeginStep DEF Take
<1>5. ~Restart
  BY DEF Restart
<1>6. QED
  BY <1>1, <1>2, <1>3, <1>4, <1>5, HandleWorks
     DEF PNext, PublishHold, Fetch, Discard, CommitOffsets, Rebalance, Shutdown, pvars, wvars

LEMMA NextInbox ==
  ASSUME WalletInv, PipelineTypeOK, OneRequest, WorkerOK, ClientsOK, InboxExplained,
         [PNext]_pvars
  PROVE  InboxExplained'
<1>0. [Next]_wvars /\ topic \subseteq topic' /\ entries \subseteq entries'
  BY NextRequests, WalletStep, BooksGrow
<1>1. ASSUME NEW r \in processed
      PROVE  r \in TransferRefs \/ \E e \in topic' : e.ref = r /\ Posts(e) \subseteq entries'
  BY <1>0 DEF InboxExplained, Frozen
<1>2. ASSUME NEW s \in Sessions, Commit(s)
      PROVE  \A r \in processed' : \/ r \in TransferRefs
                                   \/ \E e \in topic' : e.ref = r /\ Posts(e) \subseteq entries'
  <2>1. PICK op : op = tx[s].op
    OBVIOUS
  <2>2. /\ Shape(op) /\ processed' = processed \cup ({op.ref} \ {NoRef})
        /\ entries' = entries \cup Posts(op) /\ tx[s] # NoTx
    BY <1>2, <2>1, CommitFacts DEF Commit, NoTx
  <2>3. CASE s = Worker
    BY <1>0, <1>1, <2>1, <2>2, <2>3 DEF WorkerOK
  <2>4. CASE s # Worker
    <3>1. op.kind = "deposit" \/ op.ref \in TransferRefs
      BY <2>1, <2>2, <2>4 DEF ClientsOK
    <3>2. op.kind = "deposit" => op.ref = NoRef
      BY <2>2 DEF Shape
    <3>3. QED
      BY <1>1, <2>2, <3>1, <3>2
  <2>5. QED
    BY <2>3, <2>4
<1>3. \A r \in processed' : \/ r \in TransferRefs
                           \/ \E e \in topic' : e.ref = r /\ Posts(e) \subseteq entries'
  BY <1>0, <1>1, <1>2, EntriesStep
<1>4. QED
  BY <1>3 DEF InboxExplained, Frozen

-----------------------------------------------------------------------------
(* No request is dropped without a trace.                                  *)

Kept(e) == \/ e \in InMemory \/ Frozen(e)
           \/ e \in lost \/ e \in refused \/ Taken(e)

(* A step that takes a request out of neither the channel nor the worker's *)
(* hands keeps it.                                                         *)
LEMMA StaysKept ==
  ASSUME WalletInv, PipelineTypeOK, OneRequest, [PNext]_pvars, NEW e, Kept(e),
         e \in ToSet(queue) => e \in ToSet(queue') \/ (tx'[Worker] # NoTx /\ tx'[Worker].op = e),
         tx[Worker] # NoTx /\ tx[Worker].op = e => tx'[Worker] # NoTx /\ tx'[Worker].op = e
  PROVE  Kept(e)'
<1>0. /\ topic \subseteq topic' /\ entries \subseteq entries' /\ processed \subseteq processed'
  BY NextRequests, WalletStep, BooksGrow
<1>1. lost \subseteq lost' /\ refused \subseteq refused'
  BY DEF PNext, PublishHold, Fetch, Discard, CommitOffsets, Rebalance, Shutdown, Take, Handle, Restart,
     ClientCall, kafka, pvars
<1>2. CASE e \in InMemory
  <2>1. /\ e \in topic'
        /\ e \in ToSet(queue') \/ (tx'[Worker] # NoTx /\ tx'[Worker].op = e)
    BY <1>0, <1>2 DEF InMemory
  <2>2. e \in InMemory'
    BY <2>1 DEF InMemory
  <2>3. QED
    BY <2>2 DEF Kept
<1>3. CASE e \notin InMemory
  <2>1. Posts(e) \subseteq entries \/ e \in lost \/ e \in refused
          \/ (e.ref \in TransferRefs /\ e.ref \in processed)
    BY <1>3 DEF Kept, Frozen, Taken
  <2>2. Posts(e) \subseteq entries' \/ e \in lost' \/ e \in refused'
          \/ (e.ref \in TransferRefs /\ e.ref \in processed')
    BY <1>0, <1>1, <2>1
  <2>3. QED
    BY <2>2 DEF Kept, Frozen, Taken
<1>4. QED
  BY <1>2, <1>3

(* What the worker does with the request it has in hand.                   *)
LEMMA HandleKeeps ==
  ASSUME PipelineInv, [PNext]_pvars, Handle, NEW e, e = tx[Worker].op
  PROVE  \/ tx'[Worker] # NoTx /\ tx'[Worker].op = e
         \/ Posts(e) \subseteq entries' \/ e \in lost' \/ e \in refused'
         \/ e.ref \in TransferRefs /\ e.ref \in processed'
<1>0. WalletInv /\ PipelineTypeOK /\ OneRequest /\ WorkerOK /\ InboxExplained
  BY DEF PipelineInv
<1>1. /\ tx[Worker] # NoTx /\ e \in topic
      /\ entries \subseteq entries' /\ processed \subseteq processed'
      /\ tx'[Worker] = NoTx \/ tx'[Worker].op = e
  BY <1>0, WorkStep, HandleWorks, WalletStep, BooksGrow DEF WorkerOK
<1>2. ASSUME MarkMessageProcessed(Worker), tx'[Worker] = NoTx
      PROVE  Posts(e) \subseteq entries \/ (e.ref \in TransferRefs /\ e.ref \in processed)
  <2>1. e.ref \in processed
    BY <1>0, <1>2 DEF MarkMessageProcessed, Become, WalletInv, TypeOK, Tx, NoTx
  <2>2. CASE e.ref \in TransferRefs
    BY <2>1, <2>2
  <2>3. CASE e.ref \notin TransferRefs
    <3>1. PICK f \in topic : f.ref = e.ref /\ Frozen(f)
      BY <1>0, <2>1, <2>3 DEF InboxExplained
    <3>2. f = e
      BY <1>0, <1>1, <3>1 DEF OneRequest
    <3>3. QED
      BY <3>1, <3>2 DEF Frozen
  <2>4. QED
    BY <2>2, <2>3
<1>3. ASSUME GetWalletForUpdate(Worker), tx'[Worker] = NoTx,
             refused' = refused \cup (IF tx'[Worker] = NoTx THEN {tx[Worker].op} ELSE {})
      PROVE  e \in refused'
  BY <1>3
<1>4. ASSUME Commit(Worker) PROVE Posts(e) \subseteq entries'
  BY <1>4 DEF Commit
<1>5. ASSUME Index(Worker) PROVE Posts(e) \subseteq entries
  BY <1>0, <1>1, <1>5 DEF Index, WorkerOK, Frozen
<1>6. ASSUME Rollback(Worker), lost' = lost \cup {tx[Worker].op} PROVE e \in lost'
  BY <1>6
<1>7. CASE tx'[Worker] # NoTx
  BY <1>1, <1>7
<1>8. CASE tx'[Worker] = NoTx
  <2>1. CASE MarkMessageProcessed(Worker)
    BY <1>1, <1>2, <1>8, <2>1
  <2>2. CASE GetWalletForUpdate(Worker)
             /\ refused' = refused \cup (IF tx'[Worker] = NoTx THEN {tx[Worker].op} ELSE {})
    BY <1>3, <1>8, <2>2
  <2>3. CASE Commit(Worker)
    BY <1>4, <2>3
  <2>4. CASE Index(Worker)
    BY <1>1, <1>5, <2>4
  <2>5. CASE Rollback(Worker) /\ lost' = lost \cup {tx[Worker].op}
    BY <1>6, <2>5
  <2>6. QED
    BY <2>1, <2>2, <2>3, <2>4, <2>5 DEF Handle
<1>9. QED
  BY <1>7, <1>8

LEMMA NextKept ==
  ASSUME PipelineInv, [PNext]_pvars
  PROVE  NoneForgotten'
<1> SUFFICES ASSUME NEW e \in marked', e \notin dropped' PROVE Kept(e)'
  BY DEF NoneForgotten, Kept
<1>0. /\ WalletInv /\ PipelineTypeOK /\ OneRequest
      /\ e \in marked => Kept(e) \/ e \in dropped
  BY DEF PipelineInv, NoneForgotten, Kept
<1>1. ASSUME NEW f \in topic, Fetch(f) PROVE Kept(e)'
  <2>1. /\ queue' = Append(queue, f) /\ ToSet(queue') = ToSet(queue) \cup {f}
        /\ tx' = tx /\ topic' = topic /\ marked' = marked \cup {f} /\ dropped' = dropped
    BY <1>0, <1>1, AppendToSet DEF Fetch, PipelineTypeOK, wvars
  <2>2. CASE e = f
    <3>1. e \in InMemory'
      BY <2>1, <2>2 DEF InMemory
    <3>2. QED
      BY <3>1 DEF Kept
  <2>3. CASE e \in marked
    BY <1>0, <2>1, <2>3, StaysKept
  <2>4. QED
    BY <2>1, <2>2, <2>3
<1>2. ASSUME e \in marked, UNCHANGED queue, dropped \subseteq dropped', tx'[Worker] = tx[Worker]
      PROVE  Kept(e)'
  BY <1>0, <1>2, StaysKept
<1>3. CASE CommitOffsets \/ Rebalance \/ Shutdown
  <2>1. e \in marked /\ UNCHANGED <<queue, dropped>> /\ tx' = tx
    BY <1>0, <1>3 DEF CommitOffsets, Rebalance, Shutdown, PipelineTypeOK, wvars
  <2>2. QED
    BY <1>2, <2>1
<1>4. ASSUME NEW f \in topic, Discard(f) PROVE Kept(e)'
  <2>1. e \in marked /\ UNCHANGED queue /\ dropped \subseteq dropped' /\ tx' = tx
    BY <1>4 DEF Discard, wvars
  <2>2. QED
    BY <1>2, <2>1
<1>5. CASE Take
  <2>1. /\ ToSet(queue) = {Head(queue)} \cup ToSet(queue') /\ e \in marked /\ e \notin dropped
        /\ tx'[Worker] # NoTx /\ tx'[Worker].op = Head(queue) /\ tx[Worker] = NoTx
    BY <1>0, <1>5, TakeCalls, BeginStep DEF Take, Begin
  <2>2. QED
    BY <1>0, <2>1, StaysKept
<1>6. CASE Handle
  <2>1. e \in marked /\ e \notin dropped /\ UNCHANGED queue
    BY <1>6 DEF Handle
  <2>2. CASE tx[Worker] # NoTx /\ tx[Worker].op = e
    <3>1. \/ tx'[Worker] # NoTx /\ tx'[Worker].op = e
          \/ Posts(e) \subseteq entries' \/ e \in lost' \/ e \in refused'
          \/ e.ref \in TransferRefs /\ e.ref \in processed'
      BY <1>6, <2>2, HandleKeeps
    <3>2. CASE tx'[Worker] # NoTx /\ tx'[Worker].op = e
      BY <1>0, <2>1, <3>2, StaysKept
    <3>3. CASE \/ Posts(e) \subseteq entries' \/ e \in lost' \/ e \in refused'
               \/ e.ref \in TransferRefs /\ e.ref \in processed'
      BY <3>3 DEF Kept, Frozen, Taken
    <3>4. QED
      BY <3>1, <3>2, <3>3
  <2>3. CASE ~(tx[Worker] # NoTx /\ tx[Worker].op = e)
    BY <1>0, <2>1, <2>3, StaysKept
  <2>4. QED
    BY <2>2, <2>3
<1>7. CASE Restart
  <2>1. marked' = committed /\ committed \subseteq marked
        /\ lost' = lost \cup (committed \cap (InMemory \cup dropped))
    BY <1>0, <1>7 DEF Restart, PipelineTypeOK
  <2>2. CASE e \in InMemory \/ e \in dropped
    BY <2>1, <2>2 DEF Kept
  <2>3. CASE e \notin InMemory /\ e \notin dropped
    <3>1. Kept(e) /\ e \in topic
      BY <1>0, <2>1, <2>3 DEF PipelineTypeOK
    <3>2. e \notin ToSet(queue) /\ ~(tx[Worker] # NoTx /\ tx[Worker].op = e)
      BY <2>3, <3>1 DEF InMemory
    <3>3. QED
      BY <1>0, <3>1, <3>2, StaysKept
  <2>4. QED
    BY <2>2, <2>3
<1>8. ASSUME NEW s \in Sessions \ {Worker}, (ClientCall(s) \/ Work(s)) /\ UNCHANGED kafka
      PROVE  Kept(e)'
  <2>1. tx'[Worker] = tx[Worker]
    <3>1. CASE ClientCall(s)
      BY <1>0, <3>1, BeginStep DEF ClientCall
    <3>2. CASE Work(s)
      BY <1>0, <3>2, WorkStep
    <3>3. QED
      BY <1>8, <3>1, <3>2
  <2>2. QED
    BY <1>2, <1>8, <2>1 DEF kafka
<1>9. ASSUME NEW r \in Contracts, NEW u \in Payers, NEW x \in Amounts, PublishHold(r, u, x)
      PROVE  Kept(e)'
  BY <1>2, <1>9 DEF PublishHold, wvars
<1>10. CASE UNCHANGED pvars
  BY <1>2, <1>10 DEF pvars
<1>11. QED
  BY <1>1, <1>3, <1>4, <1>5, <1>6, <1>7, <1>8, <1>9, <1>10 DEF PNext, ClientCall

-----------------------------------------------------------------------------
LEMMA InitPipeline == PInit => PipelineInv
<1> SUFFICES ASSUME PInit PROVE PipelineInv
  OBVIOUS
<1>1. Init /\ WalletInv
  BY InitInv DEF PInit
<1>2. tx[Worker] = NoTx /\ \A s \in Sessions : tx[s] = NoTx
  BY <1>1 DEF Init
<1>3. PipelineTypeOK
  <2>1. <<>> \in Seq(topic) /\ Len(<<>>) <= Cap
    OBVIOUS
  <2>2. QED
    BY <2>1 DEF PInit, PipelineTypeOK
<1>4. QED
  BY <1>1, <1>2, <1>3 DEF PInit, Init, PipelineInv, OneRequest, WorkerOK, ClientsOK,
     InboxExplained, NoneForgotten

LEMMA NextPipeline == ASSUME PipelineInv, [PNext]_pvars PROVE PipelineInv'
<1>1. WalletInv /\ PipelineTypeOK /\ OneRequest /\ WorkerOK /\ ClientsOK /\ InboxExplained
  BY DEF PipelineInv
<1>2. WalletInv'
  BY <1>1, WalletStep, NextInv
<1>3. PipelineTypeOK' /\ OneRequest' /\ WorkerOK' /\ ClientsOK' /\ InboxExplained'
  BY <1>1, NextPipelineType, NextRequests, NextWorker, NextClients, NextInbox
<1>4. QED
  BY <1>2, <1>3, NextKept DEF PipelineInv

(* The channel stays within its buffer and the offsets within the topic.   *)
THEOREM PipelineTyping == PSpec => []PipelineTypeOK
<1>1. PipelineInv => PipelineTypeOK
  BY DEF PipelineInv
<1>2. QED
  BY <1>1, InitPipeline, NextPipeline, PTL DEF PSpec

(* A marked request waits in memory or is frozen, or its end is on record, *)
(* a shutdown's included: for any capacity, number of records, rebalances, *)
(* restarts and failures.                                                  *)
THEOREM RequestsAccounted == PSpec => []NoneForgotten
<1>1. PipelineInv => NoneForgotten
  BY DEF PipelineInv
<1>2. QED
  BY <1>1, InitPipeline, NextPipeline, PTL DEF PSpec

(* The consumer, its worker and the clients are goroutines of the wallet:  *)
(* what holds of the wallet's transactions holds of the pipeline.          *)
THEOREM PipelineIsWallet == PSpec => Spec
<1>1. PInit => Init
  BY DEF PInit
<1>2. ASSUME PipelineInv, [PNext]_pvars PROVE [Next]_wvars
  BY <1>2, WalletStep DEF PipelineInv
<1>3. QED
  BY <1>1, <1>2, InitPipeline, NextPipeline, PTL DEF PSpec, Spec

(* Requests frozen by the worker and operations of clients add up to a     *)
(* ledger in which each reference is applied at most once.                 *)
THEOREM PipelineSerialized == PSpec => Serialized
BY PipelineIsWallet, WalletImplementsLedger, PTL
=============================================================================
