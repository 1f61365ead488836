-------------------------- MODULE DepositPipeline --------------------------
(***************************************************************************)
(* How a deposit request reaches the wallet: the Kafka topic               *)
(* wallet.hold_deposit, the consumer group handler that puts every record  *)
(* into a buffered channel and marks its offset at once, and the one       *)
(* worker goroutine that takes records from the channel and runs           *)
(* HoldDeposit.  Kafka orders records within a partition only, so offsets  *)
(* are sets of records.  Calls of other goroutines go on meanwhile.  A     *)
(* process asked to stop cancels its context first and ends some time      *)
(* later; what its worker has no more use for stays in memory until then.  *)
(***************************************************************************)
EXTENDS Wallet, SequencesExt

CONSTANTS Worker,       \* the goroutine of concurrencyUtils.Worker
          Contracts,    \* references that matching_service publishes
          Payers,       \* the shippers of those contracts
          Savers,       \* users who pay money in
          TransferRefs, \* references that clients give their transfers
          Cap,          \* buffer of msgChan and the record OrDone has in hand
          Rebalances    \* whether the consumer group may rebalance

ASSUME PipelineConstants ==
  /\ Worker \in Sessions
  /\ Contracts \subseteq Refs /\ Payers \subseteq Parties /\ Savers \subseteq Parties
  /\ TransferRefs \subseteq Refs
  /\ Cap \in Nat \ {0}
  /\ Rebalances \in BOOLEAN

VARIABLES topic,     \* records published
          marked,    \* records the consumer session has marked
          committed, \* records whose offsets the broker has stored
          queue,     \* msgChan
          stopping,  \* the process was asked to stop: its context is done
          dropped,   \* records marked by this process without entering the channel
          lost,      \* history: requests rolled back, or in memory at a restart
          refused    \* history: requests turned down for lack of money

pvars == <<balance, entries, processed, tx, indexed, topic, marked, committed,
           queue, stopping, dropped, lost, refused>>

kafka == <<topic, marked, committed, queue, stopping, dropped, lost, refused>>

\* AcceptOffer publishes one request for every contract it draws up.
PublishHold(r, u, x) ==
  /\ \A e \in topic : e.ref # r
  /\ topic' = topic \cup {HoldDeposit(r, u, x)}
  /\ UNCHANGED <<wvars, marked, committed, queue, stopping, dropped, lost, refused>>

\* (variant) a record that finds the channel full is marked and dropped
FetchOrDrop(e) ==
  /\ e \in topic \ marked
  /\ queue' = IF Len(queue) < Cap THEN Append(queue, e) ELSE queue
  /\ marked' = marked \cup {e}
  /\ UNCHANGED <<wvars, topic, committed, stopping, dropped, lost, refused>>

\* (variant) the channel has no bound
FetchUnbounded(e) ==
  /\ e \in topic \ marked
  /\ queue' = Append(queue, e)
  /\ marked' = marked \cup {e}
  /\ UNCHANGED <<wvars, topic, committed, stopping, dropped, lost, refused>>

\* The handler returns nil as soon as the record is in the channel; while the
\* channel is full it waits.
Fetch(e) ==
  /\ e \in topic \ marked
  /\ Len(queue) < Cap
  /\ queue' = Append(queue, e)
  /\ marked' = marked \cup {e}
  /\ UNCHANGED <<wvars, topic, committed, stopping, dropped, lost, refused>>

\* The other branch of the handler's select: once the context is done the record
\* may be left out of the channel, and is marked all the same.
Discard(e) ==
  /\ stopping
  /\ e \in topic \ marked
  /\ marked' = marked \cup {e} /\ dropped' = dropped \cup {e}
  /\ UNCHANGED <<wvars, topic, committed, queue, stopping, lost, refused>>

CommitOffsets ==
  /\ committed # marked
  /\ committed' = committed \cup marked
  /\ UNCHANGED <<wvars, topic, marked, queue, stopping, dropped, lost, refused>>

\* A new session of the group starts from the offsets the broker knows; a process
\* that stops joins none.
Rebalance ==
  /\ Rebalances /\ ~stopping
  /\ marked' = committed
  /\ UNCHANGED <<wvars, topic, committed, queue, stopping, dropped, lost, refused>>

\* The worker only logs what its handler returns, and takes the next record.  Once
\* the context is done no statement that carries it succeeds: whether OrDone still
\* hands a record on or not, it comes to nothing.
Take ==
  /\ queue # <<>> /\ ~stopping
  /\ queue' = Tail(queue)
  /\ Begin(Worker, Head(queue))
  /\ UNCHANGED <<topic, marked, committed, stopping, dropped, lost, refused>>

\* What the worker's handler does with the request it has taken.  Its error is
\* only logged: a request whose transaction was rolled back, or for which the
\* wallet is missing or short of money, is given up.
Handle ==
  /\ \/ /\ ~stopping
        /\ \/ MarkMessageProcessed(Worker) \/ Commit(Worker) \/ Index(Worker)
        /\ UNCHANGED <<lost, refused>>
     \/ /\ ~stopping
        /\ GetWalletForUpdate(Worker)
        /\ refused' = refused \cup (IF tx'[Worker] = NoTx THEN {tx[Worker].op} ELSE {})
        /\ UNCHANGED lost
     \/ Rollback(Worker) /\ lost' = lost \cup {tx[Worker].op} /\ UNCHANGED refused
  /\ UNCHANGED <<topic, marked, committed, queue, stopping, dropped>>

Shutdown ==
  /\ "crash" \in Faults /\ ~stopping
  /\ stopping' = TRUE
  /\ UNCHANGED <<wvars, topic, marked, committed, queue, dropped, lost, refused>>

\* The process ends, asked or not: the channel is gone, the next one reads from
\* the broker's offsets, and what they say is done but waited in memory or was
\* left out is never read again.
InMemory ==
  {e \in topic : e \in ToSet(queue) \/ (tx[Worker] # NoTx /\ tx[Worker].op = e)}
Restart ==
  /\ "crash" \in Faults
  /\ tx' = [s \in Sessions |-> NoTx]
  /\ queue' = <<>>
  /\ marked' = committed
  /\ stopping' = FALSE /\ dropped' = {}
  /\ lost' = lost \cup (committed \cap (InMemory \cup dropped))
  /\ UNCHANGED <<balance, entries, processed, indexed, topic, committed, refused>>

ClientCall(s) ==
  /\ \E op \in Calls : /\ \/ op.kind = "deposit" /\ op.to \in Savers /\ FirstDeposit(op)
                          \/ op.kind = "transfer" /\ op.ref \in TransferRefs
                       /\ Begin(s, op)
  /\ UNCHANGED kafka

-----------------------------------------------------------------------------
PInit == /\ Init
         /\ topic = {} /\ marked = {} /\ committed = {}
         /\ queue = <<>> /\ stopping = FALSE /\ dropped = {}
         /\ lost = {} /\ refused = {}

PNext ==
  \/ \E r \in Contracts, u \in Payers, x \in Amounts : PublishHold(r, u, x)
  \/ \E e \in topic : Fetch(e) \/ Discard(e)
  \/ CommitOffsets \/ Rebalance \/ Take \/ Handle \/ Shutdown \/ Restart
  \/ \E s \in Sessions \ {Worker} :
       ClientCall(s) \/ (Work(s) /\ UNCHANGED kafka)

PSpec == PInit /\ [][PNext]_pvars

Holds == {HoldDeposit(r, u, x) : r \in Contracts, u \in Payers, x \in Amounts}

\* The consumer loop polls, the worker loops, statements return, and InnoDB
\* serves waiting locks in order.  Fetching waits for room in the channel again
\* and again, hence strong fairness.  A process asked to stop is replaced, and
\* the last one stays.
PFairSpec == /\ PSpec
             /\ \A s \in Sessions \ {Worker} : SF_pvars(Work(s) /\ UNCHANGED kafka)
             /\ SF_pvars(Handle)
             /\ \A e \in Holds : SF_pvars(Fetch(e))
             /\ WF_pvars(Take)
             /\ WF_pvars(stopping /\ Restart)
             /\ <>[][~Restart]_pvars

-----------------------------------------------------------------------------
(* Properties.                                                             *)

\* The channel never exceeds its buffer, and what the broker believes done has
\* been handed on by the session.
PipelineTypeOK ==
  /\ topic \subseteq Holds
  /\ committed \subseteq marked /\ marked \subseteq topic
  /\ queue \in Seq(topic) /\ Len(queue) <= Cap
  /\ stopping \in BOOLEAN /\ dropped \subseteq marked /\ (dropped # {} => stopping)
  /\ lost \subseteq topic /\ refused \subseteq topic

\* A request whose offset is marked is never dropped without a trace, however
\* deliveries, rebalances, restarts and other transactions interleave: it waits
\* in memory or is frozen, unless its transaction was rolled back, the process
\* ended on it or was stopping when it was read, the wallet turned it down or a
\* client's transfer took its reference.
Frozen(e) == Posts(e) \subseteq entries
Taken(e)  == e.ref \in TransferRefs /\ e.ref \in processed
NoneForgotten ==
  \A e \in marked : \/ e \in InMemory \/ Frozen(e) \/ e \in dropped
                   \/ e \in lost \/ e \in refused \/ Taken(e)

\* A deposit request is frozen in the end as long as the payer's balance covers
\* it, through a full channel, rebalances and redeliveries: only a rolled back
\* transaction, or the end of the process while the request waits in memory or
\* was left out of the channel, with its offset committed, may cost it.
Covered(e) == e \in topic => Frozen(e) \/ balance[e.from] >= e.amount
HoldDelivered ==
  \A e \in {h \in Holds : h.ref \notin TransferRefs} :
    []Covered(e) => (e \in topic ~> Frozen(e) \/ e \in lost)
=============================================================================
