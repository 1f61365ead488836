------------------------------- MODULE Wallet -------------------------------
(***************************************************************************)
(* wallet_service: the transactions of the wallet use case.                *)
(*                                                                         *)
(* Every operation runs in one database transaction (UnitOfWork.Do): it    *)
(* first inserts its reference into processed_messages, then reads the     *)
(* wallets it needs with SELECT ... FOR UPDATE in a fixed order, checks    *)
(* their balances, writes balances and ledger entries, and commits.  What  *)
(* it wrote is invisible until the commit and undone by a rollback.  After *)
(* the commit the search index is brought up to date, best effort.         *)
(***************************************************************************)
EXTENDS Integers, Sequences, FiniteSets, FiniteSetsExt

CONSTANTS Users, Escrow,   \* owners of wallets; SystemEscrowWalletID
          Seeded,          \* whether the escrow wallet was created by hand
          Funds,           \* opening balance of every user's wallet
          Amounts,         \* amounts of money, in hundredths
          Parties,         \* the wallets that calls name
          Refs, NoRef,     \* contract and transfer identifiers; none (Deposit)
          Sessions,        \* goroutines serving calls
          Scan,            \* locking reads scan the table and lock every row
          Faults           \* failures the environment may inject

ASSUME WalletConstants ==
  /\ Escrow \notin Users
  /\ Funds \in Nat /\ Amounts \subseteq Nat \ {0}
  /\ Parties \subseteq Users \cup {Escrow}
  /\ NoRef \notin Refs
  /\ Seeded \in BOOLEAN /\ Scan \in BOOLEAN
  /\ Faults \subseteq {"db", "search", "crash"}

VARIABLES balance,   \* committed wallets.balance
          entries,   \* committed rows of transactions
          processed, \* committed rows of processed_messages
          tx,        \* the transaction each goroutine is in
          indexed    \* balance of each wallet in the search index

wvars == <<balance, entries, processed, tx, indexed>>

\* CreateWallet sets neither balance nor status, which the schema requires: it
\* always fails, so the wallets are those that exist from the start.
Open == Users \cup (IF Seeded THEN {Escrow} ELSE {})
Opening == [w \in Open |-> IF w = Escrow THEN 0 ELSE Funds]

-----------------------------------------------------------------------------
(* Operations: the rows they lock, in order, with the balance each must    *)
(* cover; the changes they make to balances; and the entries they write.   *)

Op == [kind : {"deposit", "hold", "pay", "transfer"}, ref : Refs \cup {NoRef},
       from : Users \cup {Escrow}, to : Users \cup {Escrow}, amount : Amounts, fare : Amounts]

Deposit(u, x) == [kind |-> "deposit", ref |-> NoRef, from |-> u, to |-> u,
                  amount |-> x, fare |-> x]
HoldDeposit(r, u, x) == [kind |-> "hold", ref |-> r, from |-> u, to |-> Escrow,
                         amount |-> x, fare |-> x]
ReleaseAndPay(r, driver, shipper, x, fare) ==
  [kind |-> "pay", ref |-> r, from |-> shipper, to |-> driver, amount |-> x,
   fare |-> fare]
TransferMoney(r, from, to, x) ==
  [kind |-> "transfer", ref |-> r, from |-> from, to |-> to, amount |-> x,
   fare |-> x]

Row(w, need) == [wallet |-> w, need |-> need]

Rows(op) ==
  CASE op.kind = "deposit"  -> <<Row(op.to, 0)>>
    [] op.kind = "hold"     -> <<Row(op.from, op.amount), Row(Escrow, 0)>>
    [] op.kind = "pay"      -> <<Row(Escrow, op.amount), Row(op.from, op.fare),
                                 Row(op.to, 0)>>
    [] op.kind = "transfer" -> <<Row(op.from, op.amount), Row(op.to, 0)>>

Shift(w, from, to, x) == (IF w = to THEN x ELSE 0) - (IF w = from THEN x ELSE 0)

Delta(op, w) ==
  CASE op.kind = "deposit" -> IF w = op.to THEN op.amount ELSE 0
    [] op.kind = "pay"     -> Shift(w, Escrow, op.to, op.amount)
                                + Shift(w, op.from, op.to, op.fare)
    [] OTHER               -> Shift(w, op.from, op.to, op.amount)

Entry(op, type, w, x) == [ref |-> op.ref, type |-> type, wallet |-> w, amount |-> x]

\* (variant) the escrow's own entry of a hold is forgotten
PostsOneLeg(op) ==
  CASE op.kind = "deposit"  -> {Entry(op, 1, op.to, op.amount)}
    [] op.kind = "hold"     -> {Entry(op, 5, op.from, -op.amount)}
    [] op.kind = "pay"      -> {Entry(op, 7, Escrow, -op.amount),
                                Entry(op, 8, op.to, op.amount),
                                Entry(op, 4, op.from, -op.fare),
                                Entry(op, 3, op.to, op.fare)}
    [] op.kind = "transfer" -> {Entry(op, 3, op.from, -op.amount),
                                Entry(op, 4, op.to, op.amount)}

Posts(op) ==
  CASE op.kind = "deposit"  -> {Entry(op, 1, op.to, op.amount)}
    [] op.kind = "hold"     -> {Entry(op, 5, op.from, -op.amount),
                                Entry(op, 6, Escrow, op.amount)}
    [] op.kind = "pay"      -> {Entry(op, 7, Escrow, -op.amount),
                                Entry(op, 8, op.to, op.amount),
                                Entry(op, 4, op.from, -op.fare),
                                Entry(op, 3, op.to, op.fare)}
    [] op.kind = "transfer" -> {Entry(op, 3, op.from, -op.amount),
                                Entry(op, 4, op.to, op.amount)}

-----------------------------------------------------------------------------
(* Transactions and their locks.                                           *)

NoTx == [pc |-> "idle"]
Tx(pc, op, at) == [pc |-> pc, op |-> op, at |-> at]

\* Once marked, a transaction owns its reference and the rows it has locked.
Active(x) == x.pc \in {"lock", "commit"}
Locks(x)  == IF Active(x) THEN {Rows(x.op)[i].wallet : i \in 1..x.at} ELSE {}

\* (variant) an index on user_id: a locking read locks only the row it finds
BlocksByIndex(t, w) == w \in Locks(tx[t])

\* wallets.user_id has no index, so InnoDB's locking read locks what it scans.
Blocks(t, w) == IF Scan THEN Locks(tx[t]) # {} ELSE w \in Locks(tx[t])

RowFree(s, w) == \A t \in Sessions \ {s} : ~Blocks(t, w)

\* An uncommitted insert of the same reference makes a second insert wait.
RefFree(s, r) == \A t \in Sessions \ {s} : Active(tx[t]) => tx[t].op.ref # r

Become(s, state) == tx' = [tx EXCEPT ![s] = state]

Begin(s, op) ==
  /\ tx[s] = NoTx
  /\ Become(s, Tx(IF op.ref = NoRef THEN "lock" ELSE "mark", op, 0))
  /\ UNCHANGED <<balance, entries, processed, indexed>>

\* (variant) no unique key: the insert neither waits nor finds the reference
MarkUnguarded(s) ==
  /\ tx[s].pc = "mark"
  /\ Become(s, Tx("lock", tx[s].op, 0))
  /\ UNCHANGED <<balance, entries, processed, indexed>>

\* (variant) the reference is inserted outside the transaction
MarkAutocommitted(s) ==
  LET op == tx[s].op IN
  /\ tx[s].pc = "mark"
  /\ RefFree(s, op.ref)
  /\ Become(s, IF op.ref \in processed THEN NoTx ELSE Tx("lock", op, 0))
  /\ processed' = processed \cup {op.ref}
  /\ UNCHANGED <<balance, entries, indexed>>

\* A reference found in the inbox ends the operation: nothing to do, no error.
MarkMessageProcessed(s) ==
  LET op == tx[s].op IN
  /\ tx[s].pc = "mark"
  /\ RefFree(s, op.ref)
  /\ Become(s, IF op.ref \in processed THEN NoTx ELSE Tx("lock", op, 0))
  /\ UNCHANGED <<balance, entries, processed, indexed>>

\* (variant) the wallet is read without FOR UPDATE
GetWalletUnlocked(s) ==
  LET op  == tx[s].op
      at  == tx[s].at + 1
      row == Rows(op)[at] IN
  /\ tx[s].pc = "lock"
  /\ Become(s, IF row.wallet \notin Open \/ balance[row.wallet] < row.need
                 THEN NoTx
                 ELSE Tx(IF at = Len(Rows(op)) THEN "commit" ELSE "lock", op, at))
  /\ UNCHANGED <<balance, entries, processed, indexed>>

\* A missing wallet or a short balance rolls the transaction back.
GetWalletForUpdate(s) ==
  LET op  == tx[s].op
      at  == tx[s].at + 1
      row == Rows(op)[at] IN
  /\ tx[s].pc = "lock"
  /\ RowFree(s, row.wallet)
  /\ Become(s, IF row.wallet \notin Open \/ balance[row.wallet] < row.need
                 THEN NoTx
                 ELSE Tx(IF at = Len(Rows(op)) THEN "commit" ELSE "lock", op, at))
  /\ UNCHANGED <<balance, entries, processed, indexed>>

\* Every UpdateBalance and CreateTransaction, then the commit.  Deposit reads
\* its wallet back inside the transaction; the copy is what it will index.
Commit(s) ==
  LET op == tx[s].op IN
  /\ tx[s].pc = "commit"
  /\ balance' = [w \in Open |-> balance[w] + Delta(op, w)]
  /\ entries' = entries \cup Posts(op)
  /\ processed' = processed \cup ({op.ref} \ {NoRef})
  /\ Become(s, Tx("index", op, balance[op.to] + Delta(op, op.to)))
  /\ UNCHANGED indexed

\* Storage error, deadlock victim, lock wait timeout or failed commit.
Rollback(s) ==
  /\ "db" \in Faults
  /\ tx[s].pc \in {"mark", "lock", "commit"}
  /\ Become(s, NoTx)
  /\ UNCHANGED <<balance, entries, processed, indexed>>

\* Only Deposit reads its wallet back by its owner; the others ask for the
\* wallet whose owner is the wallet's own identifier, find none and index none.
Index(s) ==
  LET op == tx[s].op IN
  /\ tx[s].pc = "index"
  /\ \/ /\ op.kind = "deposit"
        /\ indexed' = [indexed EXCEPT ![op.to] = tx[s].at]
     \/ /\ op.kind # "deposit" \/ "search" \in Faults
        /\ UNCHANGED indexed
  /\ Become(s, NoTx)
  /\ UNCHANGED <<balance, entries, processed>>

Stop ==
  /\ "crash" \in Faults
  /\ \E s \in Sessions : tx[s] # NoTx
  /\ tx' = [s \in Sessions |-> NoTx]
  /\ UNCHANGED <<balance, entries, processed, indexed>>

-----------------------------------------------------------------------------
Init ==
  /\ balance = Opening
  /\ entries = {} /\ processed = {}
  /\ tx = [s \in Sessions |-> NoTx]
  /\ indexed = balance

\* (bound) one deposit of each amount per wallet
FirstDeposit(op) == /\ Posts(op) \cap entries = {}
                    /\ \A t \in Sessions : tx[t] # NoTx => tx[t].op # op

\* Any wallet may be named, except that a trip is settled between users: the
\* escrow is its third party.
Calls ==
  {Deposit(u, x) : u \in Parties, x \in Amounts}
  \cup {HoldDeposit(r, u, x) : r \in Refs, u \in Parties, x \in Amounts}
  \cup {ReleaseAndPay(r, u, v, x, y) :
          r \in Refs, u \in Parties \ {Escrow}, v \in Parties \ {Escrow},
          x \in Amounts, y \in Amounts}
  \cup {op \in {TransferMoney(r, u, v, x) :
                  r \in Refs, u \in Parties, v \in Parties, x \in Amounts} :
          op.from # op.to}

Call(s) == \E op \in Calls : /\ op.kind = "deposit" => FirstDeposit(op)
                             /\ Begin(s, op)

Work(s) == \/ MarkMessageProcessed(s) \/ GetWalletForUpdate(s) \/ Commit(s)
           \/ Rollback(s) \/ Index(s)

Next == (\E s \in Sessions : Call(s) \/ Work(s)) \/ Stop

Spec == Init /\ [][Next]_wvars

\* Statements return, and InnoDB serves waiting locks in order.
FairSpec == Spec /\ \A s \in Sessions : SF_wvars(Work(s))

-----------------------------------------------------------------------------
(* Properties.                                                             *)

TxState == [pc : {"mark", "lock", "commit", "index"}, op : Op, at : Nat]
Line == [ref : Refs \cup {NoRef}, type : 1..8, wallet : Users \cup {Escrow},
         amount : Int]

\* Every variable has its type; in particular no committed balance is negative,
\* for all the operations that check a balance and lower it later.
TypeOK ==
  /\ balance \in [Open -> Nat]
  /\ entries \subseteq Line
  /\ processed \subseteq Refs
  /\ tx \in [Sessions -> TxState \cup {NoTx}]
  /\ indexed \in [Open -> Nat]

\* Concurrent transactions add up to operations applied one at a time, each
\* covered by the balances it finds, and each reference applied at most once.
L == INSTANCE Ledger WITH Accounts <- Open, applied <- processed
Serialized == L!Spec

\* The inbox and the books agree: a reference is marked exactly when the entries
\* of its operation are there, whatever failed in between.
InboxAtomic ==
  \A r \in Refs : r \in processed <=> \E e \in entries : e.ref = r

Total(E) == MapThenSumSet(LAMBDA e : e.amount, E)

\* The books explain every balance: opening balance plus the wallet's entries.
Balanced ==
  \A w \in Open : balance[w] = Opening[w] + Total({e \in entries : e.wallet = w})

\* No two transactions wait for each other's rows, although a hold locks the
\* escrow's wallet last and a payment locks it first: an operation is never
\* rolled back (for a hold: dropped) as the victim of a lock cycle.
WaitsFor(s, t) == /\ s # t /\ tx[s].pc = "lock"
                  /\ Blocks(t, Rows(tx[s].op)[tx[s].at + 1].wallet)
NoLockCycle == \A s, t \in Sessions : ~(WaitsFor(s, t) /\ WaitsFor(t, s))

=============================================================================
