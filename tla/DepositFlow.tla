---------------------------- MODULE DepositFlow ----------------------------
(***************************************************************************)
(* The matching engine and the wallet together: AcceptOffer asks the       *)
(* wallet for the shipper's balance, then publishes the request that       *)
(* freezes the deposit, and the wallet freezes it some time after, while   *)
(* its other clients move money too.  A service that finds no wallet when  *)
(* it starts works with the mock client, which has money for everything.   *)
(* The wallet is its abstract specification Ledger, which the transactions *)
(* of module Wallet implement; the topic delivers every request, in any    *)
(* order and more than once.                                               *)
(***************************************************************************)
EXTENDS Matching

CONSTANTS Users, Escrow, \* owners of wallets: shippers and others; the system's
          BidsOf,        \* the bids of each user
          Funds,         \* opening balance of each user
          ClientRefs,    \* references of the wallet's other operations
          Cap            \* bound: no payment in lifts a balance above it

Owner(b) == CHOOSE s \in Users : b \in BidsOf[s]

ASSUME FlowConstants ==
  /\ Escrow \notin Users /\ Funds \in [Users -> Nat] /\ Cap \in Nat
  /\ BidsOf \in [Users -> SUBSET Bids]
  /\ \A b \in Bids : \E s \in Users : b \in BidsOf[s]

VARIABLES balance,   \* wallets.balance
          applied,   \* references of operations applied: here, frozen deposits
          refused,   \* holds the worker gave up for lack of money
          mock,      \* whether the engine runs with the mock wallet client
          unchecked, \* history: contracts whose balance the mock vouched for
          debited    \* history: users whose balance another operation lowered

wallet == <<balance, applied, refused, debited>>
fvars == <<vars, wallet, mock, unchecked>>

Accounts == Users \cup {Escrow}
Opening == [a \in Accounts |-> IF a = Escrow THEN 0 ELSE Funds[a]]

L == INSTANCE Ledger WITH Amounts <- Prices, Refs <- (1..MaxContracts) \cup ClientRefs

\* Deposits are a tenth of the price; amounts here are counted in tenths.
CheckBalance(b, deposit) == mock \/ balance[Owner(b)] >= deposit

\* The balance AcceptOffer acts on is the one it reads here: the hold is published
\* a step later and processed long after.
Engine ==
  /\ Next
  /\ \A t \in Callers :
       th[t].pc = "check_balance" /\ th'[t].pc = "request_hold" =>
         CheckBalance(th[t].bid, th[t].row.price)
  /\ unchecked' = unchecked \cup (IF mock /\ used' > used THEN {used'} ELSE {})
  /\ UNCHANGED <<wallet, mock>>

\* A new process looks for the wallet once, when it starts, and keeps the client.
Restart ==
  /\ Crash \/ ((\A t \in Threads : th[t] = Idle) /\ UNCHANGED vars)
  /\ mock' \in BOOLEAN
  /\ UNCHANGED <<wallet, unchecked>>

\* (variant) the inbox is not consulted: a redelivered hold is tried again
HoldAgain(h) ==
  /\ h \in holds /\ h \notin refused
  /\ IF balance[Owner(h.bid)] >= h.price
       THEN /\ balance' = L!Moved(balance, Owner(h.bid), Escrow, h.price)
            /\ applied' = applied \cup {h.id}
            /\ UNCHANGED refused
       ELSE refused' = refused \cup {h} /\ UNCHANGED <<balance, applied>>
  /\ UNCHANGED <<vars, mock, unchecked, debited>>

\* A redelivered hold finds its contract in the inbox and changes nothing.
HoldDeposit(h) ==
  /\ h \in holds /\ h \notin refused
  /\ h.id \notin applied
  /\ IF balance[Owner(h.bid)] >= h.price
       THEN L!Move(h.id, Owner(h.bid), Escrow, h.price) /\ UNCHANGED refused
       ELSE refused' = refused \cup {h} /\ UNCHANGED <<balance, applied>>
  /\ UNCHANGED <<vars, mock, unchecked, debited>>

\* The wallet's other operations: payments in, transfers, settled trips.
Client ==
  /\ \/ \E u \in Users, x \in Prices : balance[u] + x <= Cap /\ L!Deposit(u, x)
     \/ \E r \in ClientRefs, u, v \in Users, x \in Prices :
          \/ u # v /\ L!Move(r, u, v, x)
          \/ \E fare \in Prices : L!Settle(r, u, v, x, fare)
  /\ debited' = debited \cup {u \in Users : balance'[u] < balance[u]}
  /\ UNCHANGED <<vars, refused, mock, unchecked>>

FInit == /\ Init /\ balance = Opening /\ applied = {} /\ refused = {}
         /\ mock \in BOOLEAN /\ unchecked = {} /\ debited = {}
FNext == Engine \/ Restart \/ (\E h \in holds : HoldDeposit(h)) \/ Client
FSpec == FInit /\ [][FNext]_fvars

-----------------------------------------------------------------------------
(* Properties.                                                             *)

\* Another deposit of the same shipper has been frozen.
Rival(g, h) == g # h /\ g.id \in applied /\ Owner(g.bid) = Owner(h.bid)

\* AcceptOffer requests no deposit that is sure to be turned down (shipper order
\* flow, "check first, publish after").  One that is turned down all the same was
\* vouched for by the mock wallet, or its shipper's money went elsewhere: to
\* another contract of the same shipper, or out through another operation.
DepositsCovered ==
  \A h \in refused : \/ h.id \in unchecked
                     \/ Owner(h.bid) \in debited
                     \/ \E g \in holds : Rival(g, h)
=============================================================================
