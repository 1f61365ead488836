------------------------------- MODULE Ledger -------------------------------
(***************************************************************************)
(* What wallet_service promises about money: every business operation      *)
(* moves amounts between accounts in one step, never below zero, and an    *)
(* operation with a reference is applied at most once.                     *)
(***************************************************************************)
EXTENDS Integers

CONSTANTS Accounts,  \* the wallets that exist
          Escrow,    \* the wallet of the system
          Opening,   \* their opening balances
          Amounts,   \* amounts of money, in hundredths
          Refs       \* reference identifiers

VARIABLES balance,   \* balance[a], for every account
          applied    \* references whose operation has been applied

Init == balance = Opening /\ applied = {}

Once(r) == r \notin applied /\ applied' = applied \cup {r}

Deposit(u, x) ==
  /\ balance' = [balance EXCEPT ![u] = @ + x]
  /\ UNCHANGED applied

Moved(bal, from, to, x) ==
  [a \in Accounts |-> bal[a] - (IF a = from THEN x ELSE 0) + (IF a = to THEN x ELSE 0)]

Move(r, from, to, x) ==
  /\ Once(r)
  /\ balance[from] >= x
  /\ balance' = Moved(balance, from, to, x)

\* The deposit goes back to the driver, and the shipper pays the fare.
Settle(r, driver, shipper, deposit, fare) ==
  /\ Once(r)
  /\ balance[Escrow] >= deposit /\ balance[shipper] >= fare
  /\ balance' = Moved(Moved(balance, Escrow, driver, deposit), shipper, driver, fare)

Next == \/ \E u \in Accounts, x \in Amounts : Deposit(u, x)
        \/ \E r \in Refs, u, v \in Accounts, x, y \in Amounts :
             Move(r, u, v, x) \/ Settle(r, u, v, x, y)

Spec == Init /\ [][Next]_<<balance, applied>>
=============================================================================
