---------------------------- MODULE WalletProofs ----------------------------
(* Theorems about Wallet, for every value of its constants.                *)
EXTENDS WalletInv, FiniteSetTheorems, TLAPS

-----------------------------------------------------------------------------
(* Sums over finite sets.  MapThenSumSet is a recursive function on the    *)
(* subsets of its argument; instead of the induction theorems, which have  *)
(* an operator as parameter, the proofs take a smallest counterexample.    *)

First(s) == CHOOSE x \in s : TRUE
SumStep(S, f) == [s \in SUBSET S |->
                    IF s = {} THEN 0 ELSE First(s).amount + f[s \ {First(s)}]]
Sums(S, f) == f = SumStep(S, f)
TheSum(S) == CHOOSE f : Sums(S, f)

LEMMA TotalIsSum == ASSUME NEW S PROVE Total(S) = TheSum(S)[S]
BY DEF Total, MapThenSumSet, MapThenFoldSet, TheSum, Sums, SumStep, First

LEMMA Smallest ==
  ASSUME NEW S, IsFiniteSet(S), NEW F, F \subseteq SUBSET S, F # {}
  PROVE  \E x \in F : \A y \in F : y \subseteq x => y = x
<1>1. IsWellFoundedOn(StrictSubsetOrdering(S), SUBSET S)
  BY FS_FiniteSubsetsOfFinite, FS_StrictSubsetOrderingWellFounded
<1>2. \E x \in F : \A y \in F : ~ (<<y, x>> \in StrictSubsetOrdering(S))
  BY <1>1, WFMin
<1>3. QED
  BY <1>2 DEF StrictSubsetOrdering

LEMMA FirstIn == ASSUME NEW s, s # {} PROVE First(s) \in s
BY DEF First

LEMMA SumsAt ==
  ASSUME NEW S, NEW f, Sums(S, f), NEW s \in SUBSET S
  PROVE  f[s] = IF s = {} THEN 0 ELSE First(s).amount + f[s \ {First(s)}]
<1>1. f = SumStep(S, f)
  BY DEF Sums
<1>2. SumStep(S, f)[s] = IF s = {} THEN 0 ELSE First(s).amount + f[s \ {First(s)}]
  BY DEF SumStep
<1>3. QED
  BY <1>1, <1>2

(* Two functions that sum agree where both are defined.                    *)
LEMMA SumsAgree ==
  ASSUME NEW S, IsFiniteSet(S), NEW T \in SUBSET S, NEW f, NEW g,
         Sums(S, f), Sums(T, g)
  PROVE  \A s \in SUBSET T : f[s] = g[s]
<1> DEFINE F == {s \in SUBSET T : f[s] # g[s]}
<1>1. CASE F = {}
  BY <1>1
<1>2. CASE F # {}
  <2>1. IsFiniteSet(T)
    BY FS_Subset
  <2>2. PICK s \in F : \A u \in F : u \subseteq s => u = s
    <3>1. F \subseteq SUBSET T
      OBVIOUS
    <3> HIDE DEF F
    <3>2. QED
      BY <1>2, <2>1, <3>1, Smallest
  <2>3. s # {}
    BY <2>2, SumsAt
  <2> DEFINE u == s \ {First(s)}
  <2>4. u \in SUBSET T /\ u \subseteq s /\ u # s
    BY <2>2, <2>3, FirstIn
  <2>5. f[u] = g[u]
    BY <2>2, <2>4
  <2>6. f[s] = First(s).amount + f[u] /\ g[s] = First(s).amount + g[u]
    BY <2>2, <2>3, SumsAt
  <2>7. QED
    BY <2>2, <2>5, <2>6
<1>3. QED
  BY <1>1, <1>2

LEMMA SumsExist == ASSUME NEW S, IsFiniteSet(S) PROVE Sums(S, TheSum(S))
<1> DEFINE F == {T \in SUBSET S : ~ \E f : Sums(T, f)}
<1>1. CASE F = {}
  <2>1. \E f : Sums(S, f)
    BY <1>1
  <2>2. QED
    BY <2>1 DEF TheSum
<1>2. CASE F # {}
  <2>1. PICK T \in F : \A U \in F : U \subseteq T => U = T
    <3>1. F \subseteq SUBSET S
      OBVIOUS
    <3> HIDE DEF F
    <3>2. QED
      BY <1>2, <3>1, Smallest
  <2>2. ASSUME NEW U \in SUBSET T, U # T PROVE Sums(U, TheSum(U))
    <3>1. \E f : Sums(U, f)
      BY <2>1, <2>2
    <3>2. QED
      BY <3>1 DEF TheSum
  <2> DEFINE g == [s \in SUBSET T |-> IF s = {} THEN 0 ELSE
                     First(s).amount + TheSum(s \ {First(s)})[s \ {First(s)}]]
  <2>3. ASSUME NEW u \in SUBSET T, u # T PROVE g[u] = TheSum(u)[u]
    <3>1. Sums(u, TheSum(u))
      BY <2>2, <2>3
    <3>2. CASE u = {}
      BY <3>1, <3>2, SumsAt
    <3>3. CASE u # {}
      <4> DEFINE v == u \ {First(u)}
      <4>1. v \in SUBSET u /\ v \in SUBSET T /\ v # T
        BY <2>3, <3>3, FirstIn
      <4>2. IsFiniteSet(u)
        BY FS_Subset
      <4>3. Sums(v, TheSum(v))
        BY <2>2, <4>1
      <4>4. TheSum(u)[v] = TheSum(v)[v]
        BY <3>1, <4>1, <4>2, <4>3, SumsAgree
      <4>5. TheSum(u)[u] = First(u).amount + TheSum(u)[v]
        BY <3>1, <3>3, SumsAt
      <4>6. g[u] = First(u).amount + TheSum(v)[v]
        BY <3>3
      <4>7. QED
        BY <4>4, <4>5, <4>6
    <3>4. QED
      BY <3>2, <3>3
  <2>4. ASSUME NEW s \in SUBSET T, s # {} PROVE g[s] = First(s).amount + g[s \ {First(s)}]
    <3>1. s \ {First(s)} \in SUBSET T /\ s \ {First(s)} # T
      BY <2>4, FirstIn
    <3>2. g[s \ {First(s)}] = TheSum(s \ {First(s)})[s \ {First(s)}]
      BY <2>3, <3>1
    <3>3. g[s] = First(s).amount + TheSum(s \ {First(s)})[s \ {First(s)}]
      BY <2>4
    <3>4. QED
      BY <3>2, <3>3
  <2>5. g[{}] = 0 /\ g = [s \in SUBSET T |-> g[s]]
    OBVIOUS
  <2> HIDE DEF g
  <2>6. Sums(T, g)
    BY <2>4, <2>5 DEF Sums, SumStep
  <2>7. QED
    BY <2>1, <2>6
<1>3. QED
  BY <1>1, <1>2

LEMMA TotalEmpty == Total({}) = 0
BY FS_EmptySet, SumsExist, SumsAt, TotalIsSum

LEMMA TotalFirst ==
  ASSUME NEW S, IsFiniteSet(S), S # {}
  PROVE  Total(S) = First(S).amount + Total(S \ {First(S)})
<1> DEFINE T == S \ {First(S)}
<1>1. IsFiniteSet(T)
  BY FS_Subset
<1>2. Sums(S, TheSum(S)) /\ Sums(T, TheSum(T))
  BY <1>1, SumsExist
<1>3. TheSum(S)[T] = TheSum(T)[T]
  BY <1>2, SumsAgree
<1>4. TheSum(S)[S] = First(S).amount + TheSum(S)[T]
  BY <1>2, SumsAt
<1>5. QED
  BY <1>3, <1>4, TotalIsSum

LEMMA TotalInt ==
  ASSUME NEW S, IsFiniteSet(S), \A e \in S : e.amount \in Int
  PROVE  \A T \in SUBSET S : Total(T) \in Int
<1> DEFINE F == {T \in SUBSET S : Total(T) \notin Int}
<1>1. CASE F = {}
  BY <1>1
<1>2. CASE F # {}
  <2>1. PICK T \in F : \A U \in F : U \subseteq T => U = T
    <3>1. F \subseteq SUBSET S
      OBVIOUS
    <3> HIDE DEF F
    <3>2. QED
      BY <1>2, <3>1, Smallest
  <2>2. T # {}
    <3>1. Total(T) # 0
      BY <2>1
    <3>2. QED
      BY <3>1, TotalEmpty, Zenon
  <2>3. First(T) \in T /\ IsFiniteSet(T)
    BY <2>2, FirstIn, FS_Subset
  <2>4. Total(T) = First(T).amount + Total(T \ {First(T)})
    BY <2>2, <2>3, TotalFirst
  <2>5. Total(T \ {First(T)}) \in Int
    BY <2>1, <2>3
  <2>6. First(T).amount \in Int
    BY <2>3
  <2>7. QED
    BY <2>1, <2>4, <2>5, <2>6
<1>3. QED
  BY <1>1, <1>2

(* The order in which the elements are added does not matter.              *)
LEMMA TotalAny ==
  ASSUME NEW S, IsFiniteSet(S), \A e \in S : e.amount \in Int
  PROVE  \A T \in SUBSET S : \A e \in T : Total(T) = e.amount + Total(T \ {e})
<1> DEFINE F == {T \in SUBSET S : \E e \in T : Total(T) # e.amount + Total(T \ {e})}
<1>1. CASE F = {}
  BY <1>1
<1>2. CASE F # {}
  <2>1. PICK T \in F : \A U \in F : U \subseteq T => U = T
    <3>1. F \subseteq SUBSET S
      OBVIOUS
    <3> HIDE DEF F
    <3>2. QED
      BY <1>2, <3>1, Smallest
  <2>2. PICK e \in T : Total(T) # e.amount + Total(T \ {e})
    BY <2>1
  <2>3. First(T) \in T /\ IsFiniteSet(T)
    BY <2>2, FirstIn, FS_Subset
  <2> DEFINE x == First(T)
  <2>4. Total(T) = x.amount + Total(T \ {x})
    BY <2>2, <2>3, TotalFirst
  <2>5. x # e
    BY <2>2, <2>4
  <2>6. ASSUME NEW a \in T, NEW b \in T, a # b
        PROVE  Total(T \ {a}) = b.amount + Total((T \ {a}) \ {b})
    <3>1. T \ {a} \notin F /\ T \ {a} \in SUBSET S /\ b \in T \ {a}
      BY <2>1, <2>6
    <3>2. QED
      BY <3>1
  <2>7. /\ Total(T \ {x}) = e.amount + Total((T \ {x}) \ {e})
        /\ Total(T \ {e}) = x.amount + Total((T \ {e}) \ {x})
    BY <2>3, <2>5, <2>6
  <2>8. (T \ {x}) \ {e} = (T \ {e}) \ {x} /\ (T \ {x}) \ {e} \in SUBSET S
    OBVIOUS
  <2>9. Total((T \ {x}) \ {e}) \in Int /\ x.amount \in Int /\ e.amount \in Int
    BY <2>3, <2>8, TotalInt
  <2> HIDE DEF x
  <2>10. Total(T) = e.amount + Total(T \ {e})
    <3>1. PICK u : u = Total((T \ {x}) \ {e})
      OBVIOUS
    <3>2. PICK p : p = Total(T \ {x})
      OBVIOUS
    <3>3. PICK q : q = Total(T \ {e})
      OBVIOUS
    <3>4. u \in Int /\ p = e.amount + u /\ q = x.amount + u
      BY <2>7, <2>8, <2>9, <3>1, <3>2, <3>3, Zenon
    <3>5. Total(T) = x.amount + p
      BY <2>4, <3>2
    <3>6. x.amount + p = e.amount + q
      BY <2>9, <3>4
    <3>7. QED
      BY <3>3, <3>5, <3>6
  <2>11. QED
    BY <2>2, <2>10
<1>3. QED
  BY <1>1, <1>2

LEMMA TotalAdd ==
  ASSUME NEW S, IsFiniteSet(S), NEW e, e \notin S,
         \A x \in S \cup {e} : x.amount \in Int
  PROVE  Total(S \cup {e}) = Total(S) + e.amount
<1>1. IsFiniteSet(S \cup {e}) /\ (S \cup {e}) \ {e} = S
  BY FS_AddElement
<1>2. Total(S \cup {e}) = e.amount + Total(S)
  BY <1>1, TotalAny
<1>3. Total(S) \in Int /\ e.amount \in Int
  BY TotalInt
<1>4. QED
  BY <1>2, <1>3

USE WalletConstants

-----------------------------------------------------------------------------
(* Operations.                                                             *)

Owners == Users \cup {Escrow}

Shape(op) ==
  /\ op \in Op
  /\ \/ op.kind = "deposit" /\ op.ref = NoRef /\ op.to = op.from
     \/ op.kind = "hold" /\ op.ref \in Refs /\ op.to = Escrow
     \/ op.kind = "pay" /\ op.ref \in Refs /\ op.from \in Users /\ op.to \in Users
     \/ op.kind = "transfer" /\ op.ref \in Refs /\ op.from # op.to

LEMMA CallShape == ASSUME NEW op \in Calls PROVE Shape(op)
BY DEF Calls, Shape, Op, Deposit, HoldDeposit, ReleaseAndPay, TransferMoney

LEMMA RowsShape ==
  ASSUME NEW op, Shape(op)
  PROVE  /\ Len(Rows(op)) \in Nat \ {0}
         /\ \A i \in 1..Len(Rows(op)) : /\ Rows(op)[i].wallet \in Owners
                                        /\ Rows(op)[i].need \in Nat
<1>0. op.amount \in Nat /\ op.fare \in Nat /\ op.to \in Owners /\ op.from \in Owners
  BY DEF Shape, Op, Owners
<1>1. CASE op.kind = "deposit"
  BY <1>0, <1>1 DEF Rows, Row
<1>2. CASE op.kind = "hold"
  BY <1>0, <1>2 DEF Rows, Row, Owners
<1>3. CASE op.kind = "pay"
  BY <1>0, <1>3 DEF Rows, Row, Owners
<1>4. CASE op.kind = "transfer"
  BY <1>0, <1>4 DEF Rows, Row
<1>5. QED
  BY <1>1, <1>2, <1>3, <1>4 DEF Shape

(* All the rows of an operation are there and cover their checks.          *)
CoveredOp(op) ==
  \A i \in 1..Len(Rows(op)) : /\ Rows(op)[i].wallet \in Open
                              /\ balance[Rows(op)[i].wallet] >= Rows(op)[i].need

(* What the checks of each operation establish about the balances it moves. *)
Payable(op) ==
  /\ op.from \in Open /\ op.to \in Open
  /\ op.kind \in {"hold", "pay"} => Escrow \in Open
  /\ op.kind \in {"hold", "transfer"} => balance[op.from] >= op.amount
  /\ op.kind = "pay" => balance[Escrow] >= op.amount /\ balance[op.from] >= op.fare

LEMMA CoveredPayable ==
  ASSUME NEW op, Shape(op), CoveredOp(op)
  PROVE  Payable(op)
<1>1. CASE op.kind = "deposit"
  <2>1. Rows(op)[1] = Row(op.to, 0) /\ Len(Rows(op)) = 1
    BY <1>1 DEF Rows
  <2>2. QED
    BY <1>1, <2>1 DEF Payable, Shape, CoveredOp, Row
<1>2. CASE op.kind = "hold"
  <2>1. /\ Rows(op)[1] = Row(op.from, op.amount) /\ Rows(op)[2] = Row(Escrow, 0)
        /\ Len(Rows(op)) = 2
    BY <1>2 DEF Rows
  <2>2. op.to = Escrow
    BY <1>2 DEF Shape
  <2>3. QED
    BY <1>2, <2>1, <2>2 DEF Payable, CoveredOp, Row
<1>3. CASE op.kind = "pay"
  <2>1. /\ Rows(op)[1] = Row(Escrow, op.amount) /\ Rows(op)[2] = Row(op.from, op.fare)
        /\ Len(Rows(op)) = 3
    BY <1>3 DEF Rows
  <2>2. op.from \in Open /\ op.to \in Open
    BY <1>3 DEF Shape, Open
  <2>3. QED
    BY <1>3, <2>1, <2>2 DEF Payable, CoveredOp, Row
<1>4. CASE op.kind = "transfer"
  <2>1. /\ Rows(op)[1] = Row(op.from, op.amount) /\ Rows(op)[2] = Row(op.to, 0)
        /\ Len(Rows(op)) = 2
    BY <1>4 DEF Rows
  <2>2. QED
    BY <1>4, <2>1 DEF Payable, CoveredOp, Row
<1>5. QED
  BY <1>1, <1>2, <1>3, <1>4 DEF Shape

(* A covered operation leaves no balance negative.                         *)
LEMMA DeltaCovered ==
  ASSUME NEW op, Shape(op), Payable(op), balance \in [Open -> Nat]
  PROVE  \A w \in Open : balance[w] + Delta(op, w) \in Nat
<1>0. op.amount \in Nat /\ op.fare \in Nat /\ (op.kind = "pay" => op.from # Escrow)
  BY DEF Shape, Op
<1>1. TAKE w \in Open
<1>2. balance[w] \in Nat
  OBVIOUS
<1>3. CASE op.kind = "deposit"
  BY <1>0, <1>2, <1>3 DEF Delta
<1>4. CASE op.kind \in {"hold", "transfer"}
  BY <1>0, <1>2, <1>4 DEF Delta, Shift, Payable
<1>5. CASE op.kind = "pay"
  <2>1. op.to # Escrow
    BY <1>5 DEF Shape
  <2>2. QED
    BY <1>0, <1>2, <1>5, <2>1 DEF Delta, Shift, Payable
<1>6. QED
  BY <1>3, <1>4, <1>5 DEF Shape

(* An operation changes only the wallets whose rows it has locked.         *)
LEMMA DeltaLocal ==
  ASSUME NEW op, Shape(op), NEW w, Delta(op, w) # 0
  PROVE  \E i \in 1..Len(Rows(op)) : Rows(op)[i].wallet = w
<1>0. op.amount \in Nat /\ op.fare \in Nat
  BY DEF Shape, Op
<1>1. CASE op.kind = "deposit"
  BY <1>1 DEF Delta, Rows, Row
<1>2. CASE op.kind = "hold"
  <2>1. w \in {op.from, op.to} /\ op.to = Escrow
    BY <1>0, <1>2 DEF Delta, Shift, Shape
  <2>2. /\ Rows(op)[1].wallet = op.from /\ Rows(op)[2].wallet = Escrow
        /\ Len(Rows(op)) = 2
    BY <1>2 DEF Rows, Row
  <2>3. QED
    BY <2>1, <2>2
<1>3. CASE op.kind = "pay"
  <2>1. w \in {Escrow, op.from, op.to}
    BY <1>0, <1>3 DEF Delta, Shift
  <2>2. /\ Rows(op)[1].wallet = Escrow /\ Rows(op)[2].wallet = op.from
        /\ Rows(op)[3].wallet = op.to /\ Len(Rows(op)) = 3
    BY <1>3 DEF Rows, Row
  <2>3. QED
    BY <2>1, <2>2
<1>4. CASE op.kind = "transfer"
  <2>1. w \in {op.from, op.to}
    BY <1>0, <1>4 DEF Delta, Shift
  <2>2. /\ Rows(op)[1].wallet = op.from /\ Rows(op)[2].wallet = op.to
        /\ Len(Rows(op)) = 2
    BY <1>4 DEF Rows, Row
  <2>3. QED
    BY <2>1, <2>2
<1>5. QED
  BY <1>1, <1>2, <1>3, <1>4 DEF Shape

LEMMA PostsTyped == ASSUME NEW op, Shape(op) PROVE Posts(op) \subseteq Line
<1>0. op.amount \in Nat /\ op.fare \in Nat
  BY DEF Shape, Op
<1>1. op.amount \in Int /\ op.fare \in Int /\ -op.amount \in Int /\ -op.fare \in Int
  BY <1>0
<1>2. op.to \in Users \cup {Escrow} /\ op.from \in Users \cup {Escrow} /\ op.ref \in Refs \cup {NoRef}
  BY DEF Shape, Op
<1>3. QED
  BY <1>1, <1>2 DEF Shape, Posts, Entry, Line

-----------------------------------------------------------------------------
(* One committed transaction is one step of the ledger.                    *)

Booked(op) ==
  /\ balance' = [w \in Open |-> balance[w] + Delta(op, w)]
  /\ processed' = processed \cup ({op.ref} \ {NoRef})

LEMMA CommitIsLedgerStep ==
  ASSUME NEW op, Shape(op), Payable(op), balance \in [Open -> Nat],
         op.ref \notin processed, Booked(op)
  PROVE  L!Next
<1>0. op.amount \in Amounts /\ op.fare \in Amounts /\ op.amount \in Nat /\ op.fare \in Nat
  BY DEF Shape, Op
<1>1. op.from \in Open /\ op.to \in Open
  BY DEF Payable
<1>2. \A w \in Open : balance[w] \in Nat
  OBVIOUS
<1>3. CASE op.kind = "deposit"
  <2>1. op.ref = NoRef /\ processed' = processed
    BY <1>3 DEF Shape, Booked
  <2>2. balance' = [balance EXCEPT ![op.to] = @ + op.amount]
    <3> DEFINE f == [balance EXCEPT ![op.to] = @ + op.amount]
    <3>1. f = [w \in Open |-> f[w]]
      OBVIOUS
    <3>2. \A w \in Open : f[w] = balance[w] + Delta(op, w)
      BY <1>0, <1>1, <1>2, <1>3 DEF Delta
    <3> HIDE DEF f
    <3>3. balance' = f
      BY <3>1, <3>2, Zenon DEF Booked
    <3>4. QED
      BY <3>3 DEF f
  <2>3. L!Deposit(op.to, op.amount)
    BY <2>1, <2>2 DEF L!Deposit
  <2>4. QED
    BY <1>0, <1>1, <2>3 DEF L!Next
<1>4. CASE op.kind \in {"hold", "transfer"}
  <2>1. op.ref \in Refs /\ processed' = processed \cup {op.ref}
    BY <1>4 DEF Shape, Booked
  <2>2. \A w \in Open : balance[w] + Delta(op, w) =
          balance[w] - (IF w = op.from THEN op.amount ELSE 0)
                     + (IF w = op.to THEN op.amount ELSE 0)
    BY <1>0, <1>2, <1>4 DEF Delta, Shift
  <2>3. balance' = L!Moved(balance, op.from, op.to, op.amount)
    BY <2>2 DEF Booked, L!Moved
  <2>4. L!Move(op.ref, op.from, op.to, op.amount)
    BY <1>4, <2>1, <2>3 DEF L!Move, L!Once, Payable
  <2>5. QED
    BY <1>0, <1>1, <2>1, <2>4 DEF L!Next
<1>5. CASE op.kind = "pay"
  <2>1. /\ op.ref \in Refs /\ processed' = processed \cup {op.ref}
        /\ op.to # Escrow /\ op.from # Escrow /\ Escrow \in Open
    BY <1>5 DEF Shape, Booked, Payable
  <2> DEFINE returned == L!Moved(balance, Escrow, op.to, op.amount)
  <2>2. \A w \in Open : returned[w] =
          balance[w] - (IF w = Escrow THEN op.amount ELSE 0)
                     + (IF w = op.to THEN op.amount ELSE 0)
    BY DEF L!Moved
  <2>3. \A w \in Open : balance[w] + Delta(op, w) =
          returned[w] - (IF w = op.from THEN op.fare ELSE 0)
                      + (IF w = op.to THEN op.fare ELSE 0)
    <3> HIDE DEF returned
    <3>1. \A w \in Open : Delta(op, w) =
            Shift(w, Escrow, op.to, op.amount) + Shift(w, op.from, op.to, op.fare)
      BY <1>5 DEF Delta
    <3>2. QED
      BY <1>0, <1>2, <2>2, <3>1 DEF Shift
  <2>4. balance' = L!Moved(returned, op.from, op.to, op.fare)
    <3> HIDE DEF returned
    <3>1. QED
      BY <2>3 DEF Booked, L!Moved
  <2>5. L!Settle(op.ref, op.to, op.from, op.amount, op.fare)
    BY <1>5, <2>1, <2>4 DEF L!Settle, L!Once, Payable
  <2>6. QED
    BY <1>0, <1>1, <2>1, <2>5 DEF L!Next
<1>6. QED
  BY <1>3, <1>4, <1>5 DEF Shape

-----------------------------------------------------------------------------
(* The inductive invariant.                                                *)

LEMMA TxShape ==
  ASSUME TypeOK, NEW s \in Sessions, tx[s].pc \in {"mark", "lock", "commit", "index"}
  PROVE  tx[s] \in TxState /\ tx[s] # NoTx
BY DEF TypeOK, NoTx

LEMMA IdleOK == TxOK(NoTx) /\ \A x : Apart(NoTx, x) /\ Apart(x, NoTx)
BY DEF TxOK, Apart, Active, NoTx

(* One goroutine moves on; nothing is committed.                           *)
LEMMA OneMoves ==
  ASSUME WalletInv, NEW s \in Sessions, NEW CONSTANT n \in TxState \cup {NoTx},
         tx' = [tx EXCEPT ![s] = n], TxOK(n),
         \A t \in Sessions \ {s} : Apart(n, tx[t]) /\ Apart(tx[t], n),
         UNCHANGED <<balance, entries, processed>>, indexed' \in [Open -> Nat]
  PROVE  WalletInv'
<1>1. TypeOK'
  BY DEF WalletInv, TypeOK
<1>2. /\ tx'[s] = n
      /\ \A t \in Sessions \ {s} : tx'[t] = tx[t]
  BY DEF WalletInv, TypeOK
<1>3. \A t \in Sessions : TxOK(tx[t])'
  BY <1>2 DEF WalletInv, TxOK, Secured, Active
<1>4. \A t, u \in Sessions : t # u => Apart(tx[t], tx[u])'
  <2>1. TAKE t, u \in Sessions
  <2>2. HAVE t # u
  <2>3. Apart(tx'[t], tx'[u])
    BY <1>2, <2>2 DEF WalletInv
  <2>4. QED
    BY <2>3
<1>5. QED
  BY <1>1, <1>3, <1>4 DEF WalletInv

LEMMA BeginInv ==
  ASSUME WalletInv, NEW s \in Sessions, NEW CONSTANT op \in Calls, Begin(s, op)
  PROVE  WalletInv'
<1> DEFINE n == Tx(IF op.ref = NoRef THEN "lock" ELSE "mark", op, 0)
<1>1. op \in Op /\ Len(Rows(op)) \in Nat \ {0}
  BY CallShape, RowsShape DEF Shape
<1>2. /\ n.op = op /\ n.at = 0 /\ n.pc \in {"lock", "mark"}
      /\ n.pc = "lock" <=> op.ref = NoRef
      /\ n \in TxState
  BY <1>1 DEF Tx, TxState
<1>3. tx' = [tx EXCEPT ![s] = n] /\ UNCHANGED <<balance, entries, processed, indexed>>
  BY DEF Begin, Become
<1> HIDE DEF n
<1>4. NoRef \notin processed
  BY DEF WalletInv, TypeOK
<1>5. TxOK(n)
  BY <1>1, <1>2, <1>4 DEF TxOK, Secured, Active
<1>6. Locks(n) = {}
  BY <1>2 DEF Locks
<1>7. \A t \in Sessions \ {s} : Apart(n, tx[t]) /\ Apart(tx[t], n)
  BY <1>2, <1>6 DEF Apart, Active
<1>8. indexed' \in [Open -> Nat]
  BY <1>3 DEF WalletInv, TypeOK
<1>9. QED
  BY <1>2, <1>3, <1>5, <1>7, <1>8, OneMoves

LEMMA GoIdleInv ==
  ASSUME WalletInv, NEW s \in Sessions, Become(s, NoTx),
         UNCHANGED <<balance, entries, processed>>, indexed' \in [Open -> Nat]
  PROVE  WalletInv'
BY OneMoves, IdleOK DEF Become

LEMMA MarkInv ==
  ASSUME WalletInv, NEW s \in Sessions, MarkMessageProcessed(s)
  PROVE  WalletInv'
<1>1. PICK x : x = tx[s]
  OBVIOUS
<1>2. x \in TxState /\ x # NoTx /\ x.pc = "mark"
  BY <1>1, TxShape DEF WalletInv, MarkMessageProcessed
<1>3. indexed' \in [Open -> Nat] /\ UNCHANGED <<balance, entries, processed>>
  BY DEF WalletInv, TypeOK, MarkMessageProcessed
<1>4. CASE x.op.ref \in processed
  BY <1>1, <1>3, <1>4, GoIdleInv DEF MarkMessageProcessed
<1>5. CASE x.op.ref \notin processed
  <2> DEFINE n == Tx("lock", x.op, 0)
  <2>1. x.op \in Calls /\ x.op.ref # NoRef
    BY <1>1, <1>2 DEF WalletInv, TxOK
  <2>2. n.op = x.op /\ n.at = 0 /\ n.pc = "lock" /\ n \in TxState
    BY <1>2 DEF Tx, TxState
  <2>3. tx' = [tx EXCEPT ![s] = n]
    BY <1>1, <1>5 DEF MarkMessageProcessed, Become
  <2> HIDE DEF n
  <2>4. Len(Rows(n.op)) \in Nat \ {0}
    BY <2>1, <2>2, CallShape, RowsShape
  <2>5. TxOK(n)
    BY <1>5, <2>1, <2>2, <2>4 DEF TxOK, Secured, Active
  <2>6. Locks(n) = {}
    BY <2>2 DEF Locks
  <2>7. \A t \in Sessions \ {s} : Active(tx[t]) => tx[t].op.ref # n.op.ref
    BY <1>1, <2>2 DEF MarkMessageProcessed, RefFree
  <2>8. \A t \in Sessions \ {s} : Apart(n, tx[t]) /\ Apart(tx[t], n)
    BY <2>6, <2>7 DEF Apart
  <2>9. QED
    BY <1>3, <2>2, <2>3, <2>5, <2>8, OneMoves
<1>6. QED
  BY <1>4, <1>5

LEMMA LockStepInv ==
  ASSUME WalletInv, NEW s \in Sessions, GetWalletForUpdate(s)
  PROVE  WalletInv'
<1>1. PICK x : x = tx[s]
  OBVIOUS
<1>2. x \in TxState /\ x # NoTx /\ x.pc = "lock" /\ Active(x)
  BY <1>1, TxShape DEF WalletInv, GetWalletForUpdate, Active
<1>3. indexed' \in [Open -> Nat] /\ UNCHANGED <<balance, entries, processed>>
  BY DEF WalletInv, TypeOK, GetWalletForUpdate
<1>4. PICK row : row = Rows(x.op)[x.at + 1]
  OBVIOUS
<1>5. CASE row.wallet \notin Open \/ balance[row.wallet] < row.need
  BY <1>1, <1>3, <1>4, <1>5, GoIdleInv DEF GetWalletForUpdate
<1>6. CASE ~(row.wallet \notin Open \/ balance[row.wallet] < row.need)
  <2> DEFINE n == Tx(IF x.at + 1 = Len(Rows(x.op)) THEN "commit" ELSE "lock",
                     x.op, x.at + 1)
  <2>1. x.op \in Calls /\ Secured(x) /\ x.op.ref \notin processed
    BY <1>1, <1>2 DEF WalletInv, TxOK
  <2>2. x.at \in Nat /\ x.op \in Op
    BY <1>2 DEF TxState
  <2>3. /\ n.op = x.op /\ n.at = x.at + 1 /\ n \in TxState
        /\ n.pc = IF x.at + 1 = Len(Rows(x.op)) THEN "commit" ELSE "lock"
    BY <2>2 DEF Tx, TxState
  <2>4. tx' = [tx EXCEPT ![s] = n]
    BY <1>1, <1>4, <1>6 DEF GetWalletForUpdate, Become
  <2> HIDE DEF n
  <2>5. Len(Rows(x.op)) \in Nat \ {0} /\ row.need \in Nat
    <3>1. x.at + 1 \in 1..Len(Rows(x.op))
      BY <1>2, <2>1, <2>2, CallShape, RowsShape DEF Secured
    <3>2. QED
      BY <1>4, <2>1, <3>1, CallShape, RowsShape
  <2>6. balance[row.wallet] >= row.need /\ row.wallet \in Open
    <3>1. balance[row.wallet] \in Nat
      BY <1>6 DEF WalletInv, TypeOK
    <3>2. QED
      BY <1>6, <2>5, <3>1
  <2>7. \A i \in 1..n.at : i \in 1..x.at \/ Rows(n.op)[i] = row
    BY <1>4, <2>2, <2>3
  <2>8. Secured(n)
    <3>1. n.at <= Len(Rows(n.op)) /\ (n.pc = "lock" => n.at < Len(Rows(n.op)))
          /\ (n.pc = "commit" => n.at = Len(Rows(n.op)))
      BY <1>2, <2>1, <2>2, <2>3, <2>5 DEF Secured
    <3>2. QED
      BY <2>1, <2>3, <2>6, <2>7, <3>1 DEF Secured
  <2>9. TxOK(n)
    BY <2>1, <2>3, <2>8 DEF TxOK
  <2>10. Locks(n) \subseteq Locks(x) \cup {row.wallet}
    BY <1>2, <2>3, <2>7 DEF Locks
  <2>11. \A t \in Sessions \ {s} : row.wallet \notin Locks(tx[t])
    BY <1>1, <1>4 DEF GetWalletForUpdate, RowFree, Blocks
  <2>12. \A t \in Sessions \ {s} : Apart(x, tx[t])
    BY <1>1 DEF WalletInv
  <2>13. \A t \in Sessions \ {s} : Apart(n, tx[t]) /\ Apart(tx[t], n)
    BY <1>2, <2>3, <2>10, <2>11, <2>12 DEF Apart
  <2>14. QED
    BY <1>3, <2>3, <2>4, <2>9, <2>13, OneMoves
<1>7. QED
  BY <1>5, <1>6

(* A commit changes only rows the transaction has locked, so what the other *)
(* transactions have checked still holds.                                  *)
LEMMA CommitFacts ==
  ASSUME WalletInv, NEW s \in Sessions, Commit(s)
  PROVE  /\ tx[s].op \in Calls /\ Shape(tx[s].op) /\ Payable(tx[s].op)
         /\ tx[s].op.ref \notin processed /\ Booked(tx[s].op)
         /\ Active(tx[s])
         /\ \A w \in Open : Delta(tx[s].op, w) = 0 \/ w \in Locks(tx[s])
<1>1. PICK x : x = tx[s]
  OBVIOUS
<1>2. x \in TxState /\ x # NoTx /\ x.pc = "commit" /\ Active(x)
  BY <1>1, TxShape DEF WalletInv, Commit, Active
<1>3. x.op \in Calls /\ Secured(x) /\ x.op.ref \notin processed
  BY <1>1, <1>2 DEF WalletInv, TxOK
<1>4. Shape(x.op)
  BY <1>3, CallShape
<1>5. x.at = Len(Rows(x.op))
  BY <1>2, <1>3 DEF Secured
<1>6. Payable(x.op)
  <2>1. CoveredOp(x.op)
    BY <1>3, <1>5 DEF Secured, CoveredOp
  <2>2. QED
    BY <1>4, <2>1, CoveredPayable
<1>7. \A w \in Open : Delta(x.op, w) = 0 \/ w \in Locks(x)
  <2>1. TAKE w \in Open
  <2>2. CASE Delta(x.op, w) # 0
    <3>1. PICK i \in 1..Len(Rows(x.op)) : Rows(x.op)[i].wallet = w
      BY <1>4, <2>2, DeltaLocal
    <3>2. QED
      BY <1>2, <1>5, <3>1 DEF Locks
  <2>3. QED
    BY <2>2
<1>8. Booked(x.op)
  BY <1>1 DEF Commit, Booked
<1>9. QED
  BY <1>1, <1>2, <1>3, <1>4, <1>6, <1>7, <1>8

LEMMA CommitInv ==
  ASSUME WalletInv, NEW s \in Sessions, Commit(s)
  PROVE  WalletInv'
<1>1. PICK x : x = tx[s]
  OBVIOUS
<1>2. PICK v : v = balance[x.op.to] + Delta(x.op, x.op.to)
  OBVIOUS
<1> DEFINE n == Tx("index", x.op, v)
<1>3. /\ tx' = [tx EXCEPT ![s] = n] /\ indexed' = indexed
      /\ entries' = entries \cup Posts(x.op)
  BY <1>1, <1>2 DEF Commit, Become
<1>4. /\ x.op \in Calls /\ Shape(x.op) /\ Payable(x.op)
      /\ x.op.ref \notin processed /\ Booked(x.op) /\ Active(x)
      /\ \A w \in Open : Delta(x.op, w) = 0 \/ w \in Locks(x)
  BY <1>1, CommitFacts
<1>5. balance \in [Open -> Nat] /\ \A w \in Open : balance[w] + Delta(x.op, w) \in Nat
  BY <1>4, DeltaCovered DEF WalletInv, TypeOK
<1>6. v \in Nat
  BY <1>2, <1>4, <1>5 DEF Payable
<1>7. n.op = x.op /\ n.pc = "index" /\ n \in TxState /\ n # NoTx
  BY <1>4, <1>6 DEF Tx, TxState, Shape, NoTx
<1> HIDE DEF n
<1>8. /\ tx'[s] = n
      /\ \A t \in Sessions \ {s} : tx'[t] = tx[t]
  BY <1>3 DEF WalletInv, TypeOK
<1>9. TypeOK'
  <2>1. balance' \in [Open -> Nat]
    BY <1>4, <1>5 DEF Booked
  <2>2. entries' \subseteq Line
    BY <1>3, <1>4, PostsTyped DEF WalletInv, TypeOK
  <2>3. processed' \subseteq Refs
    BY <1>4 DEF Booked, WalletInv, TypeOK, Shape, Op
  <2>4. tx' \in [Sessions -> TxState \cup {NoTx}] /\ indexed' \in [Open -> Nat]
    BY <1>3, <1>7 DEF WalletInv, TypeOK
  <2>5. QED
    BY <2>1, <2>2, <2>3, <2>4 DEF TypeOK
<1>10. \A t \in Sessions : TxOK(tx[t])'
  <2>1. TxOK(n)'
    BY <1>4, <1>7 DEF TxOK, Active
  <2>2. ASSUME NEW t \in Sessions \ {s} PROVE TxOK(tx[t])'
    <3>1. PICK y : y = tx[t]
      OBVIOUS
    <3>2. TxOK(y) /\ Apart(x, y) /\ tx'[t] = y
      BY <1>1, <1>8, <3>1 DEF WalletInv
    <3>3. CASE ~Active(y)
      BY <3>2, <3>3 DEF TxOK
    <3>4. CASE Active(y)
      <4>1. Secured(y) /\ y.op.ref \notin processed
        BY <3>2, <3>4 DEF TxOK
      <4>2. y.op.ref \notin processed'
        BY <1>4, <3>2, <3>4, <4>1 DEF Apart, Booked
      <4>3. \A i \in 1..y.at : Rows(y.op)[i].wallet \in Locks(y)
        BY <3>4 DEF Locks
      <4>4. \A w \in Open : w \in Locks(y) => balance'[w] = balance[w]
        BY <1>4, <1>5, <3>2, <3>4 DEF Apart, Booked
      <4>5. Secured(y)'
        BY <4>1, <4>3, <4>4 DEF Secured
      <4>6. QED
        BY <3>2, <4>2, <4>5 DEF TxOK
    <3>5. QED
      BY <3>3, <3>4
  <2>3. QED
    BY <1>8, <2>1, <2>2
<1>11. \A t, u \in Sessions : t # u => Apart(tx[t], tx[u])'
  <2>1. TAKE t, u \in Sessions
  <2>2. HAVE t # u
  <2>3. Apart(tx'[t], tx'[u])
    BY <1>7, <1>8, <2>2 DEF WalletInv, Apart, Active
  <2>4. QED
    BY <2>3
<1>12. QED
  BY <1>9, <1>10, <1>11 DEF WalletInv

LEMMA InitInv == Init => WalletInv
<1> SUFFICES ASSUME Init PROVE WalletInv
  OBVIOUS
<1>1. TypeOK
  BY DEF Init, TypeOK, Opening
<1>2. \A s \in Sessions : tx[s] = NoTx
  BY DEF Init
<1>3. QED
  BY <1>1, <1>2, IdleOK DEF WalletInv

LEMMA StopInv == ASSUME WalletInv, Stop PROVE WalletInv'
<1>1. \A s \in Sessions : tx'[s] = NoTx
  BY DEF Stop
<1>2. TypeOK'
  BY DEF WalletInv, TypeOK, Stop
<1>3. QED
  BY <1>1, <1>2 DEF WalletInv, TxOK, Apart, Active, NoTx

LEMMA NextInv == ASSUME WalletInv, [Next]_wvars PROVE WalletInv'
<1>1. ASSUME NEW s \in Sessions, Call(s) PROVE WalletInv'
  BY <1>1, BeginInv DEF Call
<1>2. ASSUME NEW s \in Sessions, Rollback(s) PROVE WalletInv'
  BY <1>2, GoIdleInv DEF Rollback, WalletInv, TypeOK
<1>3. ASSUME NEW s \in Sessions, Index(s) PROVE WalletInv'
  <2>1. tx[s] \in TxState
    BY <1>3, TxShape DEF WalletInv, Index
  <2>2. tx[s].at \in Nat
    BY <2>1 DEF TxState
  <2>3. indexed' \in [Open -> Nat]
    BY <1>3, <2>2 DEF Index, WalletInv, TypeOK
  <2>4. QED
    BY <1>3, <2>3, GoIdleInv DEF Index
<1>4. CASE UNCHANGED wvars
  BY <1>4 DEF wvars, WalletInv, TypeOK, TxOK, Secured, Apart
<1>5. QED
  BY <1>1, <1>2, <1>3, <1>4, MarkInv, LockStepInv, CommitInv, StopInv DEF Next, Work

(* Every variable keeps its type, and no wallet is ever overdrawn: for any *)
(* number of users, references and goroutines, any lock granularity and    *)
(* any failure.                                                            *)
THEOREM WalletTyping == Spec => []TypeOK
<1>1. WalletInv => TypeOK
  BY DEF WalletInv
<1>2. QED
  BY <1>1, InitInv, NextInv, PTL DEF Spec

(* Concurrent transactions, their rollbacks and crashes implement the      *)
(* ledger: operations applied one at a time, each covered by what it finds *)
(* and each reference applied at most once.                                *)
THEOREM WalletImplementsLedger == Spec => Serialized
<1>1. Init => L!Init
  BY DEF Init, L!Init
<1>2. ASSUME WalletInv, [Next]_wvars PROVE [L!Next]_<<balance, processed>>
  <2>1. ASSUME NEW s \in Sessions, Commit(s) PROVE L!Next
    BY <1>2, <2>1, CommitFacts, CommitIsLedgerStep DEF WalletInv, TypeOK
  <2>2. ASSUME NEW s \in Sessions, Call(s) \/ MarkMessageProcessed(s)
                 \/ GetWalletForUpdate(s) \/ Rollback(s) \/ Index(s)
        PROVE  UNCHANGED <<balance, processed>>
    BY <2>2 DEF Call, Begin, MarkMessageProcessed, GetWalletForUpdate, Rollback, Index
  <2>3. CASE Stop \/ UNCHANGED wvars
    BY <2>3 DEF Stop, wvars
  <2>4. QED
    BY <1>2, <2>1, <2>2, <2>3 DEF Next, Work
<1>3. QED
  BY <1>1, <1>2, InitInv, NextInv, PTL DEF Spec, Serialized, L!Spec

LEMMA PostsRef ==
  ASSUME NEW op, Shape(op)
  PROVE  (\A e \in Posts(op) : e.ref = op.ref) /\ \E e \in Posts(op) : TRUE
<1>1. \A type, w, x : Entry(op, type, w, x).ref = op.ref
  BY DEF Entry
<1>2. CASE op.kind = "deposit"
  BY <1>1, <1>2 DEF Posts
<1>3. CASE op.kind = "hold"
  BY <1>1, <1>3 DEF Posts
<1>4. CASE op.kind = "pay"
  BY <1>1, <1>4 DEF Posts
<1>5. CASE op.kind = "transfer"
  BY <1>1, <1>5 DEF Posts
<1>6. QED
  BY <1>2, <1>3, <1>4, <1>5 DEF Shape

(* Entries are written by commits only.                                    *)
LEMMA EntriesStep ==
  ASSUME [Next]_wvars
  PROVE  \/ UNCHANGED <<balance, entries, processed>>
         \/ \E s \in Sessions : Commit(s)
BY DEF Next, Call, Begin, Work, MarkMessageProcessed, GetWalletForUpdate, Rollback, Index,
   Stop, wvars

LEMMA InboxKept ==
  ASSUME WalletInv, InboxAtomic, [Next]_wvars
  PROVE  InboxAtomic'
<1>1. ASSUME NEW s \in Sessions, Commit(s) PROVE InboxAtomic'
  <2>1. PICK op : op = tx[s].op
    OBVIOUS
  <2>2. Shape(op) /\ processed' = processed \cup ({op.ref} \ {NoRef})
    BY <1>1, <2>1, CommitFacts DEF Booked
  <2>3. entries' = entries \cup Posts(op)
    BY <1>1, <2>1 DEF Commit
  <2>4. \A r \in Refs : (\E e \in Posts(op) : e.ref = r) <=> r = op.ref
    BY <2>2, PostsRef
  <2>5. \A r \in Refs : r \in processed' <=> \E e \in entries' : e.ref = r
    BY <2>2, <2>3, <2>4 DEF InboxAtomic
  <2>6. QED
    BY <2>5 DEF InboxAtomic
<1>2. ASSUME UNCHANGED <<entries, processed>> PROVE InboxAtomic'
  BY <1>2 DEF InboxAtomic
<1>3. QED
  BY <1>1, <1>2, EntriesStep

(* A reference is in the inbox exactly when its operation is in the books. *)
THEOREM InboxMatchesBooks == Spec => []InboxAtomic
<1>1. Init => InboxAtomic
  BY DEF Init, InboxAtomic
<1>2. QED
  BY <1>1, InitInv, NextInv, InboxKept, PTL DEF Spec

-----------------------------------------------------------------------------
(* Locks.                                                                  *)

LEMMA NextLocks == ASSUME LocksInv, [Next]_wvars PROVE LocksInv'
<1> WalletInv /\ WalletInv'
  BY NextInv DEF LocksInv
<1> SUFFICES ASSUME Scan, NEW s \in Sessions, NEW t \in Sessions, s # t
             PROVE  Locks(tx'[s]) = {} \/ Locks(tx'[t]) = {}
  BY DEF LocksInv
<1>0. tx \in [Sessions -> TxState \cup {NoTx}] /\ Locks(NoTx) = {}
  BY DEF WalletInv, TypeOK, Locks, Active, NoTx
<1>1. Locks(tx[s]) = {} \/ Locks(tx[t]) = {}
  BY DEF LocksInv
<1>2. ASSUME NEW u \in Sessions, GetWalletForUpdate(u)
      PROVE  Locks(tx'[s]) = {} \/ Locks(tx'[t]) = {}
  <2>1. \A v \in Sessions \ {u} : tx'[v] = tx[v] /\ Locks(tx[v]) = {}
    BY <1>0, <1>2 DEF GetWalletForUpdate, RowFree, Blocks, Become
  <2>2. QED
    BY <2>1
<1>3. ASSUME NEW u \in Sessions, Locks(tx'[u]) = {},
             \A v \in Sessions \ {u} : tx'[v] = tx[v]
      PROVE  Locks(tx'[s]) = {} \/ Locks(tx'[t]) = {}
  BY <1>1, <1>3
<1>4. \A op : Locks(Tx("lock", op, 0)) = {}
  BY DEF Locks, Tx
<1>5. \A op, at : Locks(Tx("mark", op, at)) = {} /\ Locks(Tx("index", op, at)) = {}
  BY DEF Locks, Tx, Active
<1>6. ASSUME NEW u \in Sessions, Call(u) \/ MarkMessageProcessed(u) \/ Commit(u)
                 \/ Rollback(u) \/ Index(u)
      PROVE  Locks(tx'[u]) = {} /\ \A v \in Sessions \ {u} : tx'[v] = tx[v]
  <2>1. PICK n : tx' = [tx EXCEPT ![u] = n] /\ Locks(n) = {}
    <3>1. CASE Call(u)
      BY <1>4, <1>5, <3>1 DEF Call, Begin, Become
    <3>2. CASE MarkMessageProcessed(u)
      BY <1>0, <1>4, <3>2 DEF MarkMessageProcessed, Become
    <3>3. CASE Commit(u)
      BY <1>5, <3>3 DEF Commit, Become
    <3>4. CASE Rollback(u) \/ Index(u)
      BY <1>0, <3>4 DEF Rollback, Index, Become
    <3>5. QED
      BY <1>6, <3>1, <3>2, <3>3, <3>4
  <2>2. QED
    BY <1>0, <2>1
<1>7. CASE Stop
  BY <1>0, <1>7 DEF Stop
<1>8. CASE UNCHANGED wvars
  BY <1>1, <1>8 DEF wvars
<1>9. QED
  BY <1>2, <1>3, <1>6, <1>7, <1>8 DEF Next, Work

(* No two transactions wait for each other: a locking read that locks all  *)
(* it scans leaves nobody else with a lock, so the opposite orders in      *)
(* which holds and payments take the escrow's row never meet.              *)
THEOREM NoDeadlockVictims ==
  ASSUME Scan = TRUE
  PROVE  Spec => []NoLockCycle
<1>1. Init => LocksInv
  <2>1. Locks(NoTx) = {}
    BY DEF Locks, Active, NoTx
  <2>2. QED
    BY <2>1, InitInv DEF Init, LocksInv
<1>2. LocksInv => NoLockCycle
  BY DEF LocksInv, NoLockCycle, WaitsFor, Blocks
<1>3. QED
  BY <1>1, <1>2, NextLocks, PTL DEF Spec

-----------------------------------------------------------------------------
(* The books.                                                              *)

Of(E, w) == {e \in E : e.wallet = w}

LEMMA BalancedByTotals ==
  Balanced <=> \A w \in Open : balance[w] = Opening[w] + Total(Of(entries, w))
BY DEF Balanced, Of

(* One more entry changes the sum of its own wallet.                       *)
LEMMA EntryAdds ==
  ASSUME NEW E, IsFiniteSet(E), NEW e, e \notin E, \A x \in E \cup {e} : x.amount \in Int,
         NEW w
  PROVE  Total(Of(E \cup {e}, w)) = Total(Of(E, w)) + (IF e.wallet = w THEN e.amount ELSE 0)
<1>1. IsFiniteSet(Of(E, w)) /\ e \notin Of(E, w)
  BY FS_Subset DEF Of
<1>2. CASE e.wallet = w
  <2>1. Of(E \cup {e}, w) = Of(E, w) \cup {e}
    BY <1>2 DEF Of
  <2>2. \A x \in Of(E, w) \cup {e} : x.amount \in Int
    BY DEF Of
  <2>3. Total(Of(E, w) \cup {e}) = Total(Of(E, w)) + e.amount
    BY <1>1, <2>2, TotalAdd
  <2>4. QED
    BY <1>2, <2>1, <2>3
<1>3. CASE e.wallet # w
  <2>1. Of(E \cup {e}, w) = Of(E, w)
    BY <1>3 DEF Of
  <2>2. Total(Of(E, w)) \in Int
    <3>1. \A x \in Of(E, w) : x.amount \in Int
      BY DEF Of
    <3>2. QED
      BY <1>1, <3>1, TotalInt
  <2>3. QED
    BY <1>3, <2>1, <2>2
<1>4. QED
  BY <1>2, <1>3

Gain(e, w) == IF e.wallet = w THEN e.amount ELSE 0

LEMMA EntryTaken ==
  ASSUME NEW E, IsFiniteSet(E), E \subseteq Line, NEW e \in Line, e \notin E
  PROVE  /\ IsFiniteSet(E \cup {e}) /\ E \cup {e} \subseteq Line
         /\ \A w : /\ Total(Of(E, w)) \in Int /\ Gain(e, w) \in Int
                  /\ Total(Of(E \cup {e}, w)) = Total(Of(E, w)) + Gain(e, w)
<1>1. \A x \in E \cup {e} : x.amount \in Int
  BY DEF Line
<1>2. IsFiniteSet(E \cup {e})
  BY FS_AddElement
<1>3. ASSUME NEW w PROVE Total(Of(E, w)) \in Int
  <2>1. IsFiniteSet(Of(E, w)) /\ \A x \in Of(E, w) : x.amount \in Int
    BY <1>1, FS_Subset DEF Of
  <2>2. QED
    BY <2>1, TotalInt
<1>4. \A w : Gain(e, w) \in Int
  BY <1>1 DEF Gain
<1>5. \A w : Total(Of(E \cup {e}, w)) = Total(Of(E, w)) + Gain(e, w)
  BY <1>1, EntryAdds DEF Gain
<1>6. QED
  BY <1>2, <1>3, <1>4, <1>5

(* The entries of an operation add up to what it does to the balances.     *)
LEMMA PostsAddUp ==
  ASSUME NEW op, Shape(op), NEW E, IsFiniteSet(E), E \subseteq Line, Posts(op) \cap E = {}
  PROVE  /\ IsFiniteSet(E \cup Posts(op))
         /\ \A w : /\ Total(Of(E, w)) \in Int /\ Delta(op, w) \in Int
                  /\ Total(Of(E \cup Posts(op), w)) = Total(Of(E, w)) + Delta(op, w)
<1>0. op.amount \in Nat /\ op.fare \in Nat /\ (op.kind = "pay" => op.from # Escrow)
  BY DEF Shape, Op
<1>1. \A type, w, x : Entry(op, type, w, x) = [ref |-> op.ref, type |-> type,
                                               wallet |-> w, amount |-> x]
  BY DEF Entry
<1>2. Posts(op) \subseteq Line
  BY PostsTyped
<1>3. CASE op.kind = "deposit"
  <2>1. PICK e : e = Entry(op, 1, op.to, op.amount)
    OBVIOUS
  <2>2. Posts(op) = {e} /\ e \in Line /\ e \notin E
    BY <1>2, <1>3, <2>1 DEF Posts
  <2>3. \A w : Delta(op, w) = Gain(e, w)
    BY <1>1, <1>3, <2>1 DEF Delta, Gain
  <2>4. /\ IsFiniteSet(E \cup {e})
        /\ \A w : /\ Total(Of(E, w)) \in Int /\ Gain(e, w) \in Int
                 /\ Total(Of(E \cup {e}, w)) = Total(Of(E, w)) + Gain(e, w)
    BY <2>2, EntryTaken
  <2>5. QED
    BY <2>2, <2>3, <2>4
<1>4. CASE op.kind \in {"hold", "transfer"}
  <2>1. PICK e, f : /\ Posts(op) = {e, f} /\ e # f
                    /\ e.wallet = op.from /\ e.amount = -op.amount
                    /\ f.wallet = op.to /\ f.amount = op.amount
    <3>1. CASE op.kind = "hold"
      <4>1. Posts(op) = {Entry(op, 5, op.from, -op.amount), Entry(op, 6, op.to, op.amount)}
        BY <3>1 DEF Posts, Shape
      <4>2. QED
        BY <1>1, <4>1
    <3>2. CASE op.kind = "transfer"
      <4>1. Posts(op) = {Entry(op, 3, op.from, -op.amount), Entry(op, 4, op.to, op.amount)}
        BY <3>2 DEF Posts
      <4>2. QED
        BY <1>1, <4>1
    <3>3. QED
      BY <1>4, <3>1, <3>2
  <2>2. e \in Line /\ f \in Line /\ e \notin E /\ f \notin E \cup {e}
    BY <1>2, <2>1
  <2>3. \A w : Delta(op, w) = Gain(e, w) + Gain(f, w)
    <3>1. \A w : Delta(op, w) = Shift(w, op.from, op.to, op.amount)
      BY <1>4 DEF Delta
    <3>2. -op.amount + op.amount = 0 /\ op.amount - op.amount = 0
      BY <1>0
    <3>3. QED
      BY <1>0, <2>1, <3>1, <3>2 DEF Shift, Gain
  <2> DEFINE F == E \cup {e}
  <2>4. /\ IsFiniteSet(F) /\ F \subseteq Line
        /\ \A w : /\ Total(Of(E, w)) \in Int /\ Gain(e, w) \in Int
                 /\ Total(Of(F, w)) = Total(Of(E, w)) + Gain(e, w)
    BY <2>2, EntryTaken
  <2>5. E \cup Posts(op) = F \cup {f} /\ f \notin F
    BY <2>1, <2>2
  <2> HIDE DEF F
  <2>6. /\ IsFiniteSet(F \cup {f})
        /\ \A w : /\ Gain(f, w) \in Int
                 /\ Total(Of(F \cup {f}, w)) = Total(Of(F, w)) + Gain(f, w)
    BY <2>2, <2>4, <2>5, EntryTaken
  <2>7. ASSUME NEW w
        PROVE  /\ Total(Of(E, w)) \in Int /\ Delta(op, w) \in Int
               /\ Total(Of(F \cup {f}, w)) = Total(Of(E, w)) + Delta(op, w)
    <3>1. /\ Total(Of(E, w)) \in Int /\ Gain(e, w) \in Int /\ Gain(f, w) \in Int
          /\ Total(Of(F, w)) = Total(Of(E, w)) + Gain(e, w)
          /\ Total(Of(F \cup {f}, w)) = Total(Of(F, w)) + Gain(f, w)
          /\ Delta(op, w) = Gain(e, w) + Gain(f, w)
      BY <2>3, <2>4, <2>6
    <3>2. QED
      BY <3>1
  <2>8. QED
    BY <2>5, <2>6, <2>7
<1>5. CASE op.kind = "pay"
  <2>1. PICK e : e = Entry(op, 7, Escrow, -op.amount)
    OBVIOUS
  <2>2. PICK f : f = Entry(op, 8, op.to, op.amount)
    OBVIOUS
  <2>3. PICK g : g = Entry(op, 4, op.from, -op.fare)
    OBVIOUS
  <2>4. PICK h : h = Entry(op, 3, op.to, op.fare)
    OBVIOUS
  <2>5. Posts(op) = {e, f, g, h}
    BY <1>5, <2>1, <2>2, <2>3, <2>4 DEF Posts
  <2>6. e # f /\ g # e /\ g # f /\ h # e /\ h # f /\ h # g
    BY <1>1, <2>1, <2>2, <2>3, <2>4
  <2>7. /\ e \in Line /\ f \in Line /\ g \in Line /\ h \in Line
        /\ e \notin E /\ f \notin E /\ g \notin E /\ h \notin E
    BY <1>2, <2>5
  <2>8. \A w : Delta(op, w) = Gain(e, w) + Gain(f, w) + Gain(g, w) + Gain(h, w)
    <3>1. op.to # Escrow
      BY <1>5 DEF Shape
    <3>2. QED
      BY <1>0, <1>1, <1>5, <2>1, <2>2, <2>3, <2>4, <3>1 DEF Delta, Shift, Gain
  <2> DEFINE F == E \cup {e}
             G == F \cup {f}
             H == G \cup {g}
  <2>9. /\ IsFiniteSet(F) /\ F \subseteq Line /\ f \notin F
        /\ \A w : /\ Total(Of(E, w)) \in Int /\ Gain(e, w) \in Int
                 /\ Total(Of(F, w)) = Total(Of(E, w)) + Gain(e, w)
    BY <2>6, <2>7, EntryTaken
  <2>10. g \notin G /\ h \notin H /\ E \cup Posts(op) = H \cup {h}
    BY <2>5, <2>6, <2>7
  <2> HIDE DEF F
  <2>11. /\ IsFiniteSet(G) /\ G \subseteq Line
         /\ \A w : /\ Gain(f, w) \in Int
                  /\ Total(Of(G, w)) = Total(Of(F, w)) + Gain(f, w)
    BY <2>7, <2>9, EntryTaken
  <2> HIDE DEF G
  <2>12. /\ IsFiniteSet(H) /\ H \subseteq Line
         /\ \A w : /\ Gain(g, w) \in Int
                  /\ Total(Of(H, w)) = Total(Of(G, w)) + Gain(g, w)
    BY <2>7, <2>10, <2>11, EntryTaken
  <2> HIDE DEF H
  <2>13. /\ IsFiniteSet(H \cup {h})
         /\ \A w : /\ Gain(h, w) \in Int
                  /\ Total(Of(H \cup {h}, w)) = Total(Of(H, w)) + Gain(h, w)
    BY <2>7, <2>10, <2>12, EntryTaken
  <2>14. ASSUME NEW w
         PROVE  /\ Total(Of(E, w)) \in Int /\ Delta(op, w) \in Int
                /\ Total(Of(H \cup {h}, w)) = Total(Of(E, w)) + Delta(op, w)
    <3>1. /\ Total(Of(E, w)) \in Int /\ Gain(e, w) \in Int /\ Gain(f, w) \in Int
          /\ Gain(g, w) \in Int /\ Gain(h, w) \in Int
          /\ Total(Of(F, w)) = Total(Of(E, w)) + Gain(e, w)
          /\ Total(Of(G, w)) = Total(Of(F, w)) + Gain(f, w)
          /\ Total(Of(H, w)) = Total(Of(G, w)) + Gain(g, w)
          /\ Total(Of(H \cup {h}, w)) = Total(Of(H, w)) + Gain(h, w)
          /\ Delta(op, w) = Gain(e, w) + Gain(f, w) + Gain(g, w) + Gain(h, w)
      BY <2>8, <2>9, <2>11, <2>12, <2>13
    <3>2. QED
      BY <3>1
  <2>15. QED
    BY <2>10, <2>13, <2>14
<1>6. QED
  BY <1>3, <1>4, <1>5 DEF Shape

(* Different operations write different entries.                           *)
LEMMA DepositsDiffer ==
  ASSUME NEW op \in Calls, NEW op2 \in Calls, op.kind = "deposit", op2 # op
  PROVE  Posts(op) \cap Posts(op2) = {}
<1>1. \A type, w, x : Entry(op, type, w, x) = [ref |-> op.ref, type |-> type,
                                               wallet |-> w, amount |-> x]
  BY DEF Entry
<1>2. PICK u \in Parties, x \in Amounts : op = Deposit(u, x)
  BY DEF Calls, HoldDeposit, ReleaseAndPay, TransferMoney
<1>3. Posts(op) = {[ref |-> NoRef, type |-> 1, wallet |-> u, amount |-> x]}
  BY <1>2 DEF Deposit, Posts, Entry
<1>4. CASE op2.kind = "deposit"
  <2>1. PICK v \in Parties, y \in Amounts : op2 = Deposit(v, y)
    BY <1>4 DEF Calls, HoldDeposit, ReleaseAndPay, TransferMoney
  <2>2. Posts(op2) = {[ref |-> NoRef, type |-> 1, wallet |-> v, amount |-> y]}
    BY <2>1 DEF Deposit, Posts, Entry
  <2>3. u # v \/ x # y
    BY <1>2, <2>1
  <2>4. QED
    BY <1>3, <2>2, <2>3
<1>5. CASE op2.kind # "deposit"
  <2>1. Shape(op2) /\ op2.ref # NoRef
    BY <1>5, CallShape DEF Shape
  <2>2. QED
    BY <1>3, <2>1, PostsRef
<1>6. QED
  BY <1>4, <1>5

(* What a transaction is about to write is not in the books yet.           *)
LEMMA PostsNew ==
  ASSUME WalletInv, InboxAtomic, NewDeposits, NEW s \in Sessions, Commit(s)
  PROVE  Posts(tx[s].op) \cap entries = {}
<1>1. PICK op : op = tx[s].op
  OBVIOUS
<1>2. op \in Calls /\ Shape(op) /\ op.ref \notin processed /\ Active(tx[s])
  BY <1>1, CommitFacts
<1>3. CASE op.kind = "deposit"
  BY <1>1, <1>2, <1>3 DEF NewDeposits
<1>4. CASE op.kind # "deposit"
  <2>1. op.ref \in Refs
    BY <1>2, <1>4 DEF Shape
  <2>2. \A e \in entries : e.ref # op.ref
    BY <1>2, <2>1 DEF InboxAtomic
  <2>3. QED
    BY <1>1, <1>2, <2>2, PostsRef
<1>5. QED
  BY <1>3, <1>4

(* A transaction becomes active at its call or its mark and keeps its      *)
(* operation; what it may become is one of these.                          *)
LEMMA ActiveStep ==
  ASSUME WalletInv, [Next]_wvars, NEW s \in Sessions, Active(tx'[s])
  PROVE  \/ Active(tx[s]) /\ tx'[s].op = tx[s].op
         \/ tx[s].pc = "mark" /\ tx'[s].op = tx[s].op /\ tx[s].op.ref # NoRef
         \/ /\ tx[s] = NoTx /\ tx'[s].op \in Calls
            /\ tx'[s].op.kind = "deposit" => FirstDeposit(tx'[s].op)
<1>0. tx \in [Sessions -> TxState \cup {NoTx}] /\ ~Active(NoTx)
  BY DEF WalletInv, TypeOK, Active, NoTx
<1>1. ASSUME NEW t \in Sessions, Call(t), t = s
      PROVE  /\ tx[s] = NoTx /\ tx'[s].op \in Calls
             /\ tx'[s].op.kind = "deposit" => FirstDeposit(tx'[s].op)
  <2>1. PICK op \in Calls : (op.kind = "deposit" => FirstDeposit(op)) /\ Begin(s, op)
    BY <1>1 DEF Call
  <2>2. tx[s] = NoTx /\ tx'[s].op = op
    BY <1>0, <2>1 DEF Begin, Become, Tx
  <2>3. QED
    BY <2>1, <2>2
<1>2. ASSUME NEW t \in Sessions, t = s, MarkMessageProcessed(t)
      PROVE  tx[s].pc = "mark" /\ tx'[s].op = tx[s].op /\ tx[s].op.ref # NoRef
  <2>1. TxOK(tx[s]) /\ tx[s].pc = "mark"
    BY <1>2 DEF WalletInv, MarkMessageProcessed
  <2>2. tx'[s] = Tx("lock", tx[s].op, 0)
    BY <1>0, <1>2 DEF MarkMessageProcessed, Become
  <2>3. QED
    BY <2>1, <2>2 DEF TxOK, Tx
<1>3. ASSUME NEW t \in Sessions, t = s, GetWalletForUpdate(t)
      PROVE  Active(tx[s]) /\ tx'[s].op = tx[s].op
  BY <1>0, <1>3 DEF GetWalletForUpdate, Become, Tx, Active
<1>4. ASSUME NEW t \in Sessions, t = s, Commit(t) \/ Rollback(t) \/ Index(t) PROVE FALSE
  BY <1>0, <1>4 DEF Commit, Rollback, Index, Become, Tx, Active
<1>5. ASSUME NEW t \in Sessions, t # s, Call(t) \/ Work(t)
      PROVE  tx'[s] = tx[s]
  BY <1>0, <1>5 DEF Call, Begin, Work, MarkMessageProcessed, GetWalletForUpdate, Commit,
     Rollback, Index, Become
<1>6. ~Stop
  BY <1>0 DEF Stop
<1>7. QED
  BY <1>1, <1>2, <1>3, <1>4, <1>5, <1>6 DEF Next, Work, wvars

LEMMA NewDepositsKept ==
  ASSUME WalletInv, InboxAtomic, NewDeposits, [Next]_wvars
  PROVE  NewDeposits'
<1> SUFFICES ASSUME NEW s \in Sessions, Active(tx'[s]), tx'[s].op.kind = "deposit"
             PROVE  /\ Posts(tx'[s].op) \cap entries' = {}
                    /\ \A t \in Sessions \ {s} :
                         Active(tx'[t]) => tx'[t].op # tx'[s].op
  BY DEF NewDeposits
<1>1. PICK op : op = tx'[s].op
  OBVIOUS
<1>2. ASSUME NEW t \in Sessions, tx[t] # NoTx
      PROVE  tx[t].op \in Calls /\ Shape(tx[t].op)
  BY <1>2, CallShape DEF WalletInv, TxOK
<1>3. NoTx.pc = "idle"
  BY DEF NoTx
<1>4. \/ Active(tx[s]) /\ op = tx[s].op
      \/ tx[s] = NoTx /\ op \in Calls /\ FirstDeposit(op)
  <2>1. ASSUME tx[s].pc = "mark", op = tx[s].op, op.ref # NoRef PROVE FALSE
    BY <1>1, <1>2, <1>3, <2>1 DEF Shape
  <2>2. QED
    BY <1>1, <2>1, ActiveStep
<1>5. op \in Calls
  BY <1>2, <1>3, <1>4 DEF Active
<1>6. Posts(op) \cap entries = {}
  BY <1>1, <1>4 DEF FirstDeposit, NewDeposits
<1>7. ASSUME NEW t \in Sessions, t # s, tx[t].op = op, Active(tx[t]) PROVE FALSE
  BY <1>1, <1>3, <1>4, <1>7 DEF FirstDeposit, NewDeposits, Active
<1>8. Posts(op) \cap entries' = {}
  <2>1. ASSUME NEW t \in Sessions, Commit(t) PROVE Posts(op) \cap entries' = {}
    <3>1. Active(tx[t]) /\ tx[t].op \in Calls /\ entries' = entries \cup Posts(tx[t].op)
      BY <2>1, CommitFacts DEF Commit
    <3>2. t # s
      BY <2>1 DEF WalletInv, TypeOK, Commit, Become, Tx, Active
    <3>3. Posts(op) \cap Posts(tx[t].op) = {}
      BY <1>1, <1>5, <1>7, <3>1, <3>2, DepositsDiffer
    <3>4. QED
      BY <1>6, <3>1, <3>3
  <2>2. QED
    BY <1>6, <2>1, EntriesStep
<1>9. ASSUME NEW t \in Sessions, t # s, Active(tx'[t]), tx'[t].op = op PROVE FALSE
  <2>1. \/ Active(tx[t]) /\ op = tx[t].op
        \/ tx[t] = NoTx /\ op \in Calls /\ FirstDeposit(op)
    <3>1. ASSUME tx[t].pc = "mark", op = tx[t].op, op.ref # NoRef PROVE FALSE
      BY <1>1, <1>2, <1>3, <3>1 DEF Shape
    <3>2. QED
      BY <1>1, <1>9, <3>1, ActiveStep
  <2>2. tx[t] = NoTx /\ tx[s] # NoTx => tx[s].op # op
    BY <1>7, <1>9, <2>1 DEF FirstDeposit
  <2>3. tx[s] = NoTx /\ tx[t] = NoTx
    BY <1>3, <1>4, <1>7, <1>9, <2>1, <2>2 DEF Active
  <2>4. \A u, v \in Sessions : u # v => tx'[u] = tx[u] \/ tx'[v] = tx[v]
           \/ ~Active(tx'[u])
    BY DEF WalletInv, TypeOK, Next, Call, Begin, Work, MarkMessageProcessed,
       GetWalletForUpdate, Commit, Rollback, Index, Become, Stop, wvars, Active, NoTx
  <2>5. QED
    BY <1>3, <1>9, <2>3, <2>4 DEF Active
<1>10. QED
  BY <1>1, <1>8, <1>9

LEMMA OpeningInt == \A w \in Open : Opening[w] \in Nat
BY DEF Opening

LEMMA NextBooks == ASSUME BooksInv, [Next]_wvars PROVE BooksInv'
<1>1. WalletInv /\ InboxAtomic /\ NewDeposits
  BY DEF BooksInv
<1>2. WalletInv' /\ InboxAtomic' /\ NewDeposits'
  BY <1>1, NextInv, InboxKept, NewDepositsKept
<1>3. ASSUME NEW s \in Sessions, Commit(s) PROVE IsFiniteSet(entries)' /\ Balanced'
  <2>1. PICK op : op = tx[s].op
    OBVIOUS
  <2>2. /\ Shape(op) /\ Posts(op) \cap entries = {}
        /\ balance' = [w \in Open |-> balance[w] + Delta(op, w)]
        /\ entries' = entries \cup Posts(op)
    BY <1>1, <1>3, <2>1, CommitFacts, PostsNew DEF Commit
  <2>3. IsFiniteSet(entries) /\ entries \subseteq Line
    BY DEF BooksInv, WalletInv, TypeOK
  <2>4. /\ IsFiniteSet(entries')
        /\ \A w : /\ Total(Of(entries, w)) \in Int /\ Delta(op, w) \in Int
                 /\ Total(Of(entries', w)) = Total(Of(entries, w)) + Delta(op, w)
    BY <2>2, <2>3, PostsAddUp
  <2>5. ASSUME NEW w \in Open PROVE balance'[w] = Opening[w] + Total(Of(entries', w))
    <3>1. PICK x, y, z : x = Total(Of(entries, w)) /\ y = Delta(op, w) /\ z = Opening[w]
      OBVIOUS
    <3>2. x \in Int /\ y \in Int /\ z \in Int /\ Total(Of(entries', w)) = x + y
      BY <2>4, <3>1, OpeningInt
    <3>3. balance[w] = z + x
      BY <3>1, BalancedByTotals DEF BooksInv
    <3>4. balance'[w] = z + x + y
      BY <2>2, <3>1, <3>3
    <3>5. QED
      BY <3>1, <3>2, <3>4
  <2>6. QED
    BY <2>4, <2>5 DEF Balanced, Of
<1>4. ASSUME UNCHANGED <<balance, entries>> PROVE IsFiniteSet(entries)' /\ Balanced'
  BY <1>4 DEF BooksInv, Balanced
<1>5. QED
  BY <1>2, <1>3, <1>4, EntriesStep DEF BooksInv

(* The books explain every balance: whatever runs concurrently, fails or   *)
(* is rolled back, a wallet holds its opening balance and the sum of its   *)
(* entries (the bound FirstDeposit keeps equal deposits apart).            *)
THEOREM BooksBalance == Spec => []Balanced
<1>1. Init => BooksInv
  <2> SUFFICES ASSUME Init PROVE BooksInv
    OBVIOUS
  <2>1. entries = {} /\ balance = Opening /\ \A s \in Sessions : ~Active(tx[s])
    BY DEF Init, Active, NoTx
  <2>2. \A w : Of({}, w) = {}
    BY DEF Of
  <2>3. Balanced
    <3>1. ASSUME NEW w \in Open PROVE balance[w] = Opening[w] + Total(Of(entries, w))
      <4>1. Total(Of(entries, w)) = 0
        BY <2>1, <2>2, TotalEmpty
      <4>2. QED
        BY <2>1, <4>1, OpeningInt
    <3>2. QED
      BY <3>1, BalancedByTotals
  <2>4. InboxAtomic /\ NewDeposits /\ IsFiniteSet(entries)
    BY <2>1, FS_EmptySet DEF Init, InboxAtomic, NewDeposits
  <2>5. QED
    BY <2>3, <2>4, InitInv DEF BooksInv
<1>2. BooksInv => Balanced
  BY DEF BooksInv
<1>3. QED
  BY <1>1, <1>2, NextBooks, PTL DEF Spec
=============================================================================
