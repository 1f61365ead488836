--------------------------- MODULE AccountProofs ---------------------------
(* Proofs about Account.                                                   *)
EXTENDS AccountInv, FiniteSetTheorems, TLAPS

(* The parts of the invariant.  Watch alone writes crossed.                *)
RowsOK ==
  /\ row \in Versions \cup {"none"}
  /\ profile \in Versions \cup {"none"}
  /\ book \in Books
  /\ device \in Owners \cup {"none"}
HistoryOK == excused \in BOOLEAN /\ cut \in BOOLEAN
ThreadsOK == th \in [Callers -> Task]
CacheOK == cache \in Copies \cup {None}
Registering == \E c \in Callers : th[c].pc = "profile"

StepInv == /\ kind \in Kinds /\ RowsOK /\ HistoryOK /\ ThreadsOK /\ CacheOK
           /\ StaleOnlyByRace /\ WholeAccount

LEMMA Parts == AccountInvariant <=> StepInv /\ crossed \in BOOLEAN /\ DefaultsOK
BY DEF AccountInvariant, TypeOK, StepInv, RowsOK, HistoryOK, ThreadsOK, CacheOK

-----------------------------------------------------------------------------
(* Tasks and copies.                                                       *)

LEMMA TaskShape ==
  ASSUME NEW t \in Task
  PROVE  /\ t.pc = "idle" => t = Idle
         /\ t.pc = "store" => t.copy \in Copies
         /\ t.pc = "drop" => t.next \in {Idle} \cup Writing
         /\ t.pc \in {"clear", "write"} => t \in Writing
         /\ t.pc = "device" => t.owner \in Owners /\ t.seen \in Owners \cup {"none"}
         /\ t.pc = "unregister" => t.seen \in Owners
BY DEF Task, Writing, Idle

LEMMA TaskMade ==
  /\ Idle \in Task /\ [pc |-> "profile"] \in Task /\ [pc |-> "ensured"] \in Task
  /\ \A copy \in Copies : [pc |-> "store", copy |-> copy] \in Task
  /\ \A n \in {Idle} \cup Writing : n \in Task /\ [pc |-> "drop", next |-> n] \in Task
  /\ \A o \in Owners, s \in Owners \cup {"none"} :
       [pc |-> "device", owner |-> o, seen |-> s] \in Task
  /\ \A s \in Owners : [pc |-> "unregister", seen |-> s] \in Task
BY DEF Task, Idle

LEMMA KindsAre == kind \in Kinds => kind \in {"user", "phone", "profile", "addresses", "devices"}
BY AccountConstants

LEMMA SameKind ==
  ASSUME kind' = kind
  PROVE  Copies' = Copies /\ Task' = Task
BY DEF Copies, Task, Books, Writing

LEMMA TruthIs ==
  /\ kind \in {"user", "phone"} => Truth = row
  /\ kind = "profile" => Truth = profile
  /\ kind = "addresses" => Truth = book
  /\ kind = "devices" => Truth = (device = "ours")
BY DEF Truth

LEMMA TruthIsNext ==
  /\ kind' \in {"user", "phone"} => Truth' = row'
  /\ kind' = "profile" => Truth' = profile'
  /\ kind' = "addresses" => Truth' = book'
  /\ kind' = "devices" => Truth' = (device' = "ours")
BY DEF Truth

LEMMA TruthSame ==
  ASSUME UNCHANGED kind, UNCHANGED tables
  PROVE  Truth' = Truth
BY DEF tables, Truth

(* One caller moves on.                                                    *)
LEMMA Moved ==
  ASSUME ThreadsOK, kind' = kind, NEW c \in Callers, NEW t \in Task, Goto(c, t)
  PROVE  /\ ThreadsOK'
         /\ th'[c] = t /\ \A o \in Callers \ {c} : th'[o] = th[o]
         /\ t.pc = "drop" => Dropping'
         /\ Dropping => Dropping' \/ th[c].pc = "drop"
         /\ t.pc = "profile" => Registering'
         /\ Registering => Registering' \/ th[c].pc = "profile"
<1>1. th'[c] = t /\ \A o \in Callers \ {c} : th'[o] = th[o]
  BY DEF ThreadsOK, Goto
<1>2. ThreadsOK'
  BY SameKind DEF ThreadsOK, Goto
<1>3. QED
  BY <1>1, <1>2 DEF Dropping, Registering

(* The account stays as it is.                                             *)
LEMMA WholeQuiet ==
  ASSUME WholeAccount, UNCHANGED tables, cut => cut',
         Registering => Registering' \/ cut' \/ ~Open \/ profile # "none"
  PROVE  WholeAccount'
BY DEF WholeAccount, tables, Open, Registering

-----------------------------------------------------------------------------
(* Steps that change no table.                                             *)

LEMMA QuietKeeps ==
  ASSUME StepInv, kind' = kind, NEW c \in Callers, NEW t \in Task, Goto(c, t),
         UNCHANGED <<tables, cache, excused, cut>>,
         th[c].pc \notin {"drop", "profile"}
  PROVE  StepInv'
<1>1. /\ kind \in Kinds /\ RowsOK /\ HistoryOK /\ ThreadsOK /\ CacheOK
      /\ StaleOnlyByRace /\ WholeAccount
  BY DEF StepInv
<1>2. /\ ThreadsOK' /\ (Dropping => Dropping') /\ (Registering => Registering')
  BY <1>1, Moved
<1>3. RowsOK' /\ HistoryOK' /\ CacheOK'
  BY <1>1, SameKind DEF RowsOK, HistoryOK, CacheOK, tables, Books
<1>4. StaleOnlyByRace'
  BY <1>1, <1>2, TruthSame DEF StaleOnlyByRace
<1>5. WholeAccount'
  BY <1>1, <1>2, WholeQuiet
<1>6. QED
  BY <1>1, <1>2, <1>3, <1>4, <1>5 DEF StepInv

LEMMA CallKeeps ==
  ASSUME StepInv, kind' = kind, NEW c \in Callers,
         \/ Read(c) \/ AlreadyExists(c) \/ LoggedIn(c) \/ DeleteDevice(c)
         \/ \E a \in Addresses, default \in BOOLEAN :
              CreateAddress(c, a, default) \/ UpdateAddress(c, a, default)
         \/ \E owner \in Owners : RegisterDevice(c, owner)
  PROVE  StepInv'
<1>1. RowsOK /\ kind \in {"user", "phone", "profile", "addresses", "devices"}
  BY KindsAre DEF StepInv
<1>2. th[c].pc \in {"idle", "ensured"} /\ UNCHANGED <<tables, cache, excused, cut>>
  <2>1. Idle.pc = "idle"
    BY DEF Idle
  <2>2. ASSUME NEW a \in Addresses, NEW default \in BOOLEAN,
               CreateAddress(c, a, default) \/ UpdateAddress(c, a, default)
        PROVE  <1>2
    BY <2>1, <2>2 DEF CreateAddress, UpdateAddress
  <2>3. ASSUME NEW owner \in Owners, RegisterDevice(c, owner)
        PROVE  <1>2
    BY <2>1, <2>3 DEF RegisterDevice
  <2>4. CASE Read(c) \/ AlreadyExists(c) \/ LoggedIn(c) \/ DeleteDevice(c)
    BY <2>1, <2>4 DEF Read, AlreadyExists, LoggedIn, DeleteDevice
  <2>5. QED
    BY <2>2, <2>3, <2>4
<1> SUFFICES \E t \in Task : Goto(c, t)
  BY <1>2, QuietKeeps
<1>3. CASE Read(c)
  <2>1. Truth \in Copies
    BY <1>1, <1>3, TruthIs DEF Read, Found, Open, Copies, RowsOK
  <2>2. QED
    BY <1>3, <2>1, TaskMade DEF Read
<1>4. CASE AlreadyExists(c) \/ LoggedIn(c)
  BY <1>4, TaskMade DEF AlreadyExists, LoggedIn
<1>5. CASE DeleteDevice(c)
  BY <1>1, <1>5, TaskMade DEF DeleteDevice, RowsOK
<1>6. ASSUME NEW a \in Addresses, NEW default \in BOOLEAN,
             CreateAddress(c, a, default) \/ UpdateAddress(c, a, default)
      PROVE  \E t \in Task : Goto(c, t)
  <2>1. PICK fresh \in BOOLEAN : Set(c, a, default, fresh)
    BY <1>6 DEF CreateAddress, UpdateAddress
  <2> DEFINE t == [pc |-> IF default /\ book[a] # "default" THEN "clear" ELSE "write",
                   address |-> a, default |-> default, fresh |-> fresh]
  <2>2. t \in Writing
    BY DEF Writing
  <2>3. t \in Task /\ Goto(c, t)
    BY <2>1, <2>2, TaskMade DEF Set
  <2>4. QED
    BY <2>3
<1>7. ASSUME NEW owner \in Owners, RegisterDevice(c, owner)
      PROVE  \E t \in Task : Goto(c, t)
  BY <1>1, <1>7, TaskMade DEF RegisterDevice, RowsOK
<1>8. QED
  BY <1>3, <1>4, <1>5, <1>6, <1>7

LEMMA StoreKeeps ==
  ASSUME StepInv, kind' = kind, NEW c \in Callers, Store(c)
  PROVE  StepInv'
<1>1. /\ kind \in Kinds /\ RowsOK /\ HistoryOK /\ ThreadsOK /\ CacheOK
      /\ StaleOnlyByRace /\ WholeAccount
  BY DEF StepInv
<1>2. /\ th[c] \in Task /\ th[c].pc = "store" /\ th[c].copy \in Copies
      /\ Goto(c, Idle) /\ UNCHANGED <<tables, cut>>
  BY <1>1, TaskShape DEF Store, ThreadsOK
<1>3. /\ ThreadsOK' /\ (Dropping => Dropping') /\ (Registering => Registering')
  BY <1>1, <1>2, TaskMade, Moved
<1>4. RowsOK' /\ HistoryOK' /\ CacheOK'
  BY <1>1, <1>2, SameKind DEF RowsOK, HistoryOK, CacheOK, tables, Books, Store
<1>5. StaleOnlyByRace'
  BY <1>1, <1>2, <1>3, TruthSame DEF StaleOnlyByRace, Store
<1>6. WholeAccount'
  BY <1>1, <1>2, <1>3, WholeQuiet
<1>7. QED
  BY <1>1, <1>3, <1>4, <1>5, <1>6 DEF StepInv

LEMMA DropCopyKeeps ==
  ASSUME StepInv, kind' = kind, NEW c \in Callers, DropCopy(c)
  PROVE  StepInv'
<1>1. /\ kind \in Kinds /\ RowsOK /\ HistoryOK /\ ThreadsOK /\ CacheOK
      /\ StaleOnlyByRace /\ WholeAccount
  BY DEF StepInv
<1>2. /\ th[c] \in Task /\ th[c].pc = "drop" /\ th[c].next \in Task
      /\ Goto(c, th[c].next) /\ UNCHANGED <<tables, cut>>
  BY <1>1, TaskShape, TaskMade DEF DropCopy, ThreadsOK
<1>3. /\ ThreadsOK' /\ (Registering => Registering')
  BY <1>1, <1>2, Moved
<1>4. RowsOK' /\ HistoryOK' /\ CacheOK'
  BY <1>1, <1>2, SameKind DEF RowsOK, HistoryOK, CacheOK, tables, Books, DropCopy
<1>5. StaleOnlyByRace'
  BY DEF StaleOnlyByRace, DropCopy
<1>6. WholeAccount'
  BY <1>1, <1>2, <1>3, WholeQuiet
<1>7. QED
  BY <1>1, <1>3, <1>4, <1>5, <1>6 DEF StepInv

LEMMA FailKeeps ==
  ASSUME StepInv, kind' = kind, NEW c \in Callers, Fail(c)
  PROVE  StepInv'
<1>1. /\ kind \in Kinds /\ RowsOK /\ HistoryOK /\ ThreadsOK /\ CacheOK
      /\ StaleOnlyByRace /\ WholeAccount
  BY DEF StepInv
<1>2. /\ th[c].pc # "drop" /\ Goto(c, Idle) /\ UNCHANGED <<tables, cache, excused>>
      /\ cut' = (cut \/ (th[c].pc = "profile" /\ Open /\ profile = "none"))
  BY DEF Fail
<1>3. /\ ThreadsOK' /\ (Dropping => Dropping')
      /\ Registering => Registering' \/ th[c].pc = "profile"
  BY <1>1, <1>2, TaskMade, Moved
<1>4. RowsOK' /\ HistoryOK' /\ CacheOK'
  BY <1>1, <1>2, SameKind DEF RowsOK, HistoryOK, CacheOK, tables, Books
<1>5. StaleOnlyByRace'
  BY <1>1, <1>2, <1>3, TruthSame DEF StaleOnlyByRace
<1>6. WholeAccount'
  BY <1>1, <1>2, <1>3, WholeQuiet
<1>7. QED
  BY <1>1, <1>3, <1>4, <1>5, <1>6 DEF StepInv

LEMMA ExpireKeeps ==
  ASSUME StepInv, kind' = kind, Expire
  PROVE  StepInv'
<1>1. /\ UNCHANGED <<tables, th, cut>> /\ cache' = None /\ excused' = FALSE
  BY DEF Expire
<1>2. Registering' = Registering
  BY <1>1 DEF Registering
<1>3. WholeAccount'
  BY <1>1, <1>2, WholeQuiet DEF StepInv
<1>4. QED
  BY <1>1, <1>3, SameKind
     DEF StepInv, RowsOK, HistoryOK, ThreadsOK, CacheOK, tables, Books, StaleOnlyByRace

LEMMA CrashKeeps ==
  ASSUME StepInv, kind' = kind, Crash
  PROVE  StepInv'
<1>1. /\ kind \in Kinds /\ RowsOK /\ HistoryOK /\ ThreadsOK /\ CacheOK
      /\ StaleOnlyByRace /\ WholeAccount
  BY DEF StepInv
<1>2. /\ UNCHANGED <<tables, cache>> /\ th' = [c \in Callers |-> Idle]
      /\ cut' = (cut \/ (Open /\ profile = "none"))
      /\ excused' = (excused \/ Dropping)
  BY DEF Crash
<1>3. ThreadsOK'
  BY <1>1, <1>2, SameKind, TaskMade DEF ThreadsOK
<1>4. RowsOK' /\ HistoryOK' /\ CacheOK'
  BY <1>1, <1>2, SameKind DEF RowsOK, HistoryOK, CacheOK, tables, Books
<1>5. StaleOnlyByRace'
  BY <1>1, <1>2, TruthSame DEF StaleOnlyByRace
<1>6. WholeAccount'
  BY <1>1, <1>2, WholeQuiet
<1>7. QED
  BY <1>1, <1>3, <1>4, <1>5, <1>6 DEF StepInv

-----------------------------------------------------------------------------
(* Writes.                                                                 *)

LEMMA DropIs ==
  ASSUME NEW kinds, NEW n \in {Idle} \cup Writing
  PROVE  /\ Drop(kinds, n) \in Task
         /\ kind \in kinds => Drop(kinds, n) = [pc |-> "drop", next |-> n]
         /\ kind \notin kinds => Drop(kinds, n) = n
         /\ n.pc \in {"idle", "clear", "write"}
BY TaskMade DEF Drop, Writing, Idle

(* A write whose call goes on, or whose answer is lost.                    *)
LEMMA WroteKeeps ==
  ASSUME StepInv, kind' = kind, NEW c \in Callers,
         NEW kinds, NEW n \in {Idle} \cup Writing,
         Wrote(c, Drop(kinds, n)),
         th[c].pc \notin {"drop", "profile"},
         cache' = cache, RowsOK', cut' \in BOOLEAN,
         kind \in kinds \/ Truth' = Truth,
         (Registering => Registering') => WholeAccount'
  PROVE  StepInv'
<1>1. /\ kind \in Kinds /\ RowsOK /\ HistoryOK /\ ThreadsOK /\ CacheOK
      /\ StaleOnlyByRace /\ WholeAccount
  BY DEF StepInv
<1> DEFINE t == Drop(kinds, n)
<1>2. t \in Task /\ (kind \in kinds <=> t.pc = "drop")
  BY DropIs
<1>3. CASE Goto(c, t) /\ UNCHANGED excused
  <2>1. /\ ThreadsOK' /\ (Dropping => Dropping') /\ (Registering => Registering')
        /\ kind \in kinds => Dropping'
    BY <1>1, <1>2, <1>3, Moved
  <2>2. StaleOnlyByRace'
    BY <1>1, <1>3, <2>1 DEF StaleOnlyByRace
  <2>3. QED
    BY <1>1, <1>3, <2>1, <2>2, SameKind DEF StepInv, HistoryOK, CacheOK
<1>4. CASE Goto(c, Idle) /\ excused' = (excused \/ t.pc = "drop")
  <2>1. /\ ThreadsOK' /\ (Dropping => Dropping') /\ (Registering => Registering')
    BY <1>1, <1>4, TaskMade, Moved
  <2>2. StaleOnlyByRace'
    BY <1>1, <1>2, <1>4, <2>1 DEF StaleOnlyByRace
  <2>3. QED
    BY <1>1, <1>4, <2>1, <2>2, SameKind DEF StepInv, HistoryOK, CacheOK
<1>5. QED
  BY <1>3, <1>4 DEF Wrote

LEMMA UpdateKeeps ==
  ASSUME StepInv, kind' = kind, NEW c \in Callers, UpdateUser(c) \/ UpdateProfile(c)
  PROVE  StepInv'
<1>1. /\ kind \in {"user", "phone", "profile", "addresses", "devices"}
      /\ RowsOK /\ HistoryOK /\ WholeAccount /\ Idle \in {Idle} \cup Writing
  BY KindsAre DEF StepInv
<1>2. CASE UpdateUser(c)
  <2>1. /\ th[c].pc = "idle" /\ Open /\ row' \in Versions
        /\ UNCHANGED <<profile, book, device, cache, cut>>
        /\ Wrote(c, Drop({"user", "phone", "profile"}, Idle))
    BY <1>2 DEF UpdateUser, Idle
  <2>2. RowsOK'
    BY <1>1, <2>1 DEF RowsOK, Books
  <2>3. kind \in {"user", "phone", "profile"} \/ Truth' = Truth
    BY <1>1, <2>1, TruthIs, TruthIsNext
  <2>4. (Registering => Registering') => WholeAccount'
    BY <1>1, <2>1 DEF WholeAccount, Open, Registering
  <2>5. QED
    BY <1>1, <2>1, <2>2, <2>3, <2>4, WroteKeeps DEF HistoryOK
<1>3. CASE UpdateProfile(c)
  <2>1. /\ th[c].pc = "idle" /\ profile # "none" /\ profile' \in Versions
        /\ UNCHANGED <<row, book, device, cache, cut>>
        /\ Wrote(c, Drop({"profile"}, Idle))
    BY <1>3 DEF UpdateProfile, Idle
  <2>2. RowsOK'
    BY <1>1, <2>1 DEF RowsOK, Books
  <2>3. kind \in {"profile"} \/ Truth' = Truth
    BY <1>1, <2>1, TruthIs, TruthIsNext
  <2>4. (Registering => Registering') => WholeAccount'
    BY <1>1, <2>1 DEF WholeAccount, Open, Versions
  <2>5. QED
    BY <1>1, <2>1, <2>2, <2>3, <2>4, WroteKeeps DEF HistoryOK
<1>4. QED
  BY <1>2, <1>3

LEMMA DeleteUserKeeps ==
  ASSUME StepInv, kind' = kind, NEW c \in Callers, DeleteUser(c)
  PROVE  StepInv'
<1> DEFINE all == {"user", "phone", "profile", "addresses", "devices"}
<1>1. kind \in all /\ RowsOK /\ Idle \in {Idle} \cup Writing
  BY KindsAre DEF StepInv
<1>2. /\ th[c].pc = "idle" /\ row' = "none" /\ profile' = "none" /\ cut' = FALSE
      /\ book' = [a \in Addresses |-> "none"] /\ cache' = cache
      /\ device' = IF device = "ours" THEN "none" ELSE device
      /\ Wrote(c, Drop({"user", "phone", "profile"}, Drop({"addresses", "devices"}, Idle)))
  BY DEF DeleteUser, Idle
<1>3. Drop({"user", "phone", "profile"}, Drop({"addresses", "devices"}, Idle)) = Drop(all, Idle)
  BY <1>1 DEF Drop
<1>4. RowsOK'
  BY <1>1, <1>2 DEF RowsOK, Books, Owners
<1>5. WholeAccount'
  BY <1>2 DEF WholeAccount, Open, Versions
<1>6. Wrote(c, Drop(all, Idle)) /\ cut' \in BOOLEAN
  BY <1>2, <1>3
<1> HIDE DEF all
<1>7. QED
  BY <1>1, <1>2, <1>4, <1>5, <1>6, WroteKeeps

(* The three statements on the address book.                               *)
LEMMA BookKeeps ==
  ASSUME StepInv, kind' = kind, NEW c \in Callers,
         \/ ClearDefaultAddress(c) \/ WriteAddress(c)
         \/ \E a \in Addresses : DeleteAddress(c, a)
  PROVE  StepInv'
<1>1. /\ kind \in {"user", "phone", "profile", "addresses", "devices"}
      /\ RowsOK /\ HistoryOK /\ ThreadsOK /\ WholeAccount
  BY KindsAre DEF StepInv
<1>2. SUFFICES ASSUME NEW n \in {Idle} \cup Writing, Wrote(c, Drop({"addresses"}, n)),
                      th[c].pc \notin {"drop", "profile"},
                      book' \in Books, UNCHANGED <<row, profile, device, cache, cut>>,
                      \A a \in Addresses : book[a] = "none" /\ ~Open => book'[a] = "none"
               PROVE  StepInv'
  <2>1. CASE ClearDefaultAddress(c)
    <3>1. th[c] \in Writing
      BY <1>1, <2>1, TaskShape DEF ThreadsOK, ClearDefaultAddress
    <3>2. [th[c] EXCEPT !.pc = "write"] \in Writing
      BY <3>1 DEF Writing
    <3>3. /\ book' \in Books /\ UNCHANGED <<row, profile, device, cache, cut>>
          /\ \A a \in Addresses : book[a] = "none" /\ ~Open => book'[a] = "none"
          /\ th[c].pc \notin {"drop", "profile"}
          /\ Wrote(c, Drop({"addresses"}, [th[c] EXCEPT !.pc = "write"]))
      BY <1>1, <2>1 DEF ClearDefaultAddress, Books, Defaults, RowsOK
    <3>4. QED
      BY <1>2, <3>2, <3>3
  <2>2. CASE WriteAddress(c)
    <3>1. th[c] \in Writing
      BY <1>1, <2>2, TaskShape DEF ThreadsOK, WriteAddress
    <3>2. /\ book' \in Books /\ UNCHANGED <<row, profile, device, cache, cut>>
          /\ Open /\ th[c].pc \notin {"drop", "profile"}
          /\ Wrote(c, Drop({"addresses"}, Idle))
      BY <1>1, <2>2, <3>1 DEF WriteAddress, Books, RowsOK, Writing
    <3>3. QED
      BY <1>2, <3>2
  <2>3. ASSUME NEW a \in Addresses, DeleteAddress(c, a) PROVE StepInv'
    <3>1. /\ book' \in Books /\ UNCHANGED <<row, profile, device, cache, cut>>
          /\ \A b \in Addresses : book[b] = "none" /\ ~Open => book'[b] = "none"
          /\ th[c].pc \notin {"drop", "profile"}
          /\ Wrote(c, Drop({"addresses"}, Idle))
      BY <1>1, <2>3 DEF DeleteAddress, Books, RowsOK, Idle
    <3>2. QED
      BY <1>2, <3>1
  <2>4. QED
    BY <2>1, <2>2, <2>3
<1>3. RowsOK' /\ cut' \in BOOLEAN
  BY <1>1, <1>2 DEF RowsOK, HistoryOK
<1>4. kind \in {"addresses"} \/ Truth' = Truth
  BY <1>1, <1>2, TruthIs, TruthIsNext
<1>5. (Registering => Registering') => WholeAccount'
  BY <1>1, <1>2 DEF WholeAccount, Open, Registering
<1>6. QED
  BY <1>2, <1>3, <1>4, <1>5, WroteKeeps

(* What did not exist has no copy.                                         *)
LEMMA RegisterKeeps ==
  ASSUME StepInv, kind' = kind, NEW c \in Callers, RegisterUser(c) \/ CreateProfile(c)
  PROVE  StepInv'
<1>1. /\ kind \in {"user", "phone", "profile", "addresses", "devices"} /\ kind \in Kinds
      /\ RowsOK /\ HistoryOK /\ ThreadsOK /\ CacheOK /\ StaleOnlyByRace /\ WholeAccount
  BY KindsAre DEF StepInv
<1>2. SUFFICES ASSUME NEW t \in Task, Goto(c, t), th[c].pc # "drop", RowsOK', HistoryOK',
                      UNCHANGED <<book, device, cache, excused>>,
                      \/ ~Open /\ profile' = profile
                      \/ profile = "none" /\ row' = row,
                      (Registering => Registering' \/ th[c].pc = "profile")
                        /\ (t.pc = "profile" => Registering') => WholeAccount'
               PROVE  StepInv'
  <2>1. CASE RegisterUser(c)
    <3>1. /\ th[c].pc = "idle" /\ ~Open /\ row' = "v0" /\ HistoryOK'
          /\ UNCHANGED <<profile, book, device, cache, excused>>
      <4>1. Idle.pc = "idle" /\ excused \in BOOLEAN /\ cut \in BOOLEAN
        BY <1>1 DEF Idle, HistoryOK
      <4>2. th[c].pc = "idle" /\ ~Open /\ row' = "v0"
            /\ UNCHANGED <<profile, book, device, cache, excused>>
        BY <2>1, <4>1 DEF RegisterUser
      <4>3. cut' \in BOOLEAN
        BY <2>1, <4>1 DEF RegisterUser
      <4>4. QED
        BY <4>1, <4>2, <4>3 DEF HistoryOK
    <3>2. RowsOK'
      BY <1>1, <3>1 DEF RowsOK, Versions, Books
    <3>3. CASE Goto(c, [pc |-> "profile"])
      <4>1. ASSUME Registering' PROVE WholeAccount'
        BY <1>1, <3>1, <4>1 DEF WholeAccount, Open, Versions, Registering
      <4>2. QED
        BY <1>2, <3>1, <3>2, <3>3, <4>1, TaskMade
    <3>4. CASE Goto(c, Idle) /\ cut' = TRUE
      <4>1. WholeAccount'
        BY <1>1, <3>1, <3>4 DEF WholeAccount, Open, Versions
      <4>2. QED
        BY <1>2, <3>1, <3>2, <3>4, <4>1, TaskMade
    <3>5. QED
      BY <2>1, <3>3, <3>4 DEF RegisterUser
  <2>2. CASE CreateProfile(c)
    <3>1. /\ th[c].pc = "profile" /\ Open /\ profile = "none" /\ profile' = "v0"
          /\ cut' = FALSE /\ Goto(c, Idle) /\ UNCHANGED <<row, book, device, cache, excused>>
      BY <2>2 DEF CreateProfile
    <3>2. RowsOK' /\ HistoryOK'
      BY <1>1, <3>1 DEF RowsOK, HistoryOK, Versions, Books
    <3>3. WholeAccount'
      BY <1>1, <3>1 DEF WholeAccount, Open
    <3>4. QED
      BY <1>2, <3>1, <3>2, <3>3, TaskMade
  <2>3. QED
    BY <2>1, <2>2
<1>3. /\ ThreadsOK' /\ (Dropping => Dropping')
      /\ Registering => Registering' \/ th[c].pc = "profile"
      /\ t.pc = "profile" => Registering'
  BY <1>1, <1>2, Moved
<1>4. CacheOK'
  BY <1>1, <1>2, SameKind DEF CacheOK
<1>5. cache = None \/ Truth' = Truth \/ excused \/ Dropping
  <2>1. ASSUME cache = Truth PROVE cache = None \/ Truth' = Truth
    <3>1. CASE kind \in {"user", "phone"} /\ row' # row
      BY <1>1, <1>2, <2>1, <3>1, TruthIs DEF CacheOK, Copies, Open
    <3>2. CASE kind = "profile" /\ profile' # profile
      BY <1>1, <1>2, <2>1, <3>2, TruthIs DEF CacheOK, Copies, Versions
    <3>3. QED
      BY <1>1, <1>2, <3>1, <3>2, TruthIs, TruthIsNext
  <2>2. QED
    BY <1>1, <2>1 DEF StaleOnlyByRace
<1>6. StaleOnlyByRace'
  BY <1>1, <1>2, <1>3, <1>5 DEF StaleOnlyByRace
<1>7. QED
  BY <1>1, <1>2, <1>3, <1>4, <1>6 DEF StepInv

(* The list of an owner nobody has read stays behind, with an excuse.      *)
LEMMA DeviceKeeps ==
  ASSUME StepInv, kind' = kind, NEW c \in Callers, UpsertDevice(c) \/ DeleteDeviceRow(c)
  PROVE  StepInv'
<1>1. /\ kind \in {"user", "phone", "profile", "addresses", "devices"} /\ kind \in Kinds
      /\ RowsOK /\ HistoryOK /\ ThreadsOK /\ CacheOK /\ StaleOnlyByRace /\ WholeAccount
  BY KindsAre DEF StepInv
<1>2. /\ th[c] \in Task /\ th[c].pc \in {"device", "unregister"}
      /\ UNCHANGED <<row, profile, book, cache, cut>>
  BY <1>1 DEF UpsertDevice, DeleteDeviceRow, ThreadsOK
<1>3. PICK t \in {Idle, Drop({"devices"}, Idle)} : Goto(c, t)
  BY DEF UpsertDevice, DeleteDeviceRow
<1>4. t \in Task /\ (t = Drop({"devices"}, Idle) /\ kind = "devices" => t.pc = "drop")
  BY <1>3, DropIs, TaskMade
<1>5. /\ ThreadsOK' /\ (Dropping => Dropping') /\ (Registering => Registering')
      /\ t.pc = "drop" => Dropping'
  BY <1>1, <1>2, <1>3, <1>4, Moved
<1>6. /\ device' \in Owners \cup {"none"} /\ (device' = "ours" => Open)
      /\ excused' \in BOOLEAN /\ (excused => excused')
  BY <1>1, <1>2, TaskShape DEF UpsertDevice, DeleteDeviceRow, HistoryOK
<1>7. RowsOK' /\ HistoryOK' /\ CacheOK'
  BY <1>1, <1>2, <1>6, SameKind DEF RowsOK, HistoryOK, CacheOK, Books
<1>8. WholeAccount'
  BY <1>1, <1>2, <1>5, <1>6 DEF WholeAccount, Open, Registering
<1>9. kind = "devices" =>
        Dropping' \/ excused' \/ (device = "ours") = (device' = "ours")
  <2>1. SUFFICES ASSUME kind = "devices", ~Dropping'
                 PROVE  excused' \/ (device = "ours") = (device' = "ours")
    OBVIOUS
  <2>2. Drop({"devices"}, Idle) = [pc |-> "drop", next |-> Idle] /\ Idle.pc = "idle"
    BY <2>1 DEF Drop, Idle
  <2>3. ~Goto(c, Drop({"devices"}, Idle))
    <3>1. Drop({"devices"}, Idle) \in Task /\ Drop({"devices"}, Idle).pc = "drop"
      BY <2>2, TaskMade
    <3>2. QED
      BY <1>1, <2>1, <3>1, Moved
  <2>4. CASE UpsertDevice(c)
    BY <2>1, <2>3, <2>4 DEF UpsertDevice
  <2>5. CASE DeleteDeviceRow(c)
    BY <2>1, <2>3, <2>5 DEF DeleteDeviceRow
  <2>6. QED
    BY <2>4, <2>5
<1>10. Truth' = Truth \/ Dropping' \/ excused'
  BY <1>1, <1>2, <1>9, TruthIs, TruthIsNext
<1>11. StaleOnlyByRace'
  BY <1>1, <1>2, <1>5, <1>6, <1>10 DEF StaleOnlyByRace
<1>12. QED
  BY <1>1, <1>5, <1>7, <1>8, <1>11 DEF StepInv

-----------------------------------------------------------------------------
(* Default addresses.                                                      *)

LEMMA FewAre ==
  ASSUME NEW S, IsFiniteSet(S)
  PROVE  Cardinality(S) <= 1 <=> \A x, y \in S : x = y
<1>1. CASE S = {}
  BY <1>1, FS_EmptySet
<1>2. ASSUME NEW x \in S PROVE Cardinality(S) <= 1 <=> \A y, z \in S : y = z
  <2>1. IsFiniteSet(S \ {x}) /\ Cardinality(S \ {x}) = Cardinality(S) - 1
    BY <1>2, FS_RemoveElement
  <2>2. Cardinality(S) \in Nat /\ Cardinality(S \ {x}) \in Nat
    BY <2>1, FS_CardinalityType
  <2>3. Cardinality(S \ {x}) = 0 <=> S \ {x} = {}
    BY <2>1, FS_EmptySet
  <2>4. S \ {x} = {} <=> \A y, z \in S : y = z
    BY <1>2
  <2>5. QED
    BY <2>1, <2>2, <2>3, <2>4
<1>3. QED
  BY <1>1, <1>2

(* What a step leaves of the flags, and of the calls about to set one.     *)
LEMMA WatchKeeps ==
  ASSUME DefaultsOK, crossed \in BOOLEAN, Watch,
         \A c \in Callers :
           /\ th'[c].pc = "clear" => th'[c].default
           /\ th'[c].pc = "drop" /\ th'[c].next # Idle =>
                th'[c].next.pc = "write" /\ th'[c].next.default,
         ~crossed /\ (\A c, d \in Setters' : c = d) =>
           /\ \A a, b \in Defaults' : a = b
           /\ \A c \in Setters' :
                Ahead(th'[c]).pc = "write" => Defaults' \subseteq {Ahead(th'[c]).address}
  PROVE  DefaultsOK' /\ crossed' \in BOOLEAN
<1>1. /\ crossed' = \/ Cardinality(Setters') > 1
                    \/ crossed /\ (Setters' # {} \/ Cardinality(Defaults') > 1)
  BY DEF Watch, Setters
<1>2. IsFiniteSet(Setters') /\ IsFiniteSet(Defaults')
  <2>1. Setters' \subseteq Callers /\ Defaults' \subseteq Addresses
    BY DEF Setters, Defaults
  <2>2. QED
    BY <2>1, AccountConstants, FS_Subset
<1>3. /\ Cardinality(Setters') \in Nat /\ Cardinality(Defaults') \in Nat
      /\ Cardinality(Setters') <= 1 <=> \A c, d \in Setters' : c = d
      /\ Cardinality(Defaults') <= 1 <=> \A a, b \in Defaults' : a = b
  BY <1>2, FewAre, FS_CardinalityType
<1>4. ASSUME ~crossed'
      PROVE  /\ \A c, d \in Setters' : c = d
             /\ \A a, b \in Defaults' : a = b
             /\ \A c \in Setters' :
                  Ahead(th'[c]).pc = "write" => Defaults' \subseteq {Ahead(th'[c]).address}
  <2>1. Cardinality(Setters') <= 1
    BY <1>1, <1>3, <1>4
  <2>2. CASE crossed
    BY <1>1, <1>3, <1>4, <2>1, <2>2
  <2>3. CASE ~crossed
    BY <1>3, <2>1, <2>3
  <2>4. QED
    BY <2>2, <2>3
<1>5. crossed' \in BOOLEAN
  BY <1>1
<1>6. QED
  BY <1>4, <1>5 DEF DefaultsOK, Ahead

(* How far a step takes a call on its way to set a default address.        *)
Onward(c) ==
  \/ th'[c] = th[c]
  \/ th'[c].pc \notin {"clear", "write", "drop"}
  \/ th'[c].pc = "drop" /\ th'[c].next = Idle
  \/ th'[c].pc = "clear" /\ th'[c].default
  \/ th'[c].pc = "write" /\ ~th'[c].default
  \/ th'[c].pc = "write" /\ Defaults' \subseteq {th'[c].address}
  \/ /\ th'[c].pc = "drop" /\ th'[c].next.pc = "write" /\ th'[c].next.default
     /\ Defaults' = {}
  \/ th[c].pc = "drop" /\ th[c].next # Idle /\ th'[c] = th[c].next

(* The conditions of WatchKeeps.                                           *)
FlagsKept ==
  /\ \A c \in Callers :
       /\ th'[c].pc = "clear" => th'[c].default
       /\ th'[c].pc = "drop" /\ th'[c].next # Idle =>
            th'[c].next.pc = "write" /\ th'[c].next.default
  /\ ~crossed /\ (\A c, d \in Setters' : c = d) =>
       /\ \A a, b \in Defaults' : a = b
       /\ \A c \in Setters' :
            Ahead(th'[c]).pc = "write" => Defaults' \subseteq {Ahead(th'[c]).address}

LEMMA OnwardKeeps ==
  ASSUME DefaultsOK, Defaults' \subseteq Defaults, \A c \in Callers : Onward(c)
  PROVE  FlagsKept
<1>1. ASSUME NEW c \in Callers
      PROVE  /\ th'[c].pc = "clear" => th'[c].default
             /\ th'[c].pc = "drop" /\ th'[c].next # Idle =>
                  th'[c].next.pc = "write" /\ th'[c].next.default
  BY DEF DefaultsOK, Onward, Idle
<1>2. ASSUME ~crossed, NEW c \in Setters', Ahead(th'[c]).pc = "write"
      PROVE  Defaults' \subseteq {Ahead(th'[c]).address}
  <2>1. c \in Callers /\ Setter(th'[c])
    BY <1>2 DEF Setters
  <2>2. ASSUME Setter(th[c]), Ahead(th'[c]) = Ahead(th[c])
        PROVE  Defaults' \subseteq {Ahead(th'[c]).address}
    BY <1>2, <2>1, <2>2 DEF DefaultsOK, Setters
  <2>3. CASE th'[c] = th[c]
    BY <2>1, <2>2, <2>3
  <2>4. CASE th[c].pc = "drop" /\ th[c].next # Idle /\ th'[c] = th[c].next
    <3>1. th[c].next.pc = "write"
      BY <2>1, <2>4 DEF DefaultsOK
    <3>2. Setter(th[c]) /\ Ahead(th'[c]) = Ahead(th[c])
      BY <2>4, <3>1 DEF Setter, Ahead
    <3>3. QED
      BY <2>2, <3>2
  <2>5. CASE th'[c].pc = "write" /\ Defaults' \subseteq {th'[c].address}
    BY <2>5 DEF Ahead
  <2>6. CASE Defaults' = {}
    BY <2>6
  <2>7. QED
    BY <1>2, <2>1, <2>3, <2>4, <2>5, <2>6 DEF Onward, Setter, Ahead
<1>3. ~crossed => \A a, b \in Defaults' : a = b
  BY DEF DefaultsOK
<1>4. QED
  BY <1>1, <1>2, <1>3 DEF FlagsKept

LEMMA OneOnward ==
  ASSUME ThreadsOK, DefaultsOK, NEW c \in Callers, NEW t, Goto(c, t),
         \/ t.pc \notin {"clear", "write", "drop"}
         \/ t.pc = "drop" /\ t.next = Idle,
         Defaults' \subseteq Defaults
  PROVE  FlagsKept
BY OnwardKeeps DEF ThreadsOK, Goto, Onward

LEMMA CallFlags ==
  ASSUME ThreadsOK, DefaultsOK, NEW c \in Callers,
         \/ Read(c) \/ Store(c) \/ Fail(c) \/ RegisterUser(c) \/ CreateProfile(c)
         \/ AlreadyExists(c) \/ LoggedIn(c) \/ DeleteDevice(c)
         \/ \E owner \in Owners : RegisterDevice(c, owner)
  PROVE  FlagsKept
<1>1. Defaults' \subseteq Defaults
  BY DEF Read, Store, Fail, RegisterUser, CreateProfile, AlreadyExists, LoggedIn,
         DeleteDevice, RegisterDevice, Defaults, tables
<1>2. SUFFICES \E t : Goto(c, t) /\ t.pc \notin {"clear", "write", "drop"}
  BY <1>1, OneOnward
<1>3. Idle.pc = "idle"
  BY DEF Idle
<1>4. CASE Read(c)
  BY <1>4 DEF Read
<1>5. CASE Store(c) \/ Fail(c) \/ CreateProfile(c) \/ LoggedIn(c)
  BY <1>3, <1>5 DEF Store, Fail, CreateProfile, LoggedIn
<1>6. CASE RegisterUser(c)
  <2>1. CASE Goto(c, Idle)
    BY <1>3, <2>1
  <2>2. CASE Goto(c, [pc |-> "profile"])
    BY <2>2
  <2>3. QED
    BY <1>6, <2>1, <2>2 DEF RegisterUser
<1>7. CASE AlreadyExists(c)
  BY <1>7 DEF AlreadyExists
<1>8. CASE DeleteDevice(c)
  BY <1>8 DEF DeleteDevice
<1>9. ASSUME NEW owner \in Owners, RegisterDevice(c, owner)
      PROVE  \E t : Goto(c, t) /\ t.pc \notin {"clear", "write", "drop"}
  BY <1>9 DEF RegisterDevice
<1>10. QED
  BY <1>4, <1>5, <1>6, <1>7, <1>8, <1>9

(* A write after which nothing is left but to delete copies.               *)
LEMMA LastWriteFlags ==
  ASSUME ThreadsOK, DefaultsOK, NEW c \in Callers,
         \/ UpdateUser(c) \/ UpdateProfile(c) \/ DeleteUser(c)
         \/ \E a \in Addresses : DeleteAddress(c, a)
         \/ UpsertDevice(c) \/ DeleteDeviceRow(c)
  PROVE  FlagsKept
<1>1. Defaults' \subseteq Defaults
  <2>1. CASE book' = book
    BY <2>1 DEF Defaults
  <2>2. CASE DeleteUser(c)
    BY <2>2 DEF DeleteUser, Defaults
  <2>3. ASSUME NEW a \in Addresses, DeleteAddress(c, a)
        PROVE  Defaults' \subseteq Defaults
    <3>1. book' = [book EXCEPT ![a] = "none"]
      BY <2>3 DEF DeleteAddress
    <3>2. \A b \in Addresses : book'[b] = "default" => book[b] = "default"
      BY <3>1
    <3>3. QED
      BY <3>2 DEF Defaults
  <2>4. QED
    BY <2>1, <2>2, <2>3 DEF UpdateUser, UpdateProfile, UpsertDevice, DeleteDeviceRow
<1>2. \A kinds : \/ Drop(kinds, Idle) = Idle
                 \/ Drop(kinds, Idle).pc = "drop" /\ Drop(kinds, Idle).next = Idle
  BY DEF Drop
<1>3. ASSUME NEW kinds, Goto(c, Drop(kinds, Idle)) \/ Goto(c, Idle) PROVE FlagsKept
  BY <1>1, <1>2, <1>3, OneOnward DEF Idle
<1>4. ASSUME NEW kinds, Wrote(c, Drop(kinds, Idle)) PROVE FlagsKept
  BY <1>3, <1>4 DEF Wrote
<1>5. CASE DeleteUser(c)
  <2>1. Wrote(c, Drop({"user", "phone", "profile"}, Drop({"addresses", "devices"}, Idle)))
    BY <1>5 DEF DeleteUser
  <2>2. \E kinds : Drop({"user", "phone", "profile"}, Drop({"addresses", "devices"}, Idle))
                     = Drop(kinds, Idle)
    <3>1. Drop({"user", "phone", "profile"}, Drop({"addresses", "devices"}, Idle))
            = Drop({"user", "phone", "profile", "addresses", "devices"}, Idle)
      BY DEF Drop
    <3>2. QED
      BY <3>1
  <2>3. QED
    BY <1>4, <2>1, <2>2
<1>6. CASE UpdateUser(c) \/ UpdateProfile(c) \/ \E a \in Addresses : DeleteAddress(c, a)
  BY <1>4, <1>6 DEF UpdateUser, UpdateProfile, DeleteAddress
<1>7. CASE UpsertDevice(c) \/ DeleteDeviceRow(c)
  BY <1>3, <1>7 DEF UpsertDevice, DeleteDeviceRow
<1>8. QED
  BY <1>5, <1>6, <1>7

LEMMA DropFlags ==
  ASSUME ThreadsOK, DefaultsOK, NEW c \in Callers, DropCopy(c)
  PROVE  FlagsKept
<1>1. /\ th[c].pc = "drop" /\ th'[c] = th[c].next
      /\ \A o \in Callers \ {c} : th'[o] = th[o]
  BY DEF DropCopy, ThreadsOK, Goto
<1>2. Defaults' = Defaults
  BY DEF DropCopy, tables, Defaults
<1>3. \A o \in Callers : Onward(o)
  BY <1>1 DEF Onward, Idle
<1>4. QED
  BY <1>2, <1>3, OnwardKeeps

(* The address book's own calls.                                           *)
LEMMA BookFlags ==
  ASSUME RowsOK, ThreadsOK, DefaultsOK, crossed \in BOOLEAN, NEW c \in Callers,
         \/ \E a \in Addresses, default \in BOOLEAN :
              CreateAddress(c, a, default) \/ UpdateAddress(c, a, default)
         \/ ClearDefaultAddress(c) \/ WriteAddress(c)
  PROVE  FlagsKept
<1>1. ASSUME NEW t, Goto(c, t) PROVE th'[c] = t /\ \A o \in Callers \ {c} : th'[o] = th[o]
  BY <1>1 DEF ThreadsOK, Goto
<1>2. CASE ClearDefaultAddress(c)
  <2>1. Defaults' = {}
    BY <1>2 DEF ClearDefaultAddress, Defaults
  <2>2. th[c] \in Writing /\ th[c].pc = "clear" /\ th[c].default
    BY <1>2, TaskShape DEF ClearDefaultAddress, ThreadsOK, DefaultsOK
  <2> DEFINE n == [th[c] EXCEPT !.pc = "write"]
  <2>3. n.pc = "write" /\ n.default
    BY <2>2 DEF Writing
  <2>4. \/ Drop({"addresses"}, n) = n
        \/ Drop({"addresses"}, n).pc = "drop" /\ Drop({"addresses"}, n).next = n
    BY DEF Drop
  <2>5. Goto(c, Drop({"addresses"}, n)) \/ Goto(c, Idle)
    BY <1>2 DEF ClearDefaultAddress, Wrote
  <2> HIDE DEF n
  <2>6. Onward(c)
    BY <1>1, <2>1, <2>3, <2>4, <2>5 DEF Onward, Idle
  <2>7. \A o \in Callers : Onward(o)
    BY <1>1, <2>5, <2>6 DEF Onward
  <2>8. QED
    BY <2>1, <2>7, OnwardKeeps
<1>3. ASSUME NEW a \in Addresses, NEW default \in BOOLEAN,
             CreateAddress(c, a, default) \/ UpdateAddress(c, a, default)
      PROVE  FlagsKept
  <2>1. PICK fresh \in BOOLEAN : Set(c, a, default, fresh)
    BY <1>3 DEF CreateAddress, UpdateAddress
  <2>2. Defaults' = Defaults
    BY <1>3 DEF CreateAddress, UpdateAddress, tables, Defaults
  <2> DEFINE t == [pc |-> IF default /\ book[a] # "default" THEN "clear" ELSE "write",
                   address |-> a, default |-> default, fresh |-> fresh]
  <2>3. th'[c] = t /\ \A o \in Callers \ {c} : th'[o] = th[o]
    BY <1>1, <2>1 DEF Set
  <2>4. CASE ~crossed
    <3>1. default /\ book[a] = "default" => Defaults' \subseteq {a}
      BY <2>2, <2>4 DEF DefaultsOK, Defaults
    <3>2. Onward(c)
      BY <2>3, <3>1 DEF Onward
    <3>3. \A o \in Callers : Onward(o)
      BY <2>3, <3>2 DEF Onward
    <3>4. QED
      BY <2>2, <3>3, OnwardKeeps
  <2>5. CASE crossed
    BY <2>3, <2>5 DEF FlagsKept, DefaultsOK
  <2>6. QED
    BY <2>4, <2>5
<1>4. CASE WriteAddress(c)
  <2>1. th[c] \in Writing /\ th[c].pc = "write"
    BY <1>4, TaskShape DEF WriteAddress, ThreadsOK
  <2>2. \/ Drop({"addresses"}, Idle) = Idle
        \/ /\ Drop({"addresses"}, Idle).pc = "drop"
           /\ Drop({"addresses"}, Idle).next = Idle
    BY DEF Drop
  <2>3. PICK t : /\ Goto(c, t)
                 /\ t = Idle \/ (t.pc = "drop" /\ t.next = Idle)
    BY <1>4, <2>2 DEF WriteAddress, Wrote
  <2>4. th'[c] = t /\ \A o \in Callers \ {c} : th'[o] = th[o]
    BY <1>1, <2>3
  <2>5. \A b \in Addresses :
          book'[b] = IF b = th[c].address
                       THEN (IF th[c].default THEN "default" ELSE "plain") ELSE book[b]
    BY <1>4, <2>1 DEF WriteAddress, RowsOK, Books, Writing
  <2>6. CASE ~th[c].default
    <3>1. Defaults' \subseteq Defaults
      BY <2>5, <2>6 DEF Defaults
    <3>2. QED
      BY <2>3, <3>1, OneOnward DEF Idle
  <2>7. CASE th[c].default
    <3>1. c \in Setters /\ Ahead(th[c]) = th[c]
      BY <2>1, <2>7 DEF Setters, Setter, Ahead
    <3>2. ~crossed => Defaults' \subseteq {th[c].address}
      BY <2>1, <2>5, <3>1 DEF DefaultsOK, Defaults
    <3>3. ~crossed => Setters' = {}
      BY <2>3, <2>4, <3>1 DEF DefaultsOK, Setters, Setter, Idle
    <3>4. \A o \in Callers :
            /\ th'[o].pc = "clear" => th'[o].default
            /\ th'[o].pc = "drop" /\ th'[o].next # Idle =>
                 th'[o].next.pc = "write" /\ th'[o].next.default
      BY <2>3, <2>4 DEF DefaultsOK, Idle
    <3>5. QED
      BY <3>2, <3>3, <3>4 DEF FlagsKept
  <2>8. QED
    BY <2>1, <2>6, <2>7 DEF Writing
<1>5. QED
  BY <1>2, <1>3, <1>4

-----------------------------------------------------------------------------
(* All of it.                                                              *)

LEMMA InitHolds == Init => AccountInvariant
<1> SUFFICES ASSUME Init PROVE AccountInvariant
  OBVIOUS
<1>1. /\ kind \in Kinds /\ row = "none" /\ profile = "none" /\ device = "none"
      /\ book = [a \in Addresses |-> "none"] /\ cache = None
      /\ th = [c \in Callers |-> [pc |-> "idle"]]
      /\ excused = FALSE /\ cut = FALSE /\ crossed = FALSE
  BY DEF Init, Idle
<1>2. RowsOK /\ HistoryOK /\ ThreadsOK /\ CacheOK
  BY <1>1, TaskMade DEF RowsOK, HistoryOK, ThreadsOK, CacheOK, Books, Idle
<1>3. StaleOnlyByRace /\ WholeAccount
  BY <1>1 DEF StaleOnlyByRace, WholeAccount, Open, Versions
<1>4. Setters = {} /\ Defaults = {}
  BY <1>1 DEF Setters, Setter, Defaults
<1>5. DefaultsOK
  BY <1>1, <1>4 DEF DefaultsOK
<1>6. QED
  BY <1>1, <1>2, <1>3, <1>5, Parts DEF StepInv

LEMMA HandlerKeeps ==
  ASSUME StepInv, DefaultsOK, crossed \in BOOLEAN, kind' = kind,
         NEW c \in Callers, Handler(c)
  PROVE  StepInv' /\ FlagsKept
<1>0. RowsOK /\ ThreadsOK
  BY DEF StepInv
<1>1. CASE \/ Read(c) \/ AlreadyExists(c) \/ LoggedIn(c) \/ DeleteDevice(c)
           \/ \E owner \in Owners : RegisterDevice(c, owner)
  BY <1>0, <1>1, CallKeeps, CallFlags
<1>2. CASE Store(c) \/ Fail(c)
  BY <1>0, <1>2, StoreKeeps, FailKeeps, CallFlags
<1>3. CASE RegisterUser(c) \/ CreateProfile(c)
  BY <1>0, <1>3, RegisterKeeps, CallFlags
<1>4. CASE \E a \in Addresses, default \in BOOLEAN :
             CreateAddress(c, a, default) \/ UpdateAddress(c, a, default)
  BY <1>0, <1>4, CallKeeps, BookFlags
<1>5. CASE ClearDefaultAddress(c) \/ WriteAddress(c)
  BY <1>0, <1>5, BookKeeps, BookFlags
<1>6. CASE \E a \in Addresses : DeleteAddress(c, a)
  BY <1>0, <1>6, BookKeeps, LastWriteFlags
<1>7. CASE UpdateUser(c) \/ UpdateProfile(c)
  BY <1>0, <1>7, UpdateKeeps, LastWriteFlags
<1>8. CASE DeleteUser(c)
  BY <1>0, <1>8, DeleteUserKeeps, LastWriteFlags
<1>9. CASE UpsertDevice(c) \/ DeleteDeviceRow(c)
  BY <1>0, <1>9, DeviceKeeps, LastWriteFlags
<1>10. CASE DropCopy(c)
  BY <1>0, <1>10, DropCopyKeeps, DropFlags
<1>11. QED
  BY <1>1, <1>2, <1>3, <1>4, <1>5, <1>6, <1>7, <1>8, <1>9, <1>10 DEF Handler

LEMMA NextHolds == AccountInvariant /\ [Next]_vars => AccountInvariant'
<1> SUFFICES ASSUME AccountInvariant, [Next]_vars PROVE AccountInvariant'
  OBVIOUS
<1>1. StepInv /\ crossed \in BOOLEAN /\ DefaultsOK
  BY Parts
<1>2. CASE Next
  <2>1. kind' = kind /\ Watch
    BY <1>2 DEF Next, Watch
  <2>2. StepInv' /\ FlagsKept
    <3>1. CASE \E c \in Callers : Handler(c)
      BY <1>1, <2>1, <3>1, HandlerKeeps
    <3>2. CASE Expire
      <4>1. \A c \in Callers : Onward(c)
        BY <3>2 DEF Expire, Onward
      <4>2. Defaults' = Defaults
        BY <3>2 DEF Expire, tables, Defaults
      <4>3. QED
        BY <1>1, <2>1, <3>2, <4>1, <4>2, ExpireKeeps, OnwardKeeps
    <3>3. CASE Crash
      <4>1. \A c \in Callers : Onward(c)
        BY <3>3 DEF Crash, Onward, Idle
      <4>2. Defaults' = Defaults
        BY <3>3 DEF Crash, tables, Defaults
      <4>3. QED
        BY <1>1, <2>1, <3>3, <4>1, <4>2, CrashKeeps, OnwardKeeps
    <3>4. QED
      BY <1>2, <3>1, <3>2, <3>3 DEF Next
  <2>3. DefaultsOK' /\ crossed' \in BOOLEAN
    BY <1>1, <2>1, <2>2, WatchKeeps DEF FlagsKept
  <2>4. QED
    BY <2>2, <2>3
       DEF AccountInvariant, TypeOK, StepInv, RowsOK, HistoryOK, ThreadsOK, CacheOK
<1>3. CASE UNCHANGED vars
  <2>1. UNCHANGED <<kind, row, profile, book, device, cache, th, excused, cut, crossed>>
    BY <1>3 DEF vars, tables
  <2>2. Truth' = Truth /\ Task' = Task /\ Copies' = Copies
    BY <2>1, TruthSame, SameKind DEF tables
  <2>3. TypeOK' /\ StaleOnlyByRace' /\ WholeAccount'
    BY <2>1, <2>2
       DEF AccountInvariant, TypeOK, Books, StaleOnlyByRace, Dropping, WholeAccount, Open
  <2>4. DefaultsOK'
    BY <2>1 DEF AccountInvariant, DefaultsOK, Setters, Defaults
  <2>5. QED
    BY <2>3, <2>4 DEF AccountInvariant
<1>4. QED
  BY <1>2, <1>3

LEMMA AccountKept == Spec => []AccountInvariant
BY InitHolds, NextHolds, PTL DEF Spec

(* Rows, copies and calls keep their types in every reachable state; only  *)
(* what exists is copied to Redis.                                         *)
THEOREM AccountTyping == Spec => []TypeOK
<1>1. AccountInvariant => TypeOK
  BY DEF AccountInvariant
<1>2. QED
  BY <1>1, AccountKept, PTL

(* A copy of a user, profile, address list or device list differs from the *)
(* tables only while a writer is about to delete it, or by a race or a     *)
(* failure: every writer deletes every key of what it changes.             *)
THEOREM AccountCopiesStaleOnlyByRace == Spec => []StaleOnlyByRace
<1>1. AccountInvariant => StaleOnlyByRace
  BY DEF AccountInvariant
<1>2. QED
  BY <1>1, AccountKept, PTL

(* A user has a profile unless the registration is under way or was cut    *)
(* off, and what a deleted user had is gone, whichever calls cross.        *)
THEOREM AccountIsWhole == Spec => []WholeAccount
<1>1. AccountInvariant => WholeAccount
  BY DEF AccountInvariant
<1>2. QED
  BY <1>1, AccountKept, PTL

(* The two statements that set a default address leave at most one, unless *)
(* two calls that set it were under way together.                          *)
THEOREM OneDefault == Spec => []OneDefaultUnlessCrossed
<1>1. AccountInvariant => OneDefaultUnlessCrossed
  <2>1. IsFiniteSet(Defaults)
    BY AccountConstants, FS_Subset DEF Defaults
  <2>2. QED
    BY <2>1, FewAre DEF AccountInvariant, DefaultsOK, OneDefaultUnlessCrossed
<1>2. QED
  BY <1>1, AccountKept, PTL
=============================================================================
