------------------------------ MODULE Account ------------------------------
(***************************************************************************)
(* One account of user_service: the user row, the profile of its role, the *)
(* address book and a device that may change hands, with their copies in   *)
(* Redis.  Accounts share nothing but devices, so the others are one value *)
(* here.  No handler holds a lock: every statement and every Redis command *)
(* is a step of its own, except that a read only the constraints of the    *)
(* database rely on is left to the write that follows it.                  *)
(***************************************************************************)
EXTENDS Naturals, FiniteSets

CONSTANTS Addresses, Callers,
          Kinds,   \* the copies to follow, of the five kinds there are
          None,    \* a key that is absent
          Faults   \* subset of {"db", "redis", "crash"}

ASSUME AccountConstants ==
  /\ Kinds \subseteq {"user", "phone", "profile", "addresses", "devices"}
  /\ IsFiniteSet(Addresses) /\ IsFiniteSet(Callers)

\* Contents of a row: two tell a copy from the row.
Versions == {"v0", "v1"}

\* Who has the device registered.
Owners == {"ours", "elsewhere"}

VARIABLES
  kind,    \* the kind of copy that is followed; it never changes
  row,     \* table users
  profile, \* table driver_profiles or shipper_profiles
  book,    \* table addresses
  device,  \* table user_devices, the row of one token
  cache,   \* the copy in Redis of what kind names
  th,      \* what each caller is doing
  excused, \* history: the copy is stale by a race or a failure
  cut,     \* history: a registration ended between its two statements
  crossed  \* history: calls that set a default address have overlapped

tables == <<row, profile, book, device>>
vars == <<kind, tables, cache, th, excused, cut, crossed>>

Open == row \in Versions
Defaults == {a \in Addresses : book[a] = "default"}

Idle == [pc |-> "idle"]

\* What a copy of this kind should be.
Truth ==
  CASE kind \in {"user", "phone"} -> row
    [] kind = "profile" -> profile
    [] kind = "addresses" -> book
    [] kind = "devices" -> device = "ours"

Goto(c, task) == th' = [th EXCEPT ![c] = task]

-----------------------------------------------------------------------------
(* Copies.                                                                 *)

\* (variant) what does not exist is copied as well
FoundOrNot == TRUE

\* Rows that do not exist are not copied; empty lists are.
Found ==
  /\ kind \in {"user", "phone"} => Open
  /\ kind = "profile" => profile # "none"

Read(c) ==
  /\ th[c] = Idle /\ Found
  /\ cache = None \/ "redis" \in Faults
  /\ Goto(c, [pc |-> "store", copy |-> Truth])
  /\ UNCHANGED <<tables, cache, excused, cut>>

Store(c) ==
  /\ th[c].pc = "store"
  /\ \/ cache' = th[c].copy /\ excused' = (th[c].copy # Truth)
     \/ "redis" \in Faults /\ UNCHANGED <<cache, excused>>
  /\ Goto(c, Idle)
  /\ UNCHANGED <<tables, cut>>

Expire ==
  /\ cache # None
  /\ cache' = None /\ excused' = FALSE
  /\ UNCHANGED <<tables, th, cut>>

\* One DEL of several keys, then the next step.  Where the followed copy is not
\* among them nothing happens to it.
Drop(kinds, next) ==
  IF kind \in kinds THEN [pc |-> "drop", next |-> next] ELSE next

DropCopy(c) ==
  /\ th[c].pc = "drop"
  /\ \/ cache' = None /\ excused' = FALSE
     \/ "redis" \in Faults /\ excused' = TRUE /\ UNCHANGED cache
  /\ Goto(c, th[c].next)
  /\ UNCHANGED <<tables, cut>>

\* A write takes place and is answered, or its answer is lost and the call ends.
Wrote(c, next) ==
  \/ Goto(c, next) /\ UNCHANGED excused
  \/ "db" \in Faults /\ Goto(c, Idle) /\ excused' = (excused \/ next.pc = "drop")

\* A statement fails, or finds that what it names is gone.
Fail(c) ==
  /\ th[c].pc \in {"profile", "clear", "write", "device", "unregister"}
  /\ \/ "db" \in Faults
     \/ ~Open
     \/ th[c].pc = "profile" /\ profile # "none"
     \/ th[c].pc = "write" /\ ~th[c].fresh /\ book[th[c].address] = "none"
     \/ th[c].pc = "device" /\ (th[c].seen = "none") # (device = "none")
     \/ th[c].pc = "unregister" /\ device = "none"
  /\ Goto(c, Idle)
  /\ cut' = (cut \/ (th[c].pc = "profile" /\ Open /\ profile = "none"))
  /\ UNCHANGED <<tables, cache, excused>>

-----------------------------------------------------------------------------
(* The account.                                                            *)

\* Two statements, not one transaction: the user, then the profile of its role.
\* The gateway calls it when somebody registers and at every login with a password
\* (not at one through Google), so a deleted account comes back when its owner
\* logs in.
RegisterUser(c) ==
  /\ th[c] = Idle /\ ~Open
  /\ row' = "v0"
  /\ \/ Goto(c, [pc |-> "profile"]) /\ UNCHANGED cut
     \/ "db" \in Faults /\ Goto(c, Idle) /\ cut' = TRUE
  /\ UNCHANGED <<profile, book, device, cache, excused>>

CreateProfile(c) ==
  /\ th[c].pc = "profile" /\ Open /\ profile = "none"
  /\ profile' = "v0" /\ cut' = FALSE
  /\ Goto(c, Idle)
  /\ UNCHANGED <<row, book, device, cache, excused>>

\* A login with the password of an account that exists: ensureProfile takes the
\* refusal of RegisterUser for the proof that there is nothing to repair.
AlreadyExists(c) ==
  /\ th[c] = Idle /\ Open
  /\ Goto(c, [pc |-> "ensured"])
  /\ UNCHANGED <<tables, cache, excused, cut>>

LoggedIn(c) ==
  /\ th[c].pc = "ensured"
  /\ Goto(c, Idle)
  /\ UNCHANGED <<tables, cache, excused, cut>>

\* (variant) the key by phone number is forgotten
UpdateUserById(c) ==
  /\ th[c] = Idle /\ Open
  /\ row' \in Versions
  /\ Wrote(c, Drop({"user", "profile"}, Idle))
  /\ UNCHANGED <<profile, book, device, cache, cut>>

\* UpdateUser and UpdateUserStatus: invalidateUser.
UpdateUser(c) ==
  /\ th[c] = Idle /\ Open
  /\ row' \in Versions
  /\ Wrote(c, Drop({"user", "phone", "profile"}, Idle))
  /\ UNCHANGED <<profile, book, device, cache, cut>>

UpdateProfile(c) ==
  /\ th[c] = Idle /\ profile # "none"
  /\ profile' \in Versions
  /\ Wrote(c, Drop({"profile"}, Idle))
  /\ UNCHANGED <<row, book, device, cache, cut>>

\* (variant) what belongs to the user is deleted outside the transaction
DeleteChildrenFirst(c) ==
  /\ th[c] = Idle /\ Open
  /\ profile' = "none" /\ book' = [a \in Addresses |-> "none"]
  /\ row' \in {row, "none"}
  /\ Wrote(c, Drop({"user", "phone", "profile", "addresses", "devices"}, Idle))
  /\ UNCHANGED <<device, cache, cut>>

\* One transaction for everything the user has.
DeleteUser(c) ==
  /\ th[c] = Idle /\ Open
  /\ row' = "none" /\ profile' = "none" /\ cut' = FALSE
  /\ book' = [a \in Addresses |-> "none"]
  /\ device' = IF device = "ours" THEN "none" ELSE device
  /\ Wrote(c, Drop({"user", "phone", "profile"}, Drop({"addresses", "devices"}, Idle)))
  /\ UNCHANGED cache

-----------------------------------------------------------------------------
(* The address book.  A default address is set in two statements, with the *)
(* deletion of the list between them.                                      *)

\* (variant) the flag of the default before is left
SetOnly(c, a, default, fresh) ==
  Goto(c, [pc |-> "write", address |-> a, default |-> default, fresh |-> fresh])

\* Whether the flags are cleared first.
Set(c, a, default, fresh) ==
  Goto(c, [pc |-> IF default /\ book[a] # "default" THEN "clear" ELSE "write",
           address |-> a, default |-> default, fresh |-> fresh])

CreateAddress(c, a, default) ==
  /\ th[c] = Idle /\ Open /\ book[a] = "none"
  /\ \A o \in Callers : th[o].pc \in {"clear", "write"} => th[o].address # a
  /\ Set(c, a, default, TRUE)
  /\ UNCHANGED <<tables, cache, excused, cut>>

UpdateAddress(c, a, default) ==
  /\ th[c] = Idle /\ book[a] # "none"
  /\ Set(c, a, default, FALSE)
  /\ UNCHANGED <<tables, cache, excused, cut>>

ClearDefaultAddress(c) ==
  /\ th[c].pc = "clear"
  /\ book' = [a \in Addresses |-> IF a \in Defaults THEN "plain" ELSE book[a]]
  /\ Wrote(c, Drop({"addresses"}, [th[c] EXCEPT !.pc = "write"]))
  /\ UNCHANGED <<row, profile, device, cache, cut>>

WriteAddress(c) ==
  /\ th[c].pc = "write"
  /\ Open /\ (th[c].fresh \/ book[th[c].address] # "none")
  /\ book' = [book EXCEPT ![th[c].address] =
                IF th[c].default THEN "default" ELSE "plain"]
  /\ Wrote(c, Drop({"addresses"}, Idle))
  /\ UNCHANGED <<row, profile, device, cache, cut>>

DeleteAddress(c, a) ==
  /\ th[c] = Idle /\ book[a] # "none"
  /\ book' = [book EXCEPT ![a] = "none"]
  /\ Wrote(c, Drop({"addresses"}, Idle))
  /\ UNCHANGED <<row, profile, device, cache, cut>>

-----------------------------------------------------------------------------
(* The device.  Whose it is, is read before it is written.  (A device that *)
(* is deleted and registered again in between counts as the same row here; *)
(* the code would not find the row it read, and fail.)                     *)

RegisterDevice(c, owner) ==
  /\ th[c] = Idle /\ (owner = "ours" => Open)
  /\ Goto(c, [pc |-> "device", owner |-> owner, seen |-> device])
  /\ UNCHANGED <<tables, cache, excused, cut>>

\* The lists of the new owner and of the owner that was read are deleted; an
\* owner in between keeps theirs.
UpsertDevice(c) ==
  /\ th[c].pc = "device"
  /\ (th[c].seen = "none") = (device = "none")
  /\ th[c].owner = "ours" => Open
  /\ device' = th[c].owner
  /\ LET ours == "ours" \in {th[c].owner, th[c].seen} IN
       \/ /\ Goto(c, IF ours THEN Drop({"devices"}, Idle) ELSE Idle)
          /\ excused' = (excused \/ (kind = "devices" /\ device = "ours" /\ ~ours))
       \/ "db" \in Faults /\ Goto(c, Idle) /\ excused' = (excused \/ kind = "devices")
  /\ UNCHANGED <<row, profile, book, cache, cut>>

DeleteDevice(c) ==
  /\ th[c] = Idle /\ device # "none"
  /\ Goto(c, [pc |-> "unregister", seen |-> device])
  /\ UNCHANGED <<tables, cache, excused, cut>>

\* Only the list of the owner that was read is deleted.
DeleteDeviceRow(c) ==
  /\ th[c].pc = "unregister" /\ device # "none"
  /\ device' = "none"
  /\ \/ /\ Goto(c, IF th[c].seen = "ours" THEN Drop({"devices"}, Idle) ELSE Idle)
        /\ excused' = (excused \/ (kind = "devices" /\ device # th[c].seen))
     \/ "db" \in Faults /\ Goto(c, Idle) /\ excused' = (excused \/ kind = "devices")
  /\ UNCHANGED <<row, profile, book, cache, cut>>

-----------------------------------------------------------------------------

Dropping == \E c \in Callers : th[c].pc = "drop"

\* A drop that is still to come after the one at hand.
Crash ==
  /\ "crash" \in Faults
  /\ cut' = (cut \/ (Open /\ profile = "none"))
  /\ excused' = (excused \/ Dropping)
  /\ th' = [c \in Callers |-> Idle]
  /\ UNCHANGED <<tables, cache>>

\* Calls on their way to set a default address.
Setter(task) ==
  \/ task.pc \in {"clear", "write"} /\ task.default
  \/ task.pc = "drop" /\ task.next # Idle /\ task.next.pc = "write"

\* Such calls cross when two are under way; that is over when at most one
\* address is the default and nobody is setting one.
Watch ==
  LET setters == {c \in Callers : Setter(th'[c])} IN
  /\ crossed' = \/ Cardinality(setters) > 1
                \/ crossed /\ (setters # {} \/ Cardinality(Defaults') > 1)
  /\ UNCHANGED kind

Init ==
  /\ kind \in Kinds
  /\ row = "none" /\ profile = "none"
  /\ book = [a \in Addresses |-> "none"]
  /\ device = "none"
  /\ cache = None
  /\ th = [c \in Callers |-> Idle]
  /\ excused = FALSE /\ cut = FALSE /\ crossed = FALSE

Handler(c) ==
  \/ Read(c) \/ Store(c) \/ DropCopy(c) \/ Fail(c)
  \/ RegisterUser(c) \/ CreateProfile(c) \/ AlreadyExists(c) \/ LoggedIn(c)
  \/ UpdateUser(c) \/ UpdateProfile(c)
  \/ DeleteUser(c)
  \/ \E a \in Addresses, default \in BOOLEAN :
       CreateAddress(c, a, default) \/ UpdateAddress(c, a, default)
  \/ \E a \in Addresses : DeleteAddress(c, a)
  \/ ClearDefaultAddress(c) \/ WriteAddress(c)
  \/ \E owner \in Owners : RegisterDevice(c, owner)
  \/ UpsertDevice(c) \/ DeleteDevice(c) \/ DeleteDeviceRow(c)

Next == ((\E c \in Callers : Handler(c)) \/ Expire \/ Crash) /\ Watch
Spec == Init /\ [][Next]_vars

-----------------------------------------------------------------------------
(* Properties.                                                             *)

Books == [Addresses -> {"none", "plain", "default"}]
Copies == CASE kind \in {"user", "phone", "profile"} -> Versions
            [] kind = "addresses" -> Books
            [] kind = "devices" -> BOOLEAN

Writing == [pc : {"clear", "write"}, address : Addresses,
            default : BOOLEAN, fresh : BOOLEAN]
Task == [pc : {"idle", "profile", "ensured"}]
        \cup [pc : {"store"}, copy : Copies]
        \cup [pc : {"drop"}, next : {Idle} \cup Writing]
        \cup Writing
        \cup [pc : {"device"}, owner : Owners, seen : Owners \cup {"none"}]
        \cup [pc : {"unregister"}, seen : Owners]

\* Rows, copies and calls keep their types; in particular only what exists is
\* copied.
TypeOK ==
  /\ kind \in Kinds
  /\ row \in Versions \cup {"none"}
  /\ profile \in Versions \cup {"none"}
  /\ book \in Books
  /\ device \in Owners \cup {"none"}
  /\ cache \in Copies \cup {None}
  /\ th \in [Callers -> Task]
  /\ excused \in BOOLEAN /\ cut \in BOOLEAN /\ crossed \in BOOLEAN

\* Every writer deletes the keys of what it changes, the key by phone number
\* and the list of a device's former owner included: a copy that is not what
\* the tables say is about to be deleted, or a reader stored what it had read
\* before a writer, or a device changed hands twice at once, or the deletion
\* or the writer failed.
StaleOnlyByRace == cache \in {None, Truth} \/ excused \/ Dropping

\* An account is there or not: it has a profile unless its registration is
\* under way or was cut off, and nothing of it outlives it.
WholeAccount ==
  /\ Open => profile # "none" \/ cut \/ \E c \in Callers : th[c].pc = "profile"
  /\ ~Open => profile = "none" /\ device # "ours" /\ \A a \in Addresses : book[a] = "none"

\* A login that finds the account leaves it whole: what an interrupted
\* registration left undone is repaired by then.
LoginRepairs ==
  \A c \in Callers :
    th[c].pc = "ensured" =>
      ~Open \/ profile # "none" \/ \E o \in Callers : th[o].pc = "profile"

\* There is one default address at most, unless calls that set it crossed.
OneDefaultUnlessCrossed == Cardinality(Defaults) <= 1 \/ crossed
=============================================================================
