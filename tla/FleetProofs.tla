---------------------------- MODULE FleetProofs ----------------------------
(* Proofs about Fleet.                                                     *)
EXTENDS FleetInv, TLAPS

(* The parts of the type invariant; Watch alone writes the rest of it.     *)
TablesOK ==
  /\ paper \in [Papers -> Decisions \cup {"none", "pending"}]
  /\ row \in [Vehicles -> Row]
  /\ duty \in [Drivers -> [vehicle : Vehicles \cup {None}, online : BOOLEAN]]
  /\ \A d \in Drivers : duty[d].vehicle = None \/ /\ Exists(duty[d].vehicle)
                                                  /\ Owner[duty[d].vehicle] = d
RedisOK ==
  /\ cache \in [Vehicles -> Row \cup {None}]
  /\ geo \subseteq Vehicles
  /\ excused \subseteq Vehicles /\ strayed \subseteq Vehicles /\ relisted \subseteq Vehicles
HistoryOK ==
  /\ final \subseteq Papers
  /\ approved \subseteq Drivers /\ claimed \subseteq Drivers /\ verified \subseteq Vehicles
ThreadsOK == th \in [Callers -> Task]
SeenOK == seen \in [Callers -> [ready : SUBSET Vehicles, on : SUBSET Vehicles]]

(* What the steps keep without looking at seen.                            *)
StepInv == /\ TablesOK /\ RedisOK /\ HistoryOK /\ ThreadsOK
           /\ PapersOK /\ ClearedOK
           /\ OnDutyWasCleared /\ StaleOnlyByRace /\ IndexFollows

LEMMA Parts ==
  /\ TypeOK <=> TablesOK /\ RedisOK /\ HistoryOK /\ ThreadsOK /\ SeenOK
  /\ RoadInv <=> StepInv /\ SeenOK /\ SearchOK
<1>1. TypeOK <=> TablesOK /\ RedisOK /\ HistoryOK /\ ThreadsOK /\ SeenOK
  BY DEF TypeOK, TablesOK, RedisOK, HistoryOK, ThreadsOK, SeenOK
<1>2. QED
  BY <1>1 DEF RoadInv, CoreInv, StepInv

-----------------------------------------------------------------------------
(* Tasks.                                                                  *)

LEMMA TaskShape ==
  ASSUME NEW t \in Task
  PROVE  /\ t.pc = "idle" => t = Idle
         /\ t.pc \in {"cleared", "sync", "list", "unlist"} =>
              t.vehicle \in Vehicles /\ t = [pc |-> t.pc, vehicle |-> t.vehicle]
         /\ t.pc = "store" =>
              t.vehicle \in Vehicles /\ t.found \in Row /\ t.on \in BOOLEAN
         /\ t.pc = "act" => t.vehicle \in Vehicles /\ t.on \in BOOLEAN
         /\ t.pc = "invalidate" => t.vehicle \in Vehicles /\ t.unlist \in BOOLEAN
         /\ t.pc = "review" =>
              t.paper \in Papers /\ t = [pc |-> "review", paper |-> t.paper]
         /\ t.pc \in {"hits", "online", "results", "ready"} => t.vehicles \subseteq Vehicles
         /\ t.pc = "ready" => t.gone \subseteq Vehicles
BY DEF Task, Idle

LEMMA TaskMade ==
  /\ Idle \in Task
  /\ \A v \in Vehicles :
       /\ \A pc \in {"cleared", "sync", "list", "unlist"} : [pc |-> pc, vehicle |-> v] \in Task
       /\ \A found \in Row, on \in BOOLEAN :
            [pc |-> "store", vehicle |-> v, found |-> found, on |-> on] \in Task
       /\ \A on \in BOOLEAN : [pc |-> "act", vehicle |-> v, on |-> on] \in Task
       /\ \A unlist \in BOOLEAN : Invalidation(v, unlist) \in Task
  /\ \A p \in Papers : [pc |-> "review", paper |-> p] \in Task
  /\ \A vs \in SUBSET Vehicles :
       /\ \A pc \in {"hits", "online", "results"} : [pc |-> pc, vehicles |-> vs] \in Task
       /\ \A gone \in SUBSET Vehicles :
            [pc |-> "ready", vehicles |-> vs, gone |-> gone] \in Task
BY DEF Task, Invalidation

LEMMA Members ==
  ASSUME NEW v
  PROVE  /\ v \in Invalidating <=>
              \E c \in Callers : th[c].pc = "invalidate" /\ th[c].vehicle = v
         /\ v \in Unlisting <=>
              \E c \in Callers :
                /\ th[c].pc = "unlist" \/ (th[c].pc = "invalidate" /\ th[c].unlist)
                /\ th[c].vehicle = v
BY DEF Invalidating, Unlisting

LEMMA MembersNext ==
  ASSUME NEW v
  PROVE  /\ v \in Invalidating' <=>
              \E c \in Callers : th'[c].pc = "invalidate" /\ th'[c].vehicle = v
         /\ v \in Unlisting' <=>
              \E c \in Callers :
                /\ th'[c].pc = "unlist" \/ (th'[c].pc = "invalidate" /\ th'[c].unlist)
                /\ th'[c].vehicle = v
BY DEF Invalidating, Unlisting

(* One caller moves on.                                                    *)
LEMMA Moved ==
  ASSUME ThreadsOK, NEW c \in Callers, NEW t \in Task, Goto(c, t)
  PROVE  /\ ThreadsOK'
         /\ th'[c] = t /\ \A o \in Callers \ {c} : th'[o] = th[o]
         /\ \A v : v \in Invalidating =>
              v \in Invalidating' \/ (th[c].pc = "invalidate" /\ th[c].vehicle = v)
         /\ t.pc = "invalidate" => t.vehicle \in Invalidating'
         /\ \A v : v \in Unlisting =>
              \/ v \in Unlisting'
              \/ /\ th[c].pc = "unlist" \/ (th[c].pc = "invalidate" /\ th[c].unlist)
                 /\ th[c].vehicle = v
         /\ t.pc = "unlist" \/ (t.pc = "invalidate" /\ t.unlist) => t.vehicle \in Unlisting'
<1>1. th'[c] = t /\ \A o \in Callers \ {c} : th'[o] = th[o]
  BY DEF ThreadsOK, Goto
<1>2. ThreadsOK'
  BY DEF ThreadsOK, Goto
<1>3. \A v : v \in Invalidating =>
        v \in Invalidating' \/ (th[c].pc = "invalidate" /\ th[c].vehicle = v)
  BY <1>1, Members, MembersNext
<1>4. \A v : v \in Unlisting =>
        \/ v \in Unlisting'
        \/ /\ th[c].pc = "unlist" \/ (th[c].pc = "invalidate" /\ th[c].unlist)
           /\ th[c].vehicle = v
  BY <1>1, Members, MembersNext
<1>5. t.pc = "invalidate" => t.vehicle \in Invalidating'
  BY <1>1, MembersNext
<1>6. t.pc = "unlist" \/ (t.pc = "invalidate" /\ t.unlist) => t.vehicle \in Unlisting'
  BY <1>1, MembersNext
<1>7. QED
  BY <1>1, <1>2, <1>3, <1>4, <1>5, <1>6

-----------------------------------------------------------------------------
(* How each part is kept.                                                  *)

(* Entries of the index nothing has to excuse.                             *)
Explained == {v \in OnDuty : v \in Listable \cup relisted}

LEMMA PapersQuiet ==
  ASSUME PapersOK, UNCHANGED <<paper, final>>,
         \A c \in Callers : \/ th'[c] = th[c]
                            \/ \A p \in final : th'[c] # [pc |-> "review", paper |-> p]
  PROVE  PapersOK'
BY DEF PapersOK

LEMMA ClearedKept ==
  ASSUME ThreadsOK, ThreadsOK', ClearedOK,
         approved \cup claimed \subseteq approved' \cup claimed', verified \subseteq verified',
         \A v \in Vehicles : row'[v].status = "new" => row[v].status = "new",
         \A c \in Callers : th'[c] = th[c] \/ Cleared(th[c])'
  PROVE  \A c \in Callers : Cleared(th[c])'
<1> TAKE c \in Callers
<1>1. SUFFICES ASSUME th'[c] = th[c] PROVE Cleared(th[c])'
  OBVIOUS
<1>2. th[c] \in Task
  BY DEF ThreadsOK
<1>3. Cleared(th[c])
  BY DEF ClearedOK
<1>4. QED
  BY <1>1, <1>2, <1>3, TaskShape DEF Cleared

LEMMA StaleKept ==
  ASSUME StaleOnlyByRace,
         \A v \in Vehicles :
           \/ cache'[v] \in {None, row'[v]}
           \/ v \in excused' \/ v \in Invalidating'
           \/ /\ cache'[v] = cache[v] /\ row'[v] = row[v]
              /\ v \in excused => v \in excused'
              /\ v \in Invalidating => v \in Invalidating' \/ v \in excused'
  PROVE  StaleOnlyByRace'
BY DEF StaleOnlyByRace

LEMMA IndexKept ==
  ASSUME IndexFollows,
         \A v \in geo' :
           \/ v \in Explained' \/ v \in strayed' \/ v \in Unlisting'
           \/ /\ v \in geo
              /\ v \in Explained => v \in Explained' \/ v \in strayed' \/ v \in Unlisting'
              /\ v \in strayed => v \in strayed' \/ v \in Unlisting'
              /\ v \in Unlisting => v \in Unlisting' \/ v \in strayed'
  PROVE  IndexFollows'
BY DEF IndexFollows, Explained

(* A step in which one caller moves on and nothing else changes.           *)
LEMMA QuietKeeps ==
  ASSUME StepInv, NEW c \in Callers, NEW t \in Task, Goto(c, t),
         UNCHANGED <<papers, tables, redis>>,
         th[c].pc \notin {"invalidate", "unlist"},
         \A p \in final : t # [pc |-> "review", paper |-> p],
         Cleared(t)
  PROVE  StepInv'
<1>0. UNCHANGED <<paper, final, approved, claimed, row, duty, verified, cache, geo,
                  excused, strayed, relisted>>
  BY DEF papers, tables, redis
<1>1. /\ TablesOK /\ RedisOK /\ HistoryOK /\ ThreadsOK /\ PapersOK /\ ClearedOK
      /\ OnDutyWasCleared /\ StaleOnlyByRace /\ IndexFollows
  BY DEF StepInv
<1>2. TablesOK' /\ RedisOK' /\ HistoryOK' /\ OnDutyWasCleared'
  BY <1>0, <1>1 DEF TablesOK, RedisOK, HistoryOK, OnDutyWasCleared, Exists
<1>3. /\ ThreadsOK' /\ th'[c] = t /\ \A o \in Callers \ {c} : th'[o] = th[o]
      /\ \A v : v \in Invalidating => v \in Invalidating'
      /\ \A v : v \in Unlisting => v \in Unlisting'
  BY <1>1, Moved
<1>4. PapersOK'
  BY <1>0, <1>1, <1>3, PapersQuiet
<1>5. \A o \in Callers : th'[o] = th[o] \/ Cleared(th[o])'
  BY <1>0, <1>3 DEF Cleared
<1>6. ClearedOK'
  BY <1>0, <1>1, <1>3, <1>5, ClearedKept DEF ClearedOK
<1>7. StaleOnlyByRace'
  BY <1>0, <1>1, <1>3, StaleKept
<1>8. Explained' = Explained
  BY <1>0 DEF Explained, Listable, OnDuty
<1>9. IndexFollows'
  BY <1>0, <1>1, <1>3, <1>8, IndexKept
<1>10. QED
  BY <1>2, <1>3, <1>4, <1>6, <1>7, <1>9 DEF StepInv

-----------------------------------------------------------------------------
(* Steps that only move a caller on.                                       *)

LEMMA ReviewBeginKeeps ==
  ASSUME StepInv, NEW c \in Callers, NEW p \in Papers, ReviewBegin(c, p)
  PROVE  StepInv'
<1> DEFINE t == [pc |-> "review", paper |-> p]
<1>1. t \in Task /\ th[c].pc = "idle" /\ Goto(c, t)
  BY TaskMade DEF ReviewBegin, Idle
<1>2. \A q \in final : t # [pc |-> "review", paper |-> q]
  <2>1. p \notin final
    BY DEF StepInv, PapersOK, Decisions, ReviewBegin
  <2>2. \A q : t = [pc |-> "review", paper |-> q] => p = q
    OBVIOUS
  <2>3. QED
    BY <2>1, <2>2
<1>3. Cleared(t)
  BY DEF Cleared
<1>4. QED
  BY <1>1, <1>2, <1>3, QuietKeeps DEF ReviewBegin

LEMMA SetDriverAvailabilityKeeps ==
  ASSUME StepInv, NEW c \in Callers, NEW v \in Vehicles, SetDriverAvailability(c, v)
  PROVE  StepInv'
<1> DEFINE t == [pc |-> "cleared", vehicle |-> v]
<1>1. t \in Task /\ th[c].pc = "idle" /\ Goto(c, t)
  BY DEF SetDriverAvailability, Idle, Task
<1>2. Cleared(t)
  BY FleetConstants DEF Cleared, StepInv, ClearedOK, SetDriverAvailability
<1>3. QED
  BY <1>1, <1>2, QuietKeeps DEF SetDriverAvailability

(* A vehicle has been looked up, in Redis or in the database.              *)
LEMMA ProceedCleared ==
  ASSUME NEW v \in Vehicles, NEW found \in Row, NEW on \in BOOLEAN, NEW c \in Callers,
         on => Owner[v] \in approved \cup claimed,
         found.verification = "verified" => v \in verified,
         Proceed(c, v, found, on)
  PROVE  \E t \in Task : /\ Goto(c, t) /\ Cleared(t)
                         /\ t.pc \notin {"review", "invalidate", "unlist"}
<1>1. CASE on /\ ~MayGoOnDuty(found)
  <2>1. Goto(c, Idle)
    BY <1>1 DEF Proceed
  <2>2. QED
    BY <2>1, TaskMade DEF Cleared, Idle
<1>2. CASE ~(on /\ ~MayGoOnDuty(found))
  <2> DEFINE t == [pc |-> "act", vehicle |-> v, on |-> on]
  <2>1. Goto(c, t) /\ t \in Task
    BY <1>2, TaskMade DEF Proceed
  <2>2. Cleared(t)
    BY <1>2 DEF Cleared, MayGoOnDuty
  <2>3. QED
    BY <2>1, <2>2
<1>3. QED
  BY <1>1, <1>2

LEMMA LookupKeeps ==
  ASSUME StepInv, NEW c \in Callers, NEW v \in Vehicles, NEW on \in BOOLEAN,
         th[c].pc \in {"idle", "cleared"},
         on => Owner[v] \in approved \cup claimed,
         Lookup(c, v, on)
  PROVE  StepInv'
<1>1. CASE cache[v] # None /\ Proceed(c, v, cache[v], on)
  <2>1. cache[v] \in Row /\ (cache[v].verification = "verified" => v \in verified)
    BY <1>1 DEF StepInv, RedisOK, ClearedOK
  <2>2. PICK t \in Task : /\ Goto(c, t) /\ Cleared(t)
                          /\ t.pc \notin {"review", "invalidate", "unlist"}
    BY <1>1, <2>1, ProceedCleared
  <2>3. \A p \in final : t # [pc |-> "review", paper |-> p]
    BY <2>2
  <2>4. QED
    BY <2>2, <2>3, QuietKeeps DEF Lookup
<1>2. CASE /\ Exists(v)
           /\ Goto(c, [pc |-> "store", vehicle |-> v, found |-> row[v], on |-> on])
  <2> DEFINE t == [pc |-> "store", vehicle |-> v, found |-> row[v], on |-> on]
  <2>1. row[v] \in Row /\ row[v].status # "new"
    BY <1>2, FleetConstants DEF StepInv, TablesOK, Exists
  <2>2. t \in Task /\ Goto(c, t)
    BY <1>2, <2>1, TaskMade
  <2>3. Cleared(t)
    BY <2>1 DEF Cleared, StepInv, ClearedOK
  <2>4. QED
    BY <2>2, <2>3, QuietKeeps DEF Lookup
<1>3. CASE Goto(c, Idle)
  BY <1>3, TaskMade, QuietKeeps DEF Lookup, Cleared, Idle
<1>4. QED
  BY <1>1, <1>2, <1>3 DEF Lookup

LEMMA GetVehicleByIDKeeps ==
  ASSUME StepInv, NEW c \in Callers, NEW v \in Vehicles, GetVehicleByID(c, v)
  PROVE  StepInv'
<1>1. CASE th[c] = Idle /\ Lookup(c, v, FALSE)
  <2>1. th[c].pc = "idle" /\ (FALSE => Owner[v] \in approved \cup claimed) /\ FALSE \in BOOLEAN
    BY <1>1 DEF Idle
  <2>2. QED
    BY <1>1, <2>1, LookupKeeps
<1>2. CASE th[c] = [pc |-> "cleared", vehicle |-> v] /\ Lookup(c, v, TRUE)
  <2>1. Owner[v] \in approved \cup claimed /\ th[c].pc = "cleared"
    BY <1>2 DEF StepInv, ClearedOK, Cleared
  <2>2. QED
    BY <1>2, <2>1, LookupKeeps
<1>3. QED
  BY <1>1, <1>2 DEF GetVehicleByID

LEMMA IdleKeeps ==
  ASSUME StepInv, NEW c \in Callers, Goto(c, Idle), UNCHANGED <<papers, tables, redis>>,
         th[c].pc \notin {"invalidate", "unlist"}
  PROVE  StepInv'
BY TaskMade, QuietKeeps DEF Cleared, Idle

LEMMA LocationKeeps ==
  ASSUME StepInv, NEW c \in Callers, UpsertLocation(c) \/ syncGeoIndex(c) \/ Return(c)
  PROVE  StepInv'
<1>1. th[c] \in Task /\ th[c].pc \in {"act", "sync"}
  BY DEF StepInv, ThreadsOK, UpsertLocation, syncGeoIndex, Return, Acting
<1>2. CASE Goto(c, Idle)
  BY <1>1, <1>2, IdleKeeps DEF UpsertLocation, syncGeoIndex, Return
<1>3. CASE \E pc \in {"sync", "list"} : Goto(c, [pc |-> pc, vehicle |-> th[c].vehicle])
  <2>1. PICK pc \in {"sync", "list"} : Goto(c, [pc |-> pc, vehicle |-> th[c].vehicle])
    BY <1>3
  <2> DEFINE t == [pc |-> pc, vehicle |-> th[c].vehicle]
  <2>2. t \in Task /\ t.pc = pc
    BY <1>1, TaskShape, TaskMade
  <2>3. Cleared(t)
    BY <2>2 DEF Cleared
  <2>4. QED
    BY <1>1, <2>1, <2>2, <2>3, QuietKeeps DEF UpsertLocation, syncGeoIndex, Return
<1>4. QED
  BY <1>2, <1>3 DEF UpsertLocation, syncGeoIndex, Return

LEMMA SearchKeeps ==
  ASSUME StepInv, NEW c \in Callers,
         SearchNearby(c) \/ ReadVehicles(c) \/ searchNearbyFallback(c) \/ ReturnResults(c)
  PROVE  StepInv'
<1>0. /\ th[c] \in Task /\ th[c].pc \notin {"invalidate", "unlist"}
      /\ UNCHANGED <<papers, tables, redis>>
  BY DEF StepInv, ThreadsOK, SearchNearby, ReadVehicles, searchNearbyFallback,
         ReturnResults, Idle
<1>1. SUFFICES ASSUME NEW t \in Task, Goto(c, t),
                      t.pc \in {"idle", "hits", "online", "ready", "results"}
               PROVE  StepInv'
  <2>1. geo \subseteq Vehicles /\ OnDuty \subseteq Vehicles
    BY FleetConstants DEF StepInv, RedisOK, HistoryOK, OnDutyWasCleared, OnDuty
  <2>2. ASSUME SearchNearby(c)
        PROVE  \E t \in Task : Goto(c, t) /\ t.pc \in {"hits", "online"}
    <3>1. PICK pc \in {"hits", "online"}, near \in SUBSET Vehicles :
             Goto(c, [pc |-> pc, vehicles |-> near])
      BY <2>1, <2>2 DEF SearchNearby
    <3> DEFINE t == [pc |-> pc, vehicles |-> near]
    <3>2. t \in Task /\ t.pc = pc
      BY DEF Task
    <3>3. QED
      BY <3>1, <3>2
  <2>3. ASSUME ReadVehicles(c)
        PROVE  \E t \in Task : Goto(c, t) /\ t.pc = "ready"
    <3> DEFINE near == th[c].vehicles \cap Ready
               gone == {v \in th[c].vehicles : ~Exists(v)}
               t == [pc |-> "ready", vehicles |-> near, gone |-> gone]
    <3>1. near \subseteq Vehicles /\ gone \subseteq Vehicles /\ Goto(c, t)
      BY <1>0, <2>3, TaskShape DEF ReadVehicles
    <3>2. t \in Task /\ t.pc = "ready"
      <4> HIDE DEF near, gone
      <4> QED
        BY <3>1 DEF Task
    <3>3. QED
      BY <3>1, <3>2
  <2>4. ASSUME searchNearbyFallback(c)
        PROVE  \E t \in Task : Goto(c, t) /\ t.pc = "results"
    <3> DEFINE near == th[c].vehicles \cap Ready
               t == [pc |-> "results", vehicles |-> near]
    <3>1. near \subseteq Vehicles /\ Goto(c, t)
      BY <1>0, <2>4, TaskShape DEF searchNearbyFallback
    <3>2. t \in Task /\ t.pc = "results"
      <4> HIDE DEF near
      <4> QED
        BY <3>1 DEF Task
    <3>3. QED
      BY <3>1, <3>2
  <2>5. ASSUME ReturnResults(c)
        PROVE  \E t \in Task : Goto(c, t) /\ t.pc = "idle"
    BY <2>5, TaskMade DEF ReturnResults, Idle
  <2>6. QED
    BY <1>1, <2>2, <2>3, <2>4, <2>5
<1>2. Cleared(t) /\ \A p \in final : t # [pc |-> "review", paper |-> p]
  BY <1>1 DEF Cleared
<1>3. QED
  BY <1>0, <1>1, <1>2, QuietKeeps

-----------------------------------------------------------------------------
(* Steps that change papers only.                                          *)

LEMMA PapersKeep ==
  ASSUME StepInv, UNCHANGED <<tables, redis>>,
         th' = th \/ \E c \in Callers : Goto(c, Idle) /\ th[c].pc \notin {"invalidate", "unlist"},
         paper' \in [Papers -> Decisions \cup {"none", "pending"}],
         final' \subseteq Papers, approved' \subseteq Drivers, claimed' \subseteq Drivers,
         PapersOK', approved \cup claimed \subseteq approved' \cup claimed',
         \A d \in Drivers : paper'[d] = "approved" => d \in approved' \cup claimed'
  PROVE  StepInv'
<1>0. UNCHANGED <<row, duty, verified, cache, geo, excused, strayed, relisted>>
  BY DEF tables, redis
<1>1. /\ TablesOK /\ RedisOK /\ HistoryOK /\ ThreadsOK /\ ClearedOK
      /\ OnDutyWasCleared /\ StaleOnlyByRace /\ IndexFollows
  BY DEF StepInv
<1>2. TablesOK' /\ RedisOK' /\ HistoryOK' /\ OnDutyWasCleared'
  BY <1>0, <1>1 DEF TablesOK, RedisOK, HistoryOK, OnDutyWasCleared, Exists
<1>3. /\ ThreadsOK' /\ \A o \in Callers : th'[o] = th[o] \/ th'[o] = Idle
      /\ \A v : v \in Invalidating => v \in Invalidating'
      /\ \A v : v \in Unlisting => v \in Unlisting'
  <2>1. CASE th' = th
    BY <1>1, <2>1 DEF ThreadsOK, Invalidating, Unlisting
  <2>2. ASSUME NEW c \in Callers, Goto(c, Idle), th[c].pc \notin {"invalidate", "unlist"}
        PROVE  <1>3
    BY <1>1, <2>2, TaskMade, Moved
  <2>3. QED
    BY <2>1, <2>2
<1>4. \A o \in Callers : th'[o] = th[o] \/ Cleared(th[o])'
  BY <1>3 DEF Cleared, Idle
<1>5. ClearedOK'
  BY <1>0, <1>1, <1>3, <1>4, ClearedKept DEF ClearedOK
<1>6. StaleOnlyByRace'
  BY <1>0, <1>1, <1>3, StaleKept
<1>7. Explained' = Explained
  BY <1>0 DEF Explained, Listable, OnDuty
<1>8. IndexFollows'
  BY <1>0, <1>1, <1>3, <1>7, IndexKept
<1>9. QED
  BY <1>2, <1>3, <1>5, <1>6, <1>8 DEF StepInv

LEMMA SubmitKYCKeeps ==
  ASSUME StepInv, NEW d \in Drivers, NEW s \in Decisions \cup {"pending"}, SubmitKYC(d, s)
  PROVE  StepInv'
<1>1. /\ paper' = [paper EXCEPT ![d] = s] /\ final' = final \ {d} /\ th' = th
      /\ approved' = approved
      /\ claimed' = IF s = "approved" THEN claimed \cup ({d} \ approved) ELSE claimed
      /\ UNCHANGED <<tables, redis>>
  BY DEF SubmitKYC
<1>2. /\ paper \in [Papers -> Decisions \cup {"none", "pending"}] /\ final \subseteq Papers
      /\ approved \subseteq Drivers /\ claimed \subseteq Drivers /\ d \in Papers
  BY DEF StepInv, TablesOK, HistoryOK, Papers
<1>3. PapersOK'
  BY <1>1, <1>2 DEF StepInv, PapersOK
<1>4. \A e \in Drivers : paper'[e] = "approved" => e \in approved' \cup claimed'
  BY <1>1, <1>2 DEF StepInv, ClearedOK, Papers
<1>5. QED
  BY <1>1, <1>2, <1>3, <1>4, PapersKeep

LEMMA ReviewWriteKeeps ==
  ASSUME StepInv, NEW c \in Callers, ReviewWrite(c)
  PROVE  StepInv'
<1> DEFINE p == th[c].paper
<1>1. /\ th[c] \in Task /\ th[c].pc = "review" /\ Goto(c, Idle)
      /\ UNCHANGED <<tables, redis>>
  BY DEF StepInv, ThreadsOK, ReviewWrite
<1>2. p \in Papers /\ th[c] = [pc |-> "review", paper |-> p]
  BY <1>1, TaskShape
<1>3. /\ paper \in [Papers -> Decisions \cup {"none", "pending"}] /\ final \subseteq Papers
      /\ approved \subseteq Drivers /\ claimed \subseteq Drivers
  BY DEF StepInv, TablesOK, HistoryOK
<1>4. th'[c] = Idle /\ \A o \in Callers \ {c} : th'[o] = th[o]
  BY <1>1, TaskMade, Moved DEF StepInv
<1>5. \A q : Idle # [pc |-> "review", paper |-> q]
  BY DEF Idle
<1>6. CASE UNCHANGED papers
  <2>1. UNCHANGED <<paper, final, approved, claimed>>
    BY <1>6 DEF papers
  <2>2. PapersOK'
    BY <1>4, <1>5, <2>1 DEF StepInv, PapersOK
  <2>3. QED
    BY <1>1, <1>3, <2>1, <2>2, PapersKeep DEF StepInv, ClearedOK
<1>7. ASSUME NEW decision \in Decisions, paper' = [paper EXCEPT ![p] = decision],
             approved' = IF decision = "approved" THEN approved \cup ({p} \cap Drivers)
                                                  ELSE approved,
             claimed' = claimed \ approved',
             final' = IF Racing(c, p) THEN final \ {p} ELSE final \cup {p}
      PROVE  StepInv'
  <2>1. \A q \in Papers : paper'[q] = IF q = p THEN decision ELSE paper[q]
    BY <1>2, <1>3, <1>7
  <2>2. PapersOK'
    <3>1. SUFFICES ASSUME NEW q \in final'
                   PROVE  /\ paper'[q] \in Decisions
                          /\ \A o \in Callers : th'[o] # [pc |-> "review", paper |-> q]
      BY DEF PapersOK
    <3>2. CASE q = p
      <4>1. ~Racing(c, p)
        BY <1>7, <3>1, <3>2
      <4>2. QED
        BY <1>2, <1>4, <1>5, <2>1, <3>2, <4>1 DEF Racing
    <3>3. CASE q # p
      <4>1. q \in final /\ q \in Papers
        BY <1>3, <1>7, <3>1, <3>3
      <4>2. QED
        BY <1>4, <1>5, <2>1, <3>3, <4>1 DEF StepInv, PapersOK
    <3>4. QED
      BY <3>2, <3>3
  <2>3. paper' \in [Papers -> Decisions \cup {"none", "pending"}]
    BY <1>3, <1>7
  <2>4. \A d \in Drivers : paper'[d] = "approved" => d \in approved' \cup claimed'
    BY <1>7, <2>1 DEF StepInv, ClearedOK, Papers
  <2>5. /\ final' \subseteq Papers /\ approved' \subseteq Drivers /\ claimed' \subseteq Drivers
        /\ approved \cup claimed \subseteq approved' \cup claimed'
    BY <1>2, <1>3, <1>7
  <2>6. QED
    BY <1>1, <2>2, <2>3, <2>4, <2>5, PapersKeep
<1>8. QED
  BY <1>6, <1>7 DEF ReviewWrite

LEMMA DocumentKeeps ==
  ASSUME StepInv, NEW c \in Callers, UploadDocument(c) \/ DeleteDocument(c)
  PROVE  StepInv'
<1>1. PICK p \in Documents :
        /\ \/ /\ paper[p] = "none" /\ paper' = [paper EXCEPT ![p] = "pending"]
              /\ final' = final
           \/ paper' = [paper EXCEPT ![p] = "none"] /\ final' = final \ {p}
        /\ Goto(c, Idle) /\ th[c].pc = "act" /\ approved' = approved /\ claimed' = claimed
        /\ UNCHANGED <<tables, redis>>
  BY DEF UploadDocument, DeleteDocument, Acting
<1>2. /\ paper \in [Papers -> Decisions \cup {"none", "pending"}] /\ final \subseteq Papers
      /\ approved \subseteq Drivers /\ claimed \subseteq Drivers /\ p \in Papers /\ p \notin Drivers
  BY FleetConstants DEF StepInv, TablesOK, HistoryOK, Papers
<1>3. \A o \in Callers : th'[o] = th[o] \/ th'[o] = Idle
  BY <1>1, TaskMade, Moved DEF StepInv
<1>4. p \notin final'
  BY <1>1 DEF StepInv, PapersOK, Decisions
<1>5. PapersOK'
  BY <1>1, <1>2, <1>3, <1>4 DEF StepInv, PapersOK, Idle
<1>6. \A d \in Drivers : paper'[d] = "approved" => d \in approved' \cup claimed'
  BY <1>1, <1>2 DEF StepInv, ClearedOK, Papers
<1>7. QED
  BY <1>1, <1>2, <1>5, <1>6, PapersKeep

-----------------------------------------------------------------------------
(* Steps that change the copies or the index only.                         *)

LEMMA StoreKeeps ==
  ASSUME StepInv, NEW c \in Callers, Store(c)
  PROVE  StepInv'
<1> DEFINE v == th[c].vehicle
           found == th[c].found
<1>0. UNCHANGED <<paper, final, approved, claimed, row, duty, verified, geo, strayed, relisted>>
  BY DEF Store, papers, tables
<1>1. /\ TablesOK /\ RedisOK /\ HistoryOK /\ ThreadsOK /\ PapersOK /\ ClearedOK
      /\ OnDutyWasCleared /\ StaleOnlyByRace /\ IndexFollows
  BY DEF StepInv
<1>2. /\ th[c] \in Task /\ th[c].pc = "store" /\ v \in Vehicles /\ found \in Row
      /\ th[c].on \in BOOLEAN
  BY <1>1, TaskShape DEF Store, ThreadsOK
<1>3. /\ th[c].on => Owner[v] \in approved \cup claimed
      /\ row[v].status # "new"
      /\ found.verification = "verified" => v \in verified
  BY <1>1, <1>2 DEF ClearedOK, Cleared
<1>4. PICK t \in Task : /\ Goto(c, t) /\ Cleared(t)
                        /\ t.pc \notin {"review", "invalidate", "unlist"}
  BY <1>2, <1>3, ProceedCleared DEF Store
<1>5. /\ ThreadsOK' /\ th'[c] = t /\ \A o \in Callers \ {c} : th'[o] = th[o]
      /\ \A w : w \in Invalidating => w \in Invalidating'
      /\ \A w : w \in Unlisting => w \in Unlisting'
  BY <1>1, <1>2, <1>4, Moved
<1>6. \/ /\ cache' = [cache EXCEPT ![v] = found]
         /\ excused' = IF found = row[v] THEN excused \ {v} ELSE excused \cup {v}
      \/ cache' = cache /\ excused' = excused
  BY DEF Store
<1>7. \A w \in Vehicles : \/ cache'[w] = cache[w] /\ (w \in excused => w \in excused')
                          \/ w = v /\ cache'[w] = found /\ (found = row[w] \/ w \in excused')
  BY <1>1, <1>2, <1>6 DEF RedisOK
<1>8. RedisOK'
  BY <1>0, <1>1, <1>2, <1>6 DEF RedisOK
<1>9. TablesOK' /\ HistoryOK' /\ OnDutyWasCleared'
  BY <1>0, <1>1 DEF TablesOK, HistoryOK, OnDutyWasCleared, Exists
<1>10. PapersOK'
  BY <1>0, <1>1, <1>4, <1>5, PapersQuiet
<1>11. \A o \in Callers : Cleared(th[o])'
  <2>1. \A o \in Callers : th'[o] = th[o] \/ Cleared(th[o])'
    BY <1>0, <1>4, <1>5 DEF Cleared
  <2>2. QED
    BY <1>0, <1>1, <1>5, <2>1, ClearedKept
<1>12. ClearedOK'
  <2>1. \A w \in Vehicles : \/ cache'[w] = cache[w]
                            \/ /\ cache'[w].verification = "verified" => w \in verified'
                               /\ row'[w].status # "new"
    BY <1>0, <1>3, <1>7
  <2>2. QED
    BY <1>0, <1>1, <1>11, <2>1 DEF ClearedOK
<1>13. StaleOnlyByRace'
  BY <1>0, <1>1, <1>5, <1>7, StaleKept
<1>14. Explained' = Explained
  BY <1>0 DEF Explained, Listable, OnDuty
<1>15. IndexFollows'
  BY <1>0, <1>1, <1>5, <1>14, IndexKept
<1>16. QED
  BY <1>5, <1>8, <1>9, <1>10, <1>12, <1>13, <1>15 DEF StepInv

(* The deletion of a copy, or its failure.                                 *)
LEMMA invalidateVehicleKeeps ==
  ASSUME StepInv, NEW c \in Callers, invalidateVehicle(c)
  PROVE  StepInv'
<1> DEFINE v == th[c].vehicle
           t == IF th[c].unlist THEN [pc |-> "unlist", vehicle |-> v] ELSE Idle
<1>0. UNCHANGED <<paper, final, approved, claimed, row, duty, verified, geo, strayed, relisted>>
  BY DEF invalidateVehicle, papers, tables
<1>1. /\ TablesOK /\ RedisOK /\ HistoryOK /\ ThreadsOK /\ PapersOK /\ ClearedOK
      /\ OnDutyWasCleared /\ StaleOnlyByRace /\ IndexFollows
  BY DEF StepInv
<1>2. /\ th[c] \in Task /\ th[c].pc = "invalidate" /\ v \in Vehicles
      /\ Goto(c, t)
  BY <1>1, TaskShape DEF invalidateVehicle, ThreadsOK
<1>3. /\ t \in Task /\ t.pc \in {"unlist", "idle"}
      /\ th[c].unlist => t.pc = "unlist" /\ t.vehicle = v
  BY <1>2, TaskMade DEF Idle
<1> HIDE DEF t
<1>5. /\ ThreadsOK' /\ th'[c] = t /\ \A o \in Callers \ {c} : th'[o] = th[o]
      /\ \A w : w \in Invalidating => w \in Invalidating' \/ w = v
      /\ \A w : w \in Unlisting => w \in Unlisting'
  BY <1>1, <1>2, <1>3, Moved
<1>6. \/ cache' = [cache EXCEPT ![v] = None] /\ excused' = excused \ {v}
      \/ cache' = cache /\ excused' = excused \cup Copied({v})
  BY DEF invalidateVehicle
<1>7. \A w \in Vehicles :
        \/ w # v /\ cache'[w] = cache[w] /\ (w \in excused => w \in excused')
        \/ w = v /\ cache'[w] = None
        \/ w = v /\ cache'[w] = cache[w] /\ (cache'[w] = None \/ w \in excused')
  <2>1. CASE cache' = [cache EXCEPT ![v] = None] /\ excused' = excused \ {v}
    BY <1>1, <1>2, <2>1 DEF RedisOK
  <2>2. CASE cache' = cache /\ excused' = excused \cup Copied({v})
    BY <2>2 DEF Copied
  <2>3. QED
    BY <1>6, <2>1, <2>2
<1>8. RedisOK'
  BY <1>0, <1>1, <1>2, <1>6 DEF RedisOK, Copied
<1>9. TablesOK' /\ HistoryOK' /\ OnDutyWasCleared'
  BY <1>0, <1>1 DEF TablesOK, HistoryOK, OnDutyWasCleared, Exists
<1>10. PapersOK'
  BY <1>0, <1>1, <1>3, <1>5, PapersQuiet
<1>11. \A o \in Callers : Cleared(th[o])'
  <2>1. \A o \in Callers : th'[o] = th[o] \/ Cleared(th[o])'
    BY <1>3, <1>5 DEF Cleared
  <2>2. QED
    BY <1>0, <1>1, <1>5, <2>1, ClearedKept
<1>12. ClearedOK'
  BY <1>0, <1>1, <1>7, <1>11 DEF ClearedOK
<1>13. StaleOnlyByRace'
  BY <1>0, <1>1, <1>5, <1>7, StaleKept
<1>14. Explained' = Explained
  BY <1>0 DEF Explained, Listable, OnDuty
<1>15. IndexFollows'
  BY <1>0, <1>1, <1>5, <1>14, IndexKept
<1>16. QED
  BY <1>5, <1>8, <1>9, <1>10, <1>12, <1>13, <1>15 DEF StepInv

LEMMA ExpireKeeps ==
  ASSUME StepInv, NEW v \in Vehicles, Expire(v)
  PROVE  StepInv'
<1>0. /\ UNCHANGED <<paper, final, approved, claimed, row, duty, verified, geo, strayed, relisted, th>>
      /\ cache' = [cache EXCEPT ![v] = None] /\ excused' = excused \ {v}
  BY DEF Expire, papers, tables
<1>1. /\ TablesOK /\ RedisOK /\ HistoryOK /\ ThreadsOK /\ PapersOK /\ ClearedOK
      /\ OnDutyWasCleared /\ StaleOnlyByRace /\ IndexFollows
  BY DEF StepInv
<1>2. \A w \in Vehicles : \/ cache'[w] = cache[w] /\ (w \in excused => w \in excused')
                          \/ cache'[w] = None
  BY <1>0, <1>1 DEF RedisOK
<1>3. TablesOK' /\ HistoryOK' /\ OnDutyWasCleared' /\ ThreadsOK' /\ PapersOK' /\ RedisOK'
  BY <1>0, <1>1
     DEF TablesOK, HistoryOK, OnDutyWasCleared, Exists, ThreadsOK, PapersOK, RedisOK
<1>4. ClearedOK'
  BY <1>0, <1>1, <1>2 DEF ClearedOK, Cleared
<1>5. UNCHANGED <<Explained, Invalidating, Unlisting>>
  BY <1>0 DEF Explained, Listable, OnDuty, Invalidating, Unlisting
<1>6. StaleOnlyByRace'
  BY <1>0, <1>1, <1>2, <1>5, StaleKept
<1>7. IndexFollows'
  BY <1>0, <1>1, <1>5 DEF IndexFollows, Explained
<1>8. QED
  BY <1>3, <1>4, <1>6, <1>7 DEF StepInv

(* What GeoAdd, GeoRemove and the search write: the index and its excuses. *)
LEMMA IndexStepKeeps ==
  ASSUME StepInv, NEW c \in Callers, NEW t \in Task, Goto(c, t),
         UNCHANGED <<papers, tables, cache, excused>>,
         geo' \subseteq Vehicles, strayed' \subseteq Vehicles, relisted' \subseteq Vehicles,
         th[c].pc # "invalidate", t.pc \in {"idle", "results"}, IndexFollows'
  PROVE  StepInv'
<1>0. UNCHANGED <<paper, final, approved, claimed, row, duty, verified, cache, excused>>
  BY DEF papers, tables
<1>1. /\ TablesOK /\ RedisOK /\ HistoryOK /\ ThreadsOK /\ PapersOK /\ ClearedOK
      /\ OnDutyWasCleared /\ StaleOnlyByRace
  BY DEF StepInv
<1>2. TablesOK' /\ HistoryOK' /\ OnDutyWasCleared' /\ RedisOK'
  BY <1>0, <1>1 DEF TablesOK, HistoryOK, OnDutyWasCleared, Exists, RedisOK
<1>3. /\ ThreadsOK' /\ th'[c] = t /\ \A o \in Callers \ {c} : th'[o] = th[o]
      /\ \A w : w \in Invalidating => w \in Invalidating'
  BY <1>1, Moved
<1>4. PapersOK'
  BY <1>0, <1>1, <1>3, PapersQuiet
<1>5. \A o \in Callers : th'[o] = th[o] \/ Cleared(th[o])'
  BY <1>3 DEF Cleared
<1>6. ClearedOK'
  BY <1>0, <1>1, <1>3, <1>5, ClearedKept DEF ClearedOK
<1>7. StaleOnlyByRace'
  BY <1>0, <1>1, <1>3, StaleKept
<1>8. QED
  BY <1>2, <1>3, <1>4, <1>6, <1>7 DEF StepInv

LEMMA GeoKeeps ==
  ASSUME StepInv, NEW c \in Callers, GeoAdd(c) \/ GeoRemove(c) \/ ReadAvailabilities(c)
  PROVE  StepInv'
<1>0. /\ th[c] \in Task /\ th[c].pc \in {"list", "unlist", "ready"}
      /\ UNCHANGED <<papers, tables, cache, excused>>
      /\ geo \subseteq Vehicles /\ strayed \subseteq Vehicles /\ relisted \subseteq Vehicles
      /\ ThreadsOK /\ IndexFollows
  BY DEF StepInv, RedisOK, ThreadsOK, GeoAdd, GeoRemove, ReadAvailabilities
<1>1. Listable' = Listable /\ OnDuty' = OnDuty
  BY <1>0 DEF Listable, OnDuty, tables
<1>2. CASE GeoAdd(c)
  <2> DEFINE v == th[c].vehicle
  <2>1. v \in Vehicles /\ th[c].pc = "list" /\ Goto(c, Idle)
    BY <1>0, <1>2, TaskShape DEF GeoAdd
  <2>2. \A w : w \in Unlisting => w \in Unlisting'
    BY <1>0, <2>1, TaskMade, Moved
  <2>3. \/ /\ geo' = geo \cup {v}
           /\ strayed' = IF v \in OnDuty THEN strayed \ {v} ELSE strayed \cup {v}
           /\ relisted' = IF v \in Listable THEN relisted \ {v} ELSE relisted \cup {v}
        \/ geo' = geo /\ strayed' = strayed /\ relisted' = relisted
    BY <1>2 DEF GeoAdd
  <2>4. IndexFollows'
    BY <1>0, <1>1, <2>2, <2>3 DEF IndexFollows, Explained
  <2>5. QED
    BY <1>0, <2>1, <2>3, <2>4, TaskMade, IndexStepKeeps DEF Idle
<1>3. CASE GeoRemove(c)
  <2> DEFINE v == th[c].vehicle
  <2>1. v \in Vehicles /\ th[c].pc = "unlist" /\ Goto(c, Idle)
    BY <1>0, <1>3, TaskShape DEF GeoRemove
  <2>2. \A w : w \in Unlisting => w \in Unlisting' \/ w = v
    BY <1>0, <2>1, TaskMade, Moved
  <2>3. \/ geo' = geo \ {v} /\ strayed' = strayed \ {v} /\ relisted' = relisted \ {v}
        \/ geo' = geo /\ strayed' = strayed \cup (geo \cap {v}) /\ relisted' = relisted
    BY <1>3 DEF GeoRemove, Removed
  <2>4. IndexFollows'
    BY <1>0, <1>1, <2>2, <2>3 DEF IndexFollows, Explained
  <2>5. QED
    BY <1>0, <2>1, <2>3, <2>4, TaskMade, IndexStepKeeps DEF Idle
<1>4. CASE ReadAvailabilities(c)
  <2> DEFINE near == th[c].vehicles \cap OnDuty
             t == [pc |-> "results", vehicles |-> near]
  <2>1. near \subseteq Vehicles /\ th[c].pc = "ready" /\ Goto(c, t)
    BY <1>0, <1>4, TaskShape DEF ReadAvailabilities
  <2>2. t \in Task /\ t.pc = "results"
    <3> HIDE DEF near
    <3> QED
      BY <2>1 DEF Task
  <2>3. \A w : w \in Unlisting => w \in Unlisting'
    BY <1>0, <2>1, <2>2, Moved
  <2>4. PICK gone \in SUBSET th[c].gone :
          geo' = geo \ gone /\ strayed' = strayed \ gone /\ relisted' = relisted \ gone
    BY <1>4 DEF ReadAvailabilities, Removed
  <2>5. IndexFollows'
    BY <1>0, <1>1, <2>3, <2>4 DEF IndexFollows, Explained
  <2>6. QED
    BY <1>0, <2>1, <2>2, <2>4, <2>5, IndexStepKeeps
<1>5. QED
  BY <1>2, <1>3, <1>4

-----------------------------------------------------------------------------
(* Writes of a vehicle.                                                    *)

(* Registering is the only write that nobody's call has looked up first.   *)
LEMMA RegisterVehicleKeeps ==
  ASSUME StepInv, NEW v \in Vehicles, RegisterVehicle(v)
  PROVE  StepInv'
<1>0. /\ UNCHANGED <<paper, final, approved, claimed, duty, verified, cache, geo,
                     excused, strayed, relisted, th>>
      /\ row[v].status = "new" /\ row' = [row EXCEPT ![v].status = "active"]
  BY DEF RegisterVehicle, papers, redis
<1>1. /\ TablesOK /\ RedisOK /\ HistoryOK /\ ThreadsOK /\ PapersOK /\ ClearedOK
      /\ OnDutyWasCleared /\ StaleOnlyByRace /\ IndexFollows
  BY DEF StepInv
<1>2. /\ row' \in [Vehicles -> Row]
      /\ \A w \in Vehicles \ {v} : row'[w] = row[w]
      /\ row'[v].status = "active" /\ row'[v].verification = row[v].verification
  <2>1. row[v] \in Row /\ row' = [row EXCEPT ![v] = [row[v] EXCEPT !.status = "active"]]
    BY <1>0, <1>1 DEF TablesOK
  <2>2. row[v] = [status |-> row[v].status, verification |-> row[v].verification]
    BY <2>1 DEF Row
  <2>3. [row[v] EXCEPT !.status = "active"] =
          [status |-> "active", verification |-> row[v].verification]
    BY <2>2
  <2>4. [row[v] EXCEPT !.status = "active"] \in Row
    BY <2>1, <2>3, FleetConstants DEF Row
  <2>5. QED
    BY <1>1, <2>1, <2>3, <2>4 DEF TablesOK
<1>3. \A w \in Vehicles : Exists(w) => Exists(w)'
  BY <1>2, FleetConstants DEF Exists
<1>4. TablesOK'
  <2>1. \A d \in Drivers : duty[d].vehicle = None \/ duty[d].vehicle \in Vehicles
    BY <1>1 DEF TablesOK
  <2>2. QED
    BY <1>0, <1>1, <1>2, <1>3, <2>1 DEF TablesOK
<1>5. RedisOK' /\ HistoryOK' /\ OnDutyWasCleared' /\ ThreadsOK' /\ PapersOK'
  BY <1>0, <1>1 DEF RedisOK, HistoryOK, OnDutyWasCleared, ThreadsOK, PapersOK
<1>6. \A c \in Callers : Cleared(th[c])'
  BY <1>0, <1>1, <1>2, <1>5, ClearedKept
<1>7. ClearedOK'
  BY <1>0, <1>1, <1>2, <1>6 DEF ClearedOK
<1>8. Invalidating' = Invalidating /\ Unlisting' = Unlisting
  BY <1>0 DEF Invalidating, Unlisting
<1>9. StaleOnlyByRace'
  <2>1. cache'[v] = None
    BY <1>0, <1>1 DEF ClearedOK
  <2>2. QED
    BY <1>0, <1>1, <1>2, <1>8, <2>1, StaleKept
<1>10. IndexFollows'
  <2>1. Explained \subseteq Explained'
    BY <1>0, <1>2 DEF Explained, Listable, OnDuty
  <2>2. QED
    BY <1>0, <1>1, <1>8, <2>1 DEF IndexFollows, Explained
<1>11. QED
  BY <1>4, <1>5, <1>7, <1>9, <1>10 DEF StepInv

(* A statement about the vehicle a caller has looked up, answered or not:  *)
(* afterwards the copy and the index entry are about to be deleted, or are *)
(* excused, and only that vehicle's row, and nobody else's switch, is      *)
(* another.                                                                *)
LEMMA WriteKeeps ==
  ASSUME StepInv, NEW c \in Callers, NEW task \in Task,
         Acting(c), Exists(th[c].vehicle),
         Answered(c, task), Cleared(task),
         task.pc = "invalidate", task.vehicle = th[c].vehicle,
         TablesOK', HistoryOK',
         final' \subseteq final, \A p \in final' : paper'[p] = paper[p],
         \A d \in Drivers : \/ duty'[d] = duty[d]
                            \/ ~duty'[d].online /\ duty[d].vehicle = th[c].vehicle,
         \A w \in Vehicles \ {th[c].vehicle} : row'[w] = row[w],
         row'[th[c].vehicle].status # "new",
         row'[th[c].vehicle].verification = "verified" => th[c].vehicle \in verified',
         \/ th[c].vehicle \in Explained => th[c].vehicle \in Explained'
         \/ task.unlist,
         relisted' \in {relisted, relisted \ Listable'},
         approved' = approved, claimed' = claimed, verified \subseteq verified',
         \A d \in Drivers : paper'[d] = "approved" => d \in approved \cup claimed
  PROVE  StepInv'
<1> DEFINE v == th[c].vehicle
<1>1. /\ TablesOK /\ RedisOK /\ HistoryOK /\ ThreadsOK /\ PapersOK /\ ClearedOK
      /\ OnDutyWasCleared /\ StaleOnlyByRace /\ IndexFollows
  BY DEF StepInv
<1>2. th[c] \in Task /\ th[c].pc = "act" /\ v \in Vehicles
  BY <1>1, TaskShape DEF Acting, ThreadsOK
<1>3. row[v].status # "new"
  BY FleetConstants DEF Exists
<1>4. PICK t \in Task :
        /\ Goto(c, t) /\ cache' = cache /\ geo' = geo
        /\ \/ t = task /\ excused' = excused /\ strayed' = strayed
           \/ /\ t = Idle /\ excused' = excused \cup Copied({v})
              /\ strayed' = strayed \cup (geo \cap {v})
  BY TaskMade DEF Answered
<1>5. /\ ThreadsOK' /\ th'[c] = t /\ \A o \in Callers \ {c} : th'[o] = th[o]
      /\ \A w : w \in Invalidating => w \in Invalidating'
      /\ \A w : w \in Unlisting => w \in Unlisting'
      /\ v \in Invalidating' \/ v \in excused' \/ cache'[v] = None
      /\ task.unlist => v \in Unlisting' \/ v \in strayed' \/ v \notin geo'
  BY <1>1, <1>2, <1>4, Moved DEF Copied
<1>6. RedisOK'
  BY <1>1, <1>2, <1>4 DEF RedisOK, Copied
<1>7. OnDutyWasCleared'
  BY <1>1 DEF OnDutyWasCleared
<1>8. \A o \in Callers : Cleared(th[o])'
  <2>1. Cleared(t)'
    <3>1. CASE t = task
      BY <3>1 DEF Cleared
    <3>2. CASE t = Idle
      BY <3>2 DEF Cleared, Idle
    <3>3. QED
      BY <1>4, <3>1, <3>2
  <2>2. \A o \in Callers : th'[o] = th[o] \/ Cleared(th[o])'
    BY <1>5, <2>1 DEF Cleared
  <2>3. \A w \in Vehicles : row'[w].status = "new" => row[w].status = "new"
    OBVIOUS
  <2>4. QED
    BY <1>1, <1>5, <2>2, <2>3, ClearedKept
<1>9. ClearedOK'
  <2>1. \A w \in Vehicles : row'[w].verification = "verified" => w \in verified'
    BY <1>1 DEF ClearedOK
  <2>2. \A w \in Vehicles :
          /\ cache'[w] # None /\ cache'[w].verification = "verified" => w \in verified'
          /\ row'[w].status = "new" => cache'[w] = None
    BY <1>1, <1>4 DEF ClearedOK
  <2>3. QED
    BY <1>8, <2>1, <2>2 DEF ClearedOK
<1>10. StaleOnlyByRace'
  <2>1. \A w \in Vehicles :
          \/ w \in excused' \/ w \in Invalidating' \/ cache'[w] = None
          \/ /\ cache'[w] = cache[w] /\ row'[w] = row[w]
             /\ w \in excused => w \in excused'
             /\ w \in Invalidating => w \in Invalidating' \/ w \in excused'
    BY <1>4, <1>5
  <2>2. QED
    BY <1>1, <2>1, StaleKept
<1>11. IndexFollows'
  <2>1. \A w \in Explained : w = v \/ w \in Explained'
    <3>1. SUFFICES ASSUME NEW w \in Explained, w # v PROVE w \in Explained'
      OBVIOUS
    <3>2. PICK d \in Drivers : duty[d].online /\ duty[d].vehicle = w
      BY DEF Explained, Listable, OnDuty
    <3>3. duty'[d] = duty[d] /\ w \in Vehicles
      BY <1>1, <3>1, <3>2 DEF HistoryOK, OnDutyWasCleared
    <3>4. row'[w] = row[w]
      BY <3>1, <3>3
    <3>5. QED
      BY <3>1, <3>2, <3>3, <3>4 DEF Explained, Listable, OnDuty
  <2>2. v \in Explained =>
          v \in Explained' \/ v \in Unlisting' \/ v \in strayed' \/ v \notin geo'
    BY <1>5
  <2>3. QED
    BY <1>1, <1>4, <1>5, <2>1, <2>2 DEF IndexFollows, Explained
<1>12. PapersOK'
  <2>1. \A p : t # [pc |-> "review", paper |-> p]
    BY <1>4 DEF Idle
  <2>2. QED
    BY <1>1, <1>5, <2>1 DEF PapersOK
<1>13. QED
  BY <1>5, <1>6, <1>7, <1>9, <1>10, <1>11, <1>12 DEF StepInv

(* Between looking a vehicle up and writing it, the caller knows as much.  *)
LEMMA ActingKnows ==
  ASSUME StepInv, NEW c \in Callers, th[c].pc = "act"
  PROVE  th[c] \in Task /\ th[c].vehicle \in Vehicles /\ row[th[c].vehicle] \in Row
BY TaskShape DEF StepInv, ThreadsOK, TablesOK

LEMMA InvalidationMade ==
  ASSUME NEW v \in Vehicles, NEW unlist \in BOOLEAN
  PROVE  /\ Invalidation(v, unlist) \in Task /\ Cleared(Invalidation(v, unlist))
         /\ Invalidation(v, unlist).pc = "invalidate"
         /\ Invalidation(v, unlist).vehicle = v
         /\ Invalidation(v, unlist).unlist = unlist
BY TaskMade DEF Invalidation, Cleared

LEMMA UpdateVehicleKeeps ==
  ASSUME StepInv, NEW c \in Callers, UpdateVehicle(c)
  PROVE  StepInv'
<1> DEFINE v == th[c].vehicle
           task == Invalidation(v, FALSE)
<1>0. /\ UNCHANGED <<paper, final, approved, claimed, row, duty, verified, relisted>>
      /\ Acting(c) /\ Exists(v) /\ Answered(c, task)
  BY DEF UpdateVehicle, papers, tables
<1>1. v \in Vehicles
  BY <1>0, ActingKnows DEF Acting
<1>2. /\ task \in Task /\ Cleared(task) /\ task.pc = "invalidate" /\ task.vehicle = v
  BY <1>1, InvalidationMade
<1>3. TablesOK' /\ HistoryOK'
  BY <1>0 DEF StepInv, TablesOK, HistoryOK, Exists
<1>4. Explained' = Explained
  BY <1>0 DEF Explained, Listable, OnDuty
<1>5. /\ row[v].verification = "verified" => v \in verified
      /\ \A d \in Drivers : paper[d] = "approved" => d \in approved \cup claimed
      /\ row[v].status # "new"
  BY <1>0, <1>1, FleetConstants DEF StepInv, ClearedOK, Exists
<1> HIDE DEF task
<1>6. QED
  BY <1>0, <1>1, <1>2, <1>3, <1>4, <1>5, WriteKeeps

LEMMA UpdateVehicleStatusKeeps ==
  ASSUME StepInv, NEW c \in Callers, NEW status \in Statuses, UpdateVehicleStatus(c, status)
  PROVE  StepInv'
<1> DEFINE v == th[c].vehicle
           task == Invalidation(v, status # "active")
<1>0. /\ UNCHANGED <<paper, final, approved, claimed, duty, verified>>
      /\ Acting(c) /\ Exists(v) /\ Answered(c, task)
      /\ row' = [row EXCEPT ![v].status = status] /\ relisted' = relisted \ Listable'
  BY DEF UpdateVehicleStatus, papers
<1>1. v \in Vehicles /\ row[v] \in Row
  BY <1>0, ActingKnows DEF Acting
<1>2. /\ task \in Task /\ Cleared(task) /\ task.pc = "invalidate" /\ task.vehicle = v
      /\ task.unlist = (status # "active")
  BY <1>1, InvalidationMade
<1>3. /\ row' \in [Vehicles -> Row] /\ \A w \in Vehicles \ {v} : row'[w] = row[w]
      /\ row'[v].status = status /\ row'[v].verification = row[v].verification
  <2>1. row' = [row EXCEPT ![v] = [row[v] EXCEPT !.status = status]]
    BY <1>0
  <2>2. row[v] = [status |-> row[v].status, verification |-> row[v].verification]
    BY <1>1 DEF Row
  <2>3. [row[v] EXCEPT !.status = status] =
          [status |-> status, verification |-> row[v].verification]
    BY <2>2
  <2>4. [row[v] EXCEPT !.status = status] \in Row
    BY <1>1, <2>3 DEF Row
  <2>5. QED
    BY <1>1, <2>1, <2>3, <2>4 DEF StepInv, TablesOK
<1>4. TablesOK' /\ HistoryOK'
  <2>1. \A w \in Vehicles : Exists(w) => Exists(w)'
    BY <1>3 DEF Exists
  <2>2. \A d \in Drivers : duty[d].vehicle = None \/ duty[d].vehicle \in Vehicles
    BY DEF StepInv, TablesOK
  <2>3. QED
    BY <1>0, <1>3, <2>1, <2>2 DEF StepInv, TablesOK, HistoryOK
<1>5. v \in Explained => v \in Explained' \/ task.unlist
  BY <1>0, <1>2, <1>3 DEF Explained, Listable, OnDuty
<1>6. /\ row'[v].verification = "verified" => v \in verified
      /\ \A d \in Drivers : paper[d] = "approved" => d \in approved \cup claimed
      /\ row'[v].status # "new"
  BY <1>1, <1>3, FleetConstants DEF StepInv, ClearedOK
<1> HIDE DEF task
<1>7. QED
  BY <1>0, <1>1, <1>2, <1>3, <1>4, <1>5, <1>6, WriteKeeps

LEMMA UpdateVerificationKeeps ==
  ASSUME StepInv, NEW c \in Callers, NEW status \in {"verified", "rejected"},
         UpdateVerification(c, status)
  PROVE  StepInv'
<1> DEFINE v == th[c].vehicle
           task == Invalidation(v, status = "rejected")
<1>0. /\ UNCHANGED <<paper, final, approved, claimed, duty>>
      /\ Acting(c) /\ Exists(v) /\ Answered(c, task)
      /\ row' = [row EXCEPT ![v].verification = status] /\ relisted' = relisted \ Listable'
      /\ verified' = IF status = "verified" THEN verified \cup {v} ELSE verified
  BY DEF UpdateVerification, papers
<1>1. v \in Vehicles /\ row[v] \in Row
  BY <1>0, ActingKnows DEF Acting
<1>2. /\ task \in Task /\ Cleared(task) /\ task.pc = "invalidate" /\ task.vehicle = v
      /\ task.unlist = (status = "rejected")
  BY <1>1, InvalidationMade
<1>3. /\ row' \in [Vehicles -> Row] /\ \A w \in Vehicles \ {v} : row'[w] = row[w]
      /\ row'[v].status = row[v].status /\ row'[v].verification = status
  <2>1. row' = [row EXCEPT ![v] = [row[v] EXCEPT !.verification = status]]
    BY <1>0
  <2>2. row[v] = [status |-> row[v].status, verification |-> row[v].verification]
    BY <1>1 DEF Row
  <2>3. [row[v] EXCEPT !.verification = status] =
          [status |-> row[v].status, verification |-> status]
    BY <2>2
  <2>4. [row[v] EXCEPT !.verification = status] \in Row
    BY <1>1, <2>3 DEF Row
  <2>5. QED
    BY <1>1, <2>1, <2>3, <2>4 DEF StepInv, TablesOK
<1>4. TablesOK' /\ HistoryOK'
  <2>1. \A w \in Vehicles : Exists(w) => Exists(w)'
    BY <1>3 DEF Exists
  <2>2. \A d \in Drivers : duty[d].vehicle = None \/ duty[d].vehicle \in Vehicles
    BY DEF StepInv, TablesOK
  <2>3. QED
    BY <1>0, <1>1, <1>3, <2>1, <2>2 DEF StepInv, TablesOK, HistoryOK
<1>5. v \in Explained => v \in Explained' \/ task.unlist
  BY <1>0, <1>2, <1>3 DEF Explained, Listable, OnDuty
<1>6. /\ row'[v].verification = "verified" => v \in verified'
      /\ \A d \in Drivers : paper[d] = "approved" => d \in approved \cup claimed
      /\ row'[v].status # "new"
  BY <1>0, <1>1, <1>3, FleetConstants DEF StepInv, ClearedOK, Exists
<1>7. verified \subseteq verified'
  BY <1>0
<1> HIDE DEF task
<1>8. QED
  BY <1>0, <1>1, <1>2, <1>3, <1>4, <1>5, <1>6, <1>7, WriteKeeps

(* The driver's switch goes with the vehicle.                              *)
LEMMA DeleteVehicleKeeps ==
  ASSUME StepInv, NEW c \in Callers, DeleteVehicle(c)
  PROVE  StepInv'
<1> DEFINE v == th[c].vehicle
           docs == {p \in Documents : Subject[p] = v}
           task == Invalidation(v, TRUE)
           gone == [status |-> "deleted", verification |-> "pending"]
<1>0. /\ UNCHANGED <<approved, claimed, verified, relisted>>
      /\ Acting(c) /\ Exists(v) /\ Answered(c, task)
      /\ row' = [row EXCEPT ![v] = gone]
      /\ duty' = [d \in Drivers |-> IF duty[d].vehicle = v THEN OffDuty ELSE duty[d]]
      /\ paper' = [p \in Papers |-> IF p \in docs THEN "none" ELSE paper[p]]
      /\ final' = final \ docs
  BY DEF DeleteVehicle
<1>1. v \in Vehicles /\ row[v] \in Row
  BY <1>0, ActingKnows DEF Acting
<1>2. /\ task \in Task /\ Cleared(task) /\ task.pc = "invalidate" /\ task.vehicle = v
      /\ task.unlist
  BY <1>1, InvalidationMade
<1>3. /\ row' \in [Vehicles -> Row] /\ \A w \in Vehicles \ {v} : row'[w] = row[w]
      /\ row'[v].status = "deleted" /\ row'[v].verification = "pending"
  <2>1. gone \in Row
    BY DEF Row
  <2>2. QED
    BY <1>0, <1>1, <2>1 DEF StepInv, TablesOK
<1>4. HistoryOK' /\ final' \subseteq final /\ \A p \in final' : paper'[p] = paper[p]
  BY <1>0 DEF StepInv, HistoryOK
<1>5. /\ duty' \in [Drivers -> [vehicle : Vehicles \cup {None}, online : BOOLEAN]]
      /\ \A d \in Drivers :
           \/ duty'[d] = duty[d] /\ duty[d].vehicle # v
           \/ duty'[d] = OffDuty /\ duty[d].vehicle = v
  BY <1>0 DEF StepInv, TablesOK, OffDuty
<1>6. paper' \in [Papers -> Decisions \cup {"none", "pending"}]
  BY <1>0 DEF StepInv, TablesOK
<1>7. \A d \in Drivers :
        duty'[d].vehicle = None \/ (Exists(duty[d].vehicle)' /\ Owner[duty'[d].vehicle] = d)
  <2>1. SUFFICES ASSUME NEW d \in Drivers, duty'[d].vehicle # None
                 PROVE  Exists(duty[d].vehicle)' /\ Owner[duty'[d].vehicle] = d
    OBVIOUS
  <2>2. duty'[d] = duty[d] /\ duty[d].vehicle # v
    BY <1>5, <2>1 DEF OffDuty
  <2>3. /\ duty[d].vehicle \in Vehicles /\ Exists(duty[d].vehicle)
        /\ Owner[duty[d].vehicle] = d
    BY <2>1, <2>2 DEF StepInv, TablesOK
  <2>4. QED
    BY <1>3, <2>2, <2>3 DEF Exists
<1>8. TablesOK'
  BY <1>3, <1>5, <1>6, <1>7 DEF TablesOK
<1>9. \A d \in Drivers : paper'[d] = "approved" => d \in approved \cup claimed
  BY <1>0 DEF StepInv, ClearedOK, Papers
<1>10. \A d \in Drivers : duty'[d] = duty[d] \/ (~duty'[d].online /\ duty[d].vehicle = v)
  BY <1>5 DEF OffDuty
<1>11. /\ Answered(c, task) /\ Acting(c) /\ Exists(v) /\ approved' = approved
       /\ claimed' = claimed /\ relisted' = relisted /\ verified \subseteq verified'
  BY <1>0
<1> HIDE DEF task, docs
<1>12. QED
  BY <1>1, <1>2, <1>3, <1>4, <1>8, <1>9, <1>10, <1>11, WriteKeeps

(* The switch: whoever turns it on has been let through with this vehicle. *)
LEMMA UpsertAvailabilityKeeps ==
  ASSUME StepInv, NEW c \in Callers, UpsertAvailability(c)
  PROVE  StepInv'
<1> DEFINE v == th[c].vehicle
           d == Owner[v]
           on == th[c].on
           old == duty[d].vehicle
           next == [pc |-> IF on THEN "list" ELSE "unlist", vehicle |-> v]
<1>0. /\ UNCHANGED <<paper, final, approved, claimed, row, verified, cache, geo, excused, relisted>>
      /\ th[c].pc = "act" /\ Exists(v)
      /\ duty' = [duty EXCEPT ![d] = [vehicle |-> v, online |-> on]]
  BY DEF UpsertAvailability, papers
<1>1. /\ TablesOK /\ RedisOK /\ HistoryOK /\ ThreadsOK /\ PapersOK /\ ClearedOK
      /\ OnDutyWasCleared /\ StaleOnlyByRace /\ IndexFollows
  BY DEF StepInv
<1>2. v \in Vehicles /\ th[c] \in Task /\ on \in BOOLEAN /\ d \in Drivers
  BY <1>0, <1>1, ActingKnows, TaskShape, FleetConstants
<1>3. on => d \in approved \cup claimed /\ v \in verified
  BY <1>0, <1>1 DEF ClearedOK, Cleared
<1>4. next \in Task /\ next.pc \in {"list", "unlist"} /\ next.vehicle = v
      /\ (~on => next.pc = "unlist")
  BY <1>2, TaskMade
<1>5. PICK t \in Task :
        /\ Goto(c, t)
        /\ \/ t = next /\ strayed' = strayed \cup (geo \cap ({old} \ {v}))
           \/ t = Idle /\ strayed' = strayed \cup (geo \cap {old, v})
  BY <1>4, TaskMade DEF UpsertAvailability
<1> HIDE DEF next
<1>6. /\ ThreadsOK' /\ th'[c] = t /\ \A o \in Callers \ {c} : th'[o] = th[o]
      /\ \A w : w \in Invalidating => w \in Invalidating'
      /\ \A w : w \in Unlisting => w \in Unlisting'
      /\ t.pc = "unlist" => t.vehicle \in Unlisting'
  BY <1>0, <1>1, <1>5, Moved
<1>7. duty'[d] = [vehicle |-> v, online |-> on] /\ \A e \in Drivers \ {d} : duty'[e] = duty[e]
  BY <1>0, <1>1, <1>2 DEF TablesOK
<1>8. TablesOK'
  <2>1. duty' \in [Drivers -> [vehicle : Vehicles \cup {None}, online : BOOLEAN]]
    BY <1>0, <1>1, <1>2 DEF TablesOK
  <2>2. \A e \in Drivers :
          duty'[e].vehicle = None \/ (Exists(duty[e].vehicle)' /\ Owner[duty'[e].vehicle] = e)
    <3>1. SUFFICES ASSUME NEW e \in Drivers
                   PROVE  \/ duty'[e].vehicle = None
                          \/ Exists(duty[e].vehicle)' /\ Owner[duty'[e].vehicle] = e
      OBVIOUS
    <3>2. CASE e = d
      BY <1>0, <1>7, <3>2 DEF Exists
    <3>3. CASE e # d
      BY <1>0, <1>1, <1>7, <3>3 DEF TablesOK, Exists
    <3>4. QED
      BY <3>2, <3>3
  <2>3. QED
    BY <1>0, <1>1, <2>1, <2>2 DEF TablesOK
<1>9. old \in Vehicles \cup {None}
  BY <1>1, <1>2 DEF TablesOK
<1>10. RedisOK' /\ HistoryOK'
  BY <1>0, <1>1, <1>2, <1>5, <1>9, FleetConstants DEF RedisOK, HistoryOK
<1>11. OnDutyWasCleared'
  BY <1>0, <1>1, <1>3, <1>7 DEF OnDutyWasCleared
<1>12. PapersOK'
  <2>1. \A p : t # [pc |-> "review", paper |-> p]
    BY <1>4, <1>5 DEF Idle
  <2>2. QED
    BY <1>0, <1>1, <1>6, <2>1, PapersQuiet
<1>13. \A o \in Callers : Cleared(th[o])'
  <2>1. Cleared(t)'
    BY <1>4, <1>5 DEF Cleared, Idle
  <2>2. \A o \in Callers : th'[o] = th[o] \/ Cleared(th[o])'
    BY <1>6, <2>1 DEF Cleared
  <2>3. QED
    BY <1>0, <1>1, <1>6, <2>2, ClearedKept
<1>14. ClearedOK'
  BY <1>0, <1>1, <1>13 DEF ClearedOK
<1>15. StaleOnlyByRace'
  BY <1>0, <1>1, <1>6, StaleKept
<1>16. IndexFollows'
  <2>1. strayed \subseteq strayed'
    BY <1>5
  <2>2. v \in geo /\ v \in Explained => v \in Explained' \/ v \in strayed' \/ v \in Unlisting'
    <3>1. CASE t = Idle /\ strayed' = strayed \cup (geo \cap {old, v})
      BY <1>2, <3>1, FleetConstants
    <3>2. CASE t = next /\ on
      <4>1. v \in OnDuty'
        BY <1>2, <1>7, <3>2 DEF OnDuty
      <4>2. QED
        BY <1>0, <1>2, <4>1 DEF Explained, Listable
    <3>3. CASE t = next /\ ~on
      BY <1>4, <1>6, <3>3
    <3>4. QED
      BY <1>5, <3>1, <3>2, <3>3
  <2>3. \A w \in Explained \cap geo : w = v \/ w \in Explained' \/ w \in strayed'
    <3>1. SUFFICES ASSUME NEW w \in Explained \cap geo, w # v
                   PROVE  w \in Explained' \/ w \in strayed'
      OBVIOUS
    <3>2. PICK e \in Drivers : duty[e].online /\ duty[e].vehicle = w
      BY DEF Explained, Listable, OnDuty
    <3>3. w \in Vehicles
      BY <1>1, <3>2 DEF HistoryOK, OnDutyWasCleared
    <3>4. CASE e = d
      BY <1>5, <3>1, <3>2, <3>3, <3>4, FleetConstants
    <3>5. CASE e # d
      BY <1>0, <1>7, <3>1, <3>2, <3>5 DEF Explained, Listable, OnDuty
    <3>6. QED
      BY <3>4, <3>5
  <2>4. QED
    BY <1>0, <1>1, <1>6, <2>1, <2>2, <2>3 DEF IndexFollows, Explained
<1>17. QED
  BY <1>6, <1>8, <1>10, <1>11, <1>12, <1>14, <1>15, <1>16 DEF StepInv

(* What the dead process was about to delete is excused.                   *)
LEMMA CrashKeeps ==
  ASSUME StepInv, Crash
  PROVE  StepInv'
<1>0. /\ UNCHANGED <<paper, final, approved, claimed, row, duty, verified, cache, geo, relisted>>
      /\ excused' = excused \cup Copied(Invalidating)
      /\ strayed' = strayed \cup (geo \cap Unlisting)
      /\ th' = [c \in Callers |->
                  IF th[c].pc = "review" /\ th[c].paper \in Drivers THEN th[c] ELSE Idle]
  BY DEF Crash, papers, tables
<1>1. /\ TablesOK /\ RedisOK /\ HistoryOK /\ ThreadsOK /\ PapersOK /\ ClearedOK
      /\ OnDutyWasCleared /\ StaleOnlyByRace /\ IndexFollows
  BY DEF StepInv
<1>2. ThreadsOK' /\ \A c \in Callers : th'[c] = th[c] \/ th'[c] = Idle
  BY <1>0, <1>1, TaskMade DEF ThreadsOK
<1>3. Invalidating \subseteq Vehicles /\ Unlisting \subseteq Vehicles
  BY <1>1, TaskShape DEF ThreadsOK, Invalidating, Unlisting
<1>4. TablesOK' /\ RedisOK' /\ HistoryOK' /\ OnDutyWasCleared'
  BY <1>0, <1>1, <1>3 DEF TablesOK, RedisOK, HistoryOK, OnDutyWasCleared, Exists, Copied
<1>5. PapersOK'
  BY <1>0, <1>1, <1>2 DEF PapersOK, Idle
<1>6. \A c \in Callers : Cleared(th[c])'
  <2>1. \A c \in Callers : th'[c] = th[c] \/ Cleared(th[c])'
    BY <1>2 DEF Cleared, Idle
  <2>2. QED
    BY <1>0, <1>1, <1>2, <2>1, ClearedKept
<1>7. ClearedOK'
  BY <1>0, <1>1, <1>6 DEF ClearedOK
<1>8. StaleOnlyByRace'
  BY <1>0, <1>1, StaleKept DEF Copied
<1>9. Explained' = Explained
  BY <1>0 DEF Explained, Listable, OnDuty
<1>10. IndexFollows'
  BY <1>0, <1>1, <1>9, IndexKept
<1>11. QED
  BY <1>2, <1>4, <1>5, <1>7, <1>8, <1>10 DEF StepInv

-----------------------------------------------------------------------------
(* Searches.                                                               *)

(* How far a step takes the search of a caller.                            *)
Search(c) ==
  \/ th'[c] = th[c]
  \/ ~Searching(th'[c])
  \/ th'[c].pc = "hits"
  \/ th'[c].pc = "online" /\ th'[c].vehicles \subseteq OnDuty'
  \/ /\ th[c].pc = "hits" /\ th'[c].pc = "ready"
     /\ th'[c].vehicles \subseteq Ready'
  \/ /\ th[c].pc = "ready" /\ th'[c].pc = "results"
     /\ th'[c].vehicles \subseteq th[c].vehicles \cap OnDuty'
  \/ /\ th[c].pc = "online" /\ th'[c].pc = "results"
     /\ th'[c].vehicles \subseteq th[c].vehicles \cap Ready'

LEMMA OtherMove ==
  ASSUME ThreadsOK, NEW c \in Callers, NEW t, Goto(c, t), ~Searching(t)
  PROVE  \A o \in Callers : Search(o)
BY DEF ThreadsOK, Goto, Search

LEMMA ReviewSearch ==
  ASSUME ThreadsOK, NEW c \in Callers,
         \/ \E p \in Papers : ReviewBegin(c, p)
         \/ ReviewWrite(c)
  PROVE  \A o \in Callers : Search(o)
<1>1. ASSUME NEW p \in Papers, ReviewBegin(c, p) PROVE \A o \in Callers : Search(o)
  BY <1>1, OtherMove DEF ReviewBegin, Searching
<1>2. ASSUME ReviewWrite(c) PROVE \A o \in Callers : Search(o)
  BY <1>2, OtherMove DEF ReviewWrite, Searching, Idle
<1>3. QED
  BY <1>1, <1>2

LEMMA ProceedSearch ==
  ASSUME ThreadsOK, NEW c \in Callers, NEW v, NEW found, NEW on, Proceed(c, v, found, on)
  PROVE  \A o \in Callers : Search(o)
<1>1. CASE Goto(c, Idle)
  BY <1>1, OtherMove DEF Searching, Idle
<1>2. CASE Goto(c, [pc |-> "act", vehicle |-> v, on |-> on])
  BY <1>2, OtherMove DEF Searching
<1>3. QED
  BY <1>1, <1>2 DEF Proceed

LEMMA LookupSearch ==
  ASSUME ThreadsOK, NEW c \in Callers,
         \/ \E v \in Vehicles : SetDriverAvailability(c, v) \/ GetVehicleByID(c, v)
         \/ Store(c)
  PROVE  \A o \in Callers : Search(o)
<1>1. ASSUME NEW v \in Vehicles, SetDriverAvailability(c, v)
      PROVE  \A o \in Callers : Search(o)
  BY <1>1, OtherMove DEF SetDriverAvailability, Searching
<1>2. ASSUME NEW v, NEW on, Lookup(c, v, on) PROVE \A o \in Callers : Search(o)
  <2>1. CASE Proceed(c, v, cache[v], on)
    BY <2>1, ProceedSearch
  <2>2. CASE Goto(c, [pc |-> "store", vehicle |-> v, found |-> row[v], on |-> on])
    BY <2>2, OtherMove DEF Searching
  <2>3. CASE Goto(c, Idle)
    BY <2>3, OtherMove DEF Searching, Idle
  <2>4. QED
    BY <1>2, <2>1, <2>2, <2>3 DEF Lookup
<1>3. ASSUME NEW v \in Vehicles, GetVehicleByID(c, v)
      PROVE  \A o \in Callers : Search(o)
  BY <1>2, <1>3 DEF GetVehicleByID
<1>4. ASSUME Store(c) PROVE \A o \in Callers : Search(o)
  BY <1>4, ProceedSearch DEF Store
<1>5. QED
  BY <1>1, <1>3, <1>4

LEMMA WriteSearch ==
  ASSUME ThreadsOK, NEW c \in Callers,
         \/ UpdateVehicle(c)
         \/ \E status \in Statuses : UpdateVehicleStatus(c, status)
         \/ \E status \in {"verified", "rejected"} : UpdateVerification(c, status)
         \/ DeleteVehicle(c) \/ UpsertAvailability(c)
  PROVE  \A o \in Callers : Search(o)
<1>1. CASE Goto(c, Idle)
  BY <1>1, OtherMove DEF Searching, Idle
<1>2. ASSUME NEW v, NEW unlist, Goto(c, Invalidation(v, unlist))
      PROVE  \A o \in Callers : Search(o)
  BY <1>2, OtherMove DEF Searching, Invalidation
<1>3. ASSUME NEW v, NEW unlist, Answered(c, Invalidation(v, unlist))
      PROVE  \A o \in Callers : Search(o)
  BY <1>1, <1>2, <1>3 DEF Answered
<1>4. ASSUME NEW v, NEW pc \in {"list", "unlist"}, Goto(c, [pc |-> pc, vehicle |-> v])
      PROVE  \A o \in Callers : Search(o)
  BY <1>4, OtherMove DEF Searching
<1>5. ASSUME UpdateVehicle(c) PROVE \A o \in Callers : Search(o)
  BY <1>3, <1>5 DEF UpdateVehicle
<1>6. ASSUME NEW status \in Statuses, UpdateVehicleStatus(c, status)
      PROVE  \A o \in Callers : Search(o)
  BY <1>3, <1>6 DEF UpdateVehicleStatus
<1>7. ASSUME NEW status \in {"verified", "rejected"}, UpdateVerification(c, status)
      PROVE  \A o \in Callers : Search(o)
  BY <1>3, <1>7 DEF UpdateVerification
<1>8. ASSUME DeleteVehicle(c) PROVE \A o \in Callers : Search(o)
  BY <1>3, <1>8 DEF DeleteVehicle
<1>9. ASSUME UpsertAvailability(c) PROVE \A o \in Callers : Search(o)
  BY <1>1, <1>4, <1>9 DEF UpsertAvailability
<1>10. QED
  BY <1>5, <1>6, <1>7, <1>8, <1>9

LEMMA OtherSearch ==
  ASSUME ThreadsOK, NEW c \in Callers,
         \/ UpsertLocation(c) \/ syncGeoIndex(c) \/ UploadDocument(c) \/ DeleteDocument(c)
         \/ Return(c) \/ invalidateVehicle(c) \/ GeoAdd(c) \/ GeoRemove(c) \/ ReturnResults(c)
  PROVE  \A o \in Callers : Search(o)
<1>1. CASE Goto(c, Idle)
  BY <1>1, OtherMove DEF Searching, Idle
<1>2. ASSUME NEW v, NEW pc \in {"sync", "list", "unlist"}, Goto(c, [pc |-> pc, vehicle |-> v])
      PROVE  \A o \in Callers : Search(o)
  BY <1>2, OtherMove DEF Searching
<1>3. QED
  BY <1>1, <1>2
     DEF UpsertLocation, syncGeoIndex, UploadDocument, DeleteDocument, Return,
         invalidateVehicle, GeoAdd, GeoRemove, ReturnResults

LEMMA SearchSearch ==
  ASSUME ThreadsOK, NEW c \in Callers,
         \/ SearchNearby(c) \/ ReadVehicles(c) \/ ReadAvailabilities(c)
         \/ searchNearbyFallback(c)
  PROVE  \A o \in Callers : Search(o)
<1>1. /\ Ready' = Ready /\ OnDuty' = OnDuty
      /\ \A o \in Callers \ {c} : th'[o] = th[o]
  BY DEF SearchNearby, ReadVehicles, ReadAvailabilities, searchNearbyFallback,
         tables, Ready, OnDuty, Goto, ThreadsOK
<1>2. SUFFICES Search(c)
  BY <1>1 DEF Search
<1>3. CASE SearchNearby(c)
  <2>1. PICK t : /\ Goto(c, t)
                 /\ \/ t.pc = "hits"
                    \/ t.pc = "online" /\ t.vehicles \subseteq OnDuty
    <3>1. CASE \E near \in SUBSET geo : Goto(c, [pc |-> "hits", vehicles |-> near])
      BY <3>1
    <3>2. ASSUME NEW near \in SUBSET OnDuty, Goto(c, [pc |-> "online", vehicles |-> near])
          PROVE  \E t : Goto(c, t) /\ t.pc = "online" /\ t.vehicles \subseteq OnDuty
      BY <3>2
    <3>3. QED
      BY <1>3, <3>1, <3>2 DEF SearchNearby
  <2>2. th'[c] = t
    BY <2>1 DEF Goto, ThreadsOK
  <2>3. QED
    BY <1>1, <2>1, <2>2 DEF Search
<1>4. CASE ReadVehicles(c)
  BY <1>1, <1>4 DEF ReadVehicles, Goto, ThreadsOK, Search
<1>5. CASE ReadAvailabilities(c)
  BY <1>1, <1>5 DEF ReadAvailabilities, Goto, ThreadsOK, Search
<1>6. CASE searchNearbyFallback(c)
  BY <1>1, <1>6 DEF searchNearbyFallback, Goto, ThreadsOK, Search
<1>7. QED
  BY <1>3, <1>4, <1>5, <1>6

LEMMA StepSearch ==
  ASSUME ThreadsOK, Step
  PROVE  \A o \in Callers : Search(o)
<1>1. ASSUME th' = th PROVE \A o \in Callers : Search(o)
  BY <1>1 DEF Search
<1>2. ASSUME Crash PROVE \A o \in Callers : Search(o)
  BY <1>2 DEF Crash, Search, Searching, Idle
<1>3. ASSUME NEW c \in Callers, Handler(c) PROVE \A o \in Callers : Search(o)
  BY <1>3, ReviewSearch, LookupSearch, WriteSearch, OtherSearch, SearchSearch DEF Handler
<1>4. QED
  BY <1>1, <1>2, <1>3, ReviewSearch, LookupSearch
     DEF Step, SubmitKYC, RegisterVehicle, Expire

(* What Watch has written.                                                 *)
LEMMA WatchKeeps ==
  ASSUME HistoryOK, OnDutyWasCleared, HistoryOK', OnDutyWasCleared', SeenOK, SearchOK,
         ThreadsOK, \A c \in Callers : Search(c), Watch
  PROVE  SeenOK' /\ SearchOK'
<1>1. /\ Ready \subseteq Vehicles /\ Ready' \subseteq Vehicles
      /\ OnDuty \subseteq Vehicles /\ OnDuty' \subseteq Vehicles
  BY DEF Ready, OnDuty, OnDutyWasCleared, HistoryOK
<1>2. ASSUME NEW c \in Callers
      PROVE  /\ ~Searching(th'[c]) => seen'[c] = [ready |-> {}, on |-> {}]
             /\ Searching(th'[c]) =>
                  /\ seen'[c] = [ready |-> seen'[c].ready, on |-> seen'[c].on]
                  /\ Searching(th[c]) =>
                       /\ seen'[c].ready = seen[c].ready \cup Ready'
                       /\ seen'[c].on = seen[c].on \cup OnDuty'
                  /\ ~Searching(th[c]) =>
                       /\ seen'[c].ready = Ready \cup Ready'
                       /\ seen'[c].on = OnDuty \cup OnDuty'
  <2> DEFINE ready == (IF Searching(th[c]) THEN seen[c].ready ELSE Ready) \cup Ready'
             on == (IF Searching(th[c]) THEN seen[c].on ELSE OnDuty) \cup OnDuty'
  <2>1. seen'[c] = IF ~Searching(th'[c]) THEN [ready |-> {}, on |-> {}]
                                         ELSE [ready |-> ready, on |-> on]
    BY DEF Watch
  <2>2. /\ Searching(th[c]) => ready = seen[c].ready \cup Ready' /\ on = seen[c].on \cup OnDuty'
        /\ ~Searching(th[c]) => ready = Ready \cup Ready' /\ on = OnDuty \cup OnDuty'
    OBVIOUS
  <2> HIDE DEF ready, on
  <2>3. Searching(th'[c]) => seen'[c].ready = ready /\ seen'[c].on = on
    BY <2>1
  <2>4. QED
    BY <2>1, <2>2, <2>3
<1>3. \A c \in Callers : seen[c].ready \subseteq Vehicles /\ seen[c].on \subseteq Vehicles
  BY DEF SeenOK
<1>4. SeenOK'
  <2>1. \A c \in Callers : seen'[c] \in [ready : SUBSET Vehicles, on : SUBSET Vehicles]
    <3>1. SUFFICES ASSUME NEW c \in Callers
                   PROVE  seen'[c] \in [ready : SUBSET Vehicles, on : SUBSET Vehicles]
      OBVIOUS
    <3>2. CASE ~Searching(th'[c])
      <4>1. seen'[c] = [ready |-> {}, on |-> {}]
        BY <1>2, <3>2
      <4>2. QED
        BY <4>1
    <3>3. CASE Searching(th'[c])
      <4>1. /\ seen'[c] = [ready |-> seen'[c].ready, on |-> seen'[c].on]
            /\ \/ /\ seen'[c].ready = seen[c].ready \cup Ready'
                  /\ seen'[c].on = seen[c].on \cup OnDuty'
               \/ /\ seen'[c].ready = Ready \cup Ready'
                  /\ seen'[c].on = OnDuty \cup OnDuty'
        BY <1>2, <3>3
      <4>2. seen'[c].ready \subseteq Vehicles /\ seen'[c].on \subseteq Vehicles
        BY <1>1, <1>3, <4>1
      <4>3. QED
        BY <4>1, <4>2
    <3>4. QED
      BY <3>2, <3>3
  <2>2. seen' = [c \in Callers |-> seen'[c]]
    BY DEF Watch
  <2>3. QED
    BY <2>1, <2>2 DEF SeenOK
<1>5. ASSUME NEW c \in Callers
      PROVE  /\ th'[c].pc \in {"ready", "results"} => th'[c].vehicles \subseteq seen'[c].ready
             /\ th'[c].pc \in {"online", "results"} => th'[c].vehicles \subseteq seen'[c].on
  <2>1. SUFFICES ASSUME Searching(th'[c])
                 PROVE  /\ th'[c].pc \in {"ready", "results"} =>
                             th'[c].vehicles \subseteq seen'[c].ready
                        /\ th'[c].pc \in {"online", "results"} =>
                             th'[c].vehicles \subseteq seen'[c].on
    BY DEF Searching
  <2>2. /\ Searching(th[c]) => /\ seen[c].ready \subseteq seen'[c].ready
                               /\ seen[c].on \subseteq seen'[c].on
        /\ Ready' \subseteq seen'[c].ready /\ OnDuty' \subseteq seen'[c].on
    BY <1>2, <2>1
  <2>3. /\ th[c].pc \in {"ready", "results"} => th[c].vehicles \subseteq seen[c].ready
        /\ th[c].pc \in {"online", "results"} => th[c].vehicles \subseteq seen[c].on
        /\ Search(c)
    BY DEF SearchOK
  <2>4. QED
    BY <2>1, <2>2, <2>3 DEF Search, Searching
<1>6. QED
  BY <1>4, <1>5 DEF SearchOK

-----------------------------------------------------------------------------
(* All of it.                                                              *)

LEMMA InitRoad == Init => RoadInv
<1> SUFFICES ASSUME Init PROVE RoadInv
  OBVIOUS
<1>1. /\ paper = [p \in Papers |-> "none"]
      /\ row = [v \in Vehicles |-> [status |-> "new", verification |-> "pending"]]
      /\ duty = [d \in Drivers |-> [vehicle |-> None, online |-> FALSE]]
      /\ cache = [v \in Vehicles |-> None]
      /\ geo = {} /\ th = [c \in Callers |-> Idle]
      /\ final = {} /\ approved = {} /\ claimed = {} /\ verified = {}
      /\ excused = {} /\ strayed = {} /\ relisted = {}
      /\ seen = [c \in Callers |-> [ready |-> {}, on |-> {}]]
  BY DEF Init, OffDuty
<1>2. Idle \in Task /\ Idle.pc = "idle"
  BY TaskMade DEF Idle
<1>3. [status |-> "new", verification |-> "pending"] \in Row
  BY DEF Row
<1>4. TablesOK /\ RedisOK /\ HistoryOK /\ ThreadsOK /\ SeenOK
  BY <1>1, <1>2, <1>3 DEF TablesOK, RedisOK, HistoryOK, ThreadsOK, SeenOK
<1>5. PapersOK /\ OnDutyWasCleared /\ StaleOnlyByRace /\ IndexFollows /\ SearchOK
  BY <1>1, <1>2 DEF PapersOK, OnDutyWasCleared, StaleOnlyByRace, IndexFollows, SearchOK
<1>6. ClearedOK
  BY <1>1, <1>2 DEF ClearedOK, Cleared, Papers
<1>7. QED
  BY <1>4, <1>5, <1>6, Parts DEF StepInv

LEMMA HandlerKeeps ==
  ASSUME StepInv, NEW c \in Callers, Handler(c)
  PROVE  StepInv'
<1>1. CASE UpdateVehicle(c)
  BY <1>1, UpdateVehicleKeeps
<1>2. CASE \E status \in Statuses : UpdateVehicleStatus(c, status)
  BY <1>2, UpdateVehicleStatusKeeps
<1>3. CASE \E status \in {"verified", "rejected"} : UpdateVerification(c, status)
  BY <1>3, UpdateVerificationKeeps
<1>4. CASE DeleteVehicle(c)
  BY <1>4, DeleteVehicleKeeps
<1>5. CASE UpsertAvailability(c)
  BY <1>5, UpsertAvailabilityKeeps
<1>6. CASE UpsertLocation(c) \/ syncGeoIndex(c) \/ Return(c)
  BY <1>6, LocationKeeps
<1>7. CASE UploadDocument(c) \/ DeleteDocument(c)
  BY <1>7, DocumentKeeps
<1>8. CASE Store(c)
  BY <1>8, StoreKeeps
<1>9. CASE invalidateVehicle(c)
  BY <1>9, invalidateVehicleKeeps
<1>10. CASE GeoAdd(c) \/ GeoRemove(c) \/ ReadAvailabilities(c)
  BY <1>10, GeoKeeps
<1>11. CASE SearchNearby(c) \/ ReadVehicles(c) \/ searchNearbyFallback(c) \/ ReturnResults(c)
  BY <1>11, SearchKeeps
<1>12. CASE ReviewWrite(c)
  BY <1>12, ReviewWriteKeeps
<1>13. QED
  BY <1>1, <1>2, <1>3, <1>4, <1>5, <1>6, <1>7, <1>8, <1>9, <1>10, <1>11, <1>12 DEF Handler

LEMMA StepKeeps ==
  ASSUME StepInv, Step
  PROVE  StepInv'
<1>1. ASSUME NEW d \in Drivers, NEW s \in Decisions \cup {"pending"}, SubmitKYC(d, s)
      PROVE  StepInv'
  BY <1>1, SubmitKYCKeeps
<1>2. ASSUME NEW v \in Vehicles, RegisterVehicle(v) \/ Expire(v) PROVE StepInv'
  BY <1>2, RegisterVehicleKeeps, ExpireKeeps
<1>3. ASSUME NEW c \in Callers, NEW p \in Papers, ReviewBegin(c, p) PROVE StepInv'
  BY <1>3, ReviewBeginKeeps
<1>4. ASSUME NEW c \in Callers, NEW v \in Vehicles,
             SetDriverAvailability(c, v) \/ GetVehicleByID(c, v)
      PROVE  StepInv'
  BY <1>4, SetDriverAvailabilityKeeps, GetVehicleByIDKeeps
<1>5. ASSUME NEW c \in Callers, Handler(c) PROVE StepInv'
  BY <1>5, HandlerKeeps
<1>6. CASE Crash
  BY <1>6, CrashKeeps
<1>7. QED
  BY <1>1, <1>2, <1>3, <1>4, <1>5, <1>6 DEF Step

LEMMA NextKeeps == RoadInv /\ [Next]_vars => RoadInv'
<1> SUFFICES ASSUME RoadInv, [Next]_vars PROVE RoadInv'
  OBVIOUS
<1>1. StepInv /\ SeenOK /\ SearchOK
  BY Parts
<1>2. CASE Next
  <2>1. StepInv' /\ Step /\ Watch
    BY <1>1, <1>2, StepKeeps DEF Next
  <2>2. \A c \in Callers : Search(c)
    BY <1>1, <2>1, StepSearch DEF StepInv
  <2>3. SeenOK' /\ SearchOK'
    BY <1>1, <2>1, <2>2, WatchKeeps DEF StepInv
  <2>4. QED
    BY <2>1, <2>3
       DEF RoadInv, CoreInv, StepInv, TypeOK, TablesOK, RedisOK, HistoryOK, ThreadsOK, SeenOK
<1>3. CASE UNCHANGED vars
  <2>1. UNCHANGED <<paper, row, duty, cache, geo, th, final, approved, claimed, verified, excused,
                    strayed, relisted, seen>>
    BY <1>3 DEF vars, papers, tables, redis
  <2>2. StepInv'
    BY <1>1, <2>1
       DEF StepInv, TablesOK, RedisOK, HistoryOK, ThreadsOK, Exists, PapersOK, ClearedOK,
           Cleared, OnDutyWasCleared, StaleOnlyByRace, IndexFollows, Invalidating,
           Unlisting, Explained, Listable, OnDuty
  <2>3. SeenOK' /\ SearchOK'
    BY <1>1, <2>1 DEF SeenOK, SearchOK
  <2>4. QED
    BY <2>2, <2>3
       DEF RoadInv, CoreInv, StepInv, TypeOK, TablesOK, RedisOK, HistoryOK, ThreadsOK, SeenOK
<1>4. QED
  BY <1>2, <1>3

LEMMA RoadKept == Spec => []RoadInv
BY InitRoad, NextKeeps, PTL DEF Spec

(* Rows, copies and goroutines keep their types in every reachable state,  *)
(* and a driver's switch names an existing vehicle of theirs.              *)
THEOREM FleetTyping == Spec => []TypeOK
<1>1. RoadInv => TypeOK
  BY DEF RoadInv, CoreInv
<1>2. QED
  BY <1>1, RoadKept, PTL

(* Nobody is on duty without a dossier that has read approved, by a        *)
(* reviewer's hand or the driver's own, and a vehicle that a reviewer has  *)
(* verified, whatever was stale between the gateway's check, the look-up   *)
(* of the vehicle and the switch.                                          *)
THEOREM RoadWasCleared == Spec => []OnDutyWasCleared
<1>1. RoadInv => OnDutyWasCleared
  BY DEF RoadInv, CoreInv
<1>2. QED
  BY <1>1, RoadKept, PTL

(* Every vehicle in the answer of SearchNearby was active and verified,    *)
(* and its driver on duty, at some moment of the search.                   *)
THEOREM FoundFit == Spec => []FoundWasFit
<1>1. RoadInv => FoundWasFit
  BY DEF RoadInv, SearchOK, FoundWasFit
<1>2. QED
  BY <1>1, RoadKept, PTL

(* A Redis copy of a vehicle differs from its row only while a writer is   *)
(* about to delete it, or by a race or a failure.                          *)
THEOREM CopiesStaleOnlyByRace == Spec => []StaleOnlyByRace
<1>1. RoadInv => StaleOnlyByRace
  BY DEF RoadInv, CoreInv
<1>2. QED
  BY <1>1, RoadKept, PTL

(* The GEO index lists a vehicle that is off duty or deleted only while it *)
(* is about to be removed, or by a race, a failure or a change of vehicle; *)
(* one in maintenance or rejected also when it was put back after that.    *)
THEOREM IndexIsFollowed == Spec => []IndexFollows
<1>1. RoadInv => IndexFollows
  BY DEF RoadInv, CoreInv
<1>2. QED
  BY <1>1, RoadKept, PTL

(* A decision on a dossier or document that nobody was racing is turned    *)
(* over by no later step except a new submission or a deletion: no second  *)
(* reviewer is still about to write.                                       *)
THEOREM DecisionsStand == Spec => DecisionStands
<1>1. ASSUME RoadInv, [Next]_vars
      PROVE  [\A p \in final : paper'[p] = paper[p] \/ p \notin final']_vars
  <2>1. SUFFICES ASSUME Step, NEW p \in final PROVE paper'[p] = paper[p] \/ p \notin final'
    BY <1>1 DEF Next
  <2>2. StepInv /\ p \in Papers /\ paper \in [Papers -> Decisions \cup {"none", "pending"}]
    BY <1>1, Parts DEF StepInv, HistoryOK, TablesOK
  <2>3. /\ paper[p] \in Decisions
        /\ \A c \in Callers : th[c] # [pc |-> "review", paper |-> p]
    BY <2>2 DEF StepInv, PapersOK
  <2>4. CASE paper' = paper
    BY <2>4
  <2>5. ASSUME NEW d \in Drivers, NEW s \in Decisions \cup {"pending"}, SubmitKYC(d, s)
        PROVE  paper'[p] = paper[p] \/ p \notin final'
    BY <2>2, <2>5 DEF SubmitKYC
  <2>6. ASSUME NEW c \in Callers, ReviewWrite(c)
        PROVE  paper'[p] = paper[p] \/ p \notin final'
    <3>1. th[c] \in Task /\ th[c].pc = "review"
      BY <2>2, <2>6 DEF StepInv, ThreadsOK, ReviewWrite
    <3>2. th[c].paper # p
      BY <2>3, <3>1, TaskShape
    <3>3. paper' = paper \/ \E decision : paper' = [paper EXCEPT ![th[c].paper] = decision]
      BY <2>6 DEF ReviewWrite, papers
    <3>4. QED
      BY <2>2, <3>2, <3>3
  <2>7. ASSUME NEW c \in Callers, UploadDocument(c) \/ DeleteDocument(c)
        PROVE  paper'[p] = paper[p] \/ p \notin final'
    BY <2>2, <2>3, <2>7 DEF UploadDocument, DeleteDocument, Decisions
  <2>8. ASSUME NEW c \in Callers, DeleteVehicle(c)
        PROVE  paper'[p] = paper[p] \/ p \notin final'
    BY <2>2, <2>8 DEF DeleteVehicle
  <2>9. QED
    <3>1. ASSUME NEW c \in Callers, Handler(c)
          PROVE  paper'[p] = paper[p] \/ p \notin final'
      BY <2>4, <2>6, <2>7, <2>8, <3>1
         DEF Handler, UpdateVehicle, UpdateVehicleStatus, UpdateVerification,
             UpsertAvailability, UpsertLocation, syncGeoIndex, Return, Store,
             invalidateVehicle, GeoAdd, GeoRemove, SearchNearby, ReadVehicles,
             ReadAvailabilities, searchNearbyFallback, ReturnResults, papers
    <3>2. ASSUME NEW c \in Callers, NEW v \in Vehicles, GetVehicleByID(c, v)
          PROVE  paper' = paper
      BY <3>2 DEF GetVehicleByID, Lookup, papers
    <3>3. QED
      BY <2>1, <2>4, <2>5, <3>1, <3>2
         DEF Step, RegisterVehicle, Expire, ReviewBegin, SetDriverAvailability, Crash, papers
<1>2. QED
  BY <1>1, RoadKept, PTL DEF Spec, DecisionStands
=============================================================================
