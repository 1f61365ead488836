------------------------------- MODULE Fleet -------------------------------
(***************************************************************************)
(* How a driver gets on the road: the papers administrators review         *)
(* (kyc_service, and the vehicle documents of vehicle_service), the        *)
(* vehicles with their Redis copies, the switch with which a driver takes  *)
(* orders, which the gateway guards with the KYC status, and the Redis GEO *)
(* index of the vehicles on the road that a search starts from.            *)
(*                                                                         *)
(* No handler holds a lock: every statement and every Redis command is a   *)
(* step of its own.  Plates, types, capacities, coordinates and distances  *)
(* are left out.                                                           *)
(***************************************************************************)
CONSTANTS Drivers, Vehicles, Documents,
          Owner,     \* the driver who registers a vehicle
          Subject,   \* the vehicle a document is about
          Statuses,  \* of the vehicle states, those that are used
          Callers,   \* goroutines serving calls
          None,      \* absent: a cache key, the vehicle of a driver
          Faults     \* subset of {"db", "redis", "crash"}

Papers == Drivers \cup Documents  \* a dossier is named by its driver

ASSUME FleetConstants ==
  /\ Owner \in [Vehicles -> Drivers]
  /\ Subject \in [Documents -> Vehicles]
  /\ Drivers \cap Documents = {} /\ None \notin Vehicles
  /\ "active" \in Statuses
  /\ Statuses \subseteq {"active", "maintenance", "inactive"}

Decisions == {"approved", "rejected"}

\* A row of vehicles, before it is registered and after it is deleted too.
Row == [status : Statuses \cup {"new", "deleted"},
        verification : {"pending", "verified", "rejected"}]

Idle == [pc |-> "idle"]

\* Between two steps of a call.  Which call it is shows after its look-up: only
\* going on duty is told apart before.
Task ==
  {Idle}
    \cup [pc : {"cleared", "sync", "list", "unlist"}, vehicle : Vehicles]
    \cup [pc : {"store"}, vehicle : Vehicles, found : Row, on : BOOLEAN]
    \cup [pc : {"act"}, vehicle : Vehicles, on : BOOLEAN]
    \cup [pc : {"invalidate"}, vehicle : Vehicles, unlist : BOOLEAN]
    \cup [pc : {"review"}, paper : Papers]
    \cup [pc : {"hits", "online", "results"}, vehicles : SUBSET Vehicles]
    \cup [pc : {"ready"}, vehicles : SUBSET Vehicles, gone : SUBSET Vehicles]

VARIABLES
  paper,    \* review state of dossiers and vehicle documents
  row,      \* table vehicles
  duty,     \* table driver_availabilities
  cache,    \* vehicles in Redis
  geo,      \* the GEO index
  th,       \* what each caller is doing
  final,    \* history: papers decided by a reviewer nobody was racing
  approved, \* history: drivers whose dossier a reviewer has approved
  claimed,  \* history: drivers who submitted theirs as approved, and were
            \* never approved by a reviewer
  verified, \* history: vehicles that have been verified
  excused,  \* history: copies stale by a race or a failure
  strayed,  \* history: entries of the index that are due to a race, a failure
            \* or a change of vehicles
  relisted, \* history: entries made for a vehicle unfit then and ever since
  seen      \* history: vehicles fit, and on duty, since a search began

papers == <<paper, final, approved, claimed>>
tables == <<row, duty, verified>>
redis == <<cache, geo, excused, strayed, relisted>>
vars == <<papers, tables, redis, th, seen>>

Exists(v) == row[v].status \in Statuses
OnDuty == {duty[d].vehicle : d \in {d \in Drivers : duty[d].online}}
Goto(c, task) == th' = [th EXCEPT ![c] = task]

-----------------------------------------------------------------------------
(* Reviews.  Whether a paper is pending is read before the decision is     *)
(* written, and the update has no condition on the state.                  *)

\* The upsert takes the status of the request, pending when it has none: a
\* driver who writes approved into it needs no reviewer.  It reads only to
\* choose between insert and update, so it is one step.
SubmitKYC(d, status) ==
  /\ paper' = [paper EXCEPT ![d] = status]
  /\ final' = final \ {d}
  /\ claimed' = IF status = "approved" THEN claimed \cup ({d} \ approved) ELSE claimed
  /\ UNCHANGED <<approved, tables, redis, th>>

\* (variant) the state of the paper is not looked at
ReviewBlindly(c, p) ==
  /\ th[c] = Idle /\ paper[p] # "none"
  /\ Goto(c, [pc |-> "review", paper |-> p])
  /\ UNCHANGED <<papers, tables, redis>>

ReviewBegin(c, p) ==
  /\ th[c] = Idle /\ paper[p] = "pending"
  /\ Goto(c, [pc |-> "review", paper |-> p])
  /\ UNCHANGED <<papers, tables, redis>>

Racing(c, p) == \E o \in Callers \ {c} : th[o] = [pc |-> "review", paper |-> p]

ReviewWrite(c) ==
  /\ th[c].pc = "review"
  /\ LET p == th[c].paper IN
       \/ /\ paper[p] # "none"
          /\ \E decision \in Decisions :
               /\ paper' = [paper EXCEPT ![p] = decision]
               /\ approved' = IF decision = "approved"
                                THEN approved \cup ({p} \cap Drivers) ELSE approved
          /\ claimed' = claimed \ approved'
          /\ final' = IF Racing(c, p) THEN final \ {p} ELSE final \cup {p}
       \/ /\ paper[p] = "none" \/ "db" \in Faults
          /\ UNCHANGED papers
  /\ Goto(c, Idle)
  /\ UNCHANGED <<tables, redis>>

-----------------------------------------------------------------------------
(* GetVehicleByID, with which every call about a vehicle begins: the copy  *)
(* in Redis, or the row, which is copied to Redis in a second step.        *)

MayGoOnDuty(found) ==
  found.verification = "verified" /\ found.status # "maintenance"

\* A caller who only asks, or does not own the vehicle, has looked it up and no
\* more.
Proceed(c, v, found, on) ==
  Goto(c, IF on /\ ~MayGoOnDuty(found) THEN Idle
          ELSE [pc |-> "act", vehicle |-> v, on |-> on])

Lookup(c, v, on) ==
  /\ \/ cache[v] # None /\ Proceed(c, v, cache[v], on)
     \/ /\ cache[v] = None \/ "redis" \in Faults
        /\ Exists(v)
        /\ Goto(c, [pc |-> "store", vehicle |-> v, found |-> row[v], on |-> on])
     \/ /\ (cache[v] = None /\ ~Exists(v)) \/ "db" \in Faults
        /\ Goto(c, Idle)
  /\ UNCHANGED <<papers, tables, redis>>

Store(c) ==
  /\ th[c].pc = "store"
  /\ LET v == th[c].vehicle IN
       /\ \/ /\ cache' = [cache EXCEPT ![v] = th[c].found]
             /\ excused' = IF th[c].found = row[v] THEN excused \ {v}
                                                   ELSE excused \cup {v}
          \/ "redis" \in Faults /\ UNCHANGED <<cache, excused>>
       /\ Proceed(c, v, th[c].found, th[c].on)
  /\ UNCHANGED <<papers, tables, geo, strayed, relisted>>

-----------------------------------------------------------------------------
(* Calls about a vehicle.  The gateway lets SetDriverAvailability pass to  *)
(* go on duty when the dossier is approved.                                *)

RegisterVehicle(v) ==
  /\ row[v].status = "new"
  /\ row' = [row EXCEPT ![v].status = "active"]
  /\ UNCHANGED <<papers, duty, verified, redis, th>>

\* (variant) the dossier is not looked at
PassAnybody(c, v) ==
  /\ th[c] = Idle
  /\ Goto(c, [pc |-> "cleared", vehicle |-> v])
  /\ UNCHANGED <<papers, tables, redis>>

SetDriverAvailability(c, v) ==
  /\ th[c] = Idle /\ paper[Owner[v]] = "approved"
  /\ Goto(c, [pc |-> "cleared", vehicle |-> v])
  /\ UNCHANGED <<papers, tables, redis>>

GetVehicleByID(c, v) ==
  \/ th[c] = Idle /\ Lookup(c, v, FALSE)
  \/ th[c] = [pc |-> "cleared", vehicle |-> v] /\ Lookup(c, v, TRUE)

\* No documented reason to leave the index applies to the vehicle itself.
Listable == {v \in Vehicles : row[v].status = "active" /\ row[v].verification # "rejected"}

Acting(c) == th[c].pc = "act" /\ ~th[c].on

Copied(vs) == {v \in vs : cache[v] # None}

\* The answer of a statement, or its loss: the caller then takes a write that
\* took place for a failure, and neither Redis copy nor index follow.
Answered(c, task) ==
  LET v == th[c].vehicle IN
  \/ Goto(c, task) /\ UNCHANGED <<cache, geo, excused, strayed>>
  \/ /\ "db" \in Faults
     /\ Goto(c, Idle)
     /\ excused' = excused \cup Copied({v}) /\ strayed' = strayed \cup (geo \cap {v})
     /\ UNCHANGED <<cache, geo>>

Invalidation(v, unlist) == [pc |-> "invalidate", vehicle |-> v, unlist |-> unlist]

\* What changes is not part of the row here.
UpdateVehicle(c) ==
  /\ Acting(c) /\ Exists(th[c].vehicle)
  /\ Answered(c, Invalidation(th[c].vehicle, FALSE))
  /\ UNCHANGED <<papers, tables, relisted>>

\* (variant) the vehicle stays in the index
UpdateStatusOnly(c, status) ==
  /\ Acting(c) /\ Exists(th[c].vehicle)
  /\ row' = [row EXCEPT ![th[c].vehicle].status = status]
  /\ relisted' = relisted \ Listable'
  /\ Answered(c, Invalidation(th[c].vehicle, FALSE))
  /\ UNCHANGED <<papers, duty, verified>>

UpdateVehicleStatus(c, status) ==
  /\ Acting(c) /\ Exists(th[c].vehicle)
  /\ row' = [row EXCEPT ![th[c].vehicle].status = status]
  /\ relisted' = relisted \ Listable'
  /\ Answered(c, Invalidation(th[c].vehicle, status # "active"))
  /\ UNCHANGED <<papers, duty, verified>>

\* (variant) the copy in Redis is left alone
VerifyInDatabase(c, status) ==
  /\ Acting(c) /\ Exists(th[c].vehicle)
  /\ row' = [row EXCEPT ![th[c].vehicle].verification = status]
  /\ relisted' = relisted \ Listable'
  /\ verified' = IF status = "verified" THEN verified \cup {th[c].vehicle} ELSE verified
  /\ Answered(c, Idle)
  /\ UNCHANGED <<papers, duty>>

UpdateVerification(c, status) ==
  /\ Acting(c) /\ Exists(th[c].vehicle)
  /\ row' = [row EXCEPT ![th[c].vehicle].verification = status]
  /\ relisted' = relisted \ Listable'
  /\ verified' = IF status = "verified" THEN verified \cup {th[c].vehicle} ELSE verified
  /\ Answered(c, Invalidation(th[c].vehicle, status = "rejected"))
  /\ UNCHANGED <<papers, duty>>

OffDuty == [vehicle |-> None, online |-> FALSE]

\* (variant) the driver's switch stays behind
DeleteRowOnly(c) ==
  /\ Acting(c) /\ Exists(th[c].vehicle)
  /\ row' = [row EXCEPT ![th[c].vehicle] = [status |-> "deleted",
                                            verification |-> "pending"]]
  /\ Answered(c, Invalidation(th[c].vehicle, TRUE))
  /\ UNCHANGED <<papers, duty, verified, relisted>>

\* One transaction: the documents, the location and the driver's switch go
\* with the vehicle.
DeleteVehicle(c) ==
  /\ Acting(c) /\ Exists(th[c].vehicle)
  /\ LET v == th[c].vehicle
         docs == {p \in Documents : Subject[p] = v} IN
       /\ row' = [row EXCEPT ![v] = [status |-> "deleted", verification |-> "pending"]]
       /\ duty' = [d \in Drivers |-> IF duty[d].vehicle = v THEN OffDuty ELSE duty[d]]
       /\ paper' = [p \in Papers |-> IF p \in docs THEN "none" ELSE paper[p]]
       /\ final' = final \ docs
       /\ Answered(c, Invalidation(v, TRUE))
  /\ UNCHANGED <<approved, claimed, verified, relisted>>

\* A driver has one switch.  Turned on for another vehicle, it leaves the index
\* entry of the vehicle before.
UpsertAvailability(c) ==
  /\ th[c].pc = "act" /\ Exists(th[c].vehicle)
  /\ LET v == th[c].vehicle
         d == Owner[v]
         on == th[c].on IN
       /\ duty' = [duty EXCEPT ![d] = [vehicle |-> v, online |-> on]]
       /\ \/ /\ Goto(c, [pc |-> IF on THEN "list" ELSE "unlist", vehicle |-> v])
             /\ strayed' = strayed \cup (geo \cap ({duty[d].vehicle} \ {v}))
             /\ UNCHANGED <<cache, geo, excused, relisted>>
          \/ /\ "db" \in Faults
             /\ Goto(c, Idle)
             /\ strayed' = strayed \cup (geo \cap {duty[d].vehicle, v})
             /\ UNCHANGED <<cache, geo, excused, relisted>>
  /\ UNCHANGED <<papers, row, verified>>

\* UpsertLocation writes coordinates only, then looks whether to index them.
UpsertLocation(c) ==
  /\ Acting(c) /\ Exists(th[c].vehicle)
  /\ Goto(c, [pc |-> "sync", vehicle |-> th[c].vehicle])
  /\ UNCHANGED <<papers, tables, redis>>

syncGeoIndex(c) ==
  /\ th[c].pc = "sync"
  /\ \/ /\ th[c].vehicle \in OnDuty
        /\ Goto(c, [pc |-> "list", vehicle |-> th[c].vehicle])
     \/ /\ th[c].vehicle \notin OnDuty \/ "db" \in Faults
        /\ Goto(c, Idle)
  /\ UNCHANGED <<papers, tables, redis>>

UploadDocument(c) ==
  /\ Acting(c) /\ Exists(th[c].vehicle)
  /\ \E p \in Documents :
       /\ Subject[p] = th[c].vehicle /\ paper[p] = "none"
       /\ paper' = [paper EXCEPT ![p] = "pending"]
  /\ Goto(c, Idle)
  /\ UNCHANGED <<final, approved, claimed, tables, redis>>

DeleteDocument(c) ==
  /\ Acting(c)
  /\ \E p \in Documents :
       /\ Subject[p] = th[c].vehicle /\ paper[p] # "none"
       /\ paper' = [paper EXCEPT ![p] = "none"]
       /\ final' = final \ {p}
  /\ Goto(c, Idle)
  /\ UNCHANGED <<approved, claimed, tables, redis>>

\* The call was only to look the vehicle up, the row is gone, or the statement
\* fails: nothing is written.
Return(c) ==
  /\ th[c].pc = "act"
  /\ Acting(c) \/ ~Exists(th[c].vehicle) \/ "db" \in Faults
  /\ Goto(c, Idle)
  /\ UNCHANGED <<papers, tables, redis>>

-----------------------------------------------------------------------------
(* Redis.  Failures of its commands are logged and no more.                *)

invalidateVehicle(c) ==
  /\ th[c].pc = "invalidate"
  /\ LET v == th[c].vehicle IN
       /\ \/ /\ cache' = [cache EXCEPT ![v] = None]
             /\ excused' = excused \ {v}
          \/ /\ "redis" \in Faults
             /\ excused' = excused \cup Copied({v})
             /\ UNCHANGED cache
       /\ Goto(c, IF th[c].unlist THEN [pc |-> "unlist", vehicle |-> v] ELSE Idle)
  /\ UNCHANGED <<papers, tables, geo, strayed, relisted>>

\* On the road: where a search may send orders.
Ready == {v \in Vehicles : row[v] = [status |-> "active", verification |-> "verified"]}

\* Neither caller of GEOADD asks whether the vehicle is listable: the switch was
\* let through by the copy of the vehicle, and a location report has looked at
\* the switch alone.  Off duty here means that it was turned off, or the vehicle
\* deleted, after the caller saw it on.
GeoAdd(c) ==
  /\ th[c].pc = "list"
  /\ LET v == th[c].vehicle IN
       \/ /\ geo' = geo \cup {v}
          /\ strayed' = IF v \in OnDuty THEN strayed \ {v} ELSE strayed \cup {v}
          /\ relisted' = IF v \in Listable THEN relisted \ {v} ELSE relisted \cup {v}
       \/ "redis" \in Faults /\ UNCHANGED <<geo, strayed, relisted>>
  /\ Goto(c, Idle)
  /\ UNCHANGED <<papers, tables, cache, excused>>

\* Out of the index, and no longer explained.
Removed(vs) ==
  /\ geo' = geo \ vs
  /\ strayed' = strayed \ vs /\ relisted' = relisted \ vs

GeoRemove(c) ==
  /\ th[c].pc = "unlist"
  /\ LET v == th[c].vehicle IN
       \/ Removed({v})
       \/ /\ "redis" \in Faults
          /\ strayed' = strayed \cup (geo \cap {v})
          /\ UNCHANGED <<geo, relisted>>
  /\ Goto(c, Idle)
  /\ UNCHANGED <<papers, tables, cache, excused>>

Expire(v) ==
  /\ cache[v] # None
  /\ cache' = [cache EXCEPT ![v] = None]
  /\ excused' = excused \ {v}
  /\ UNCHANGED <<papers, tables, geo, strayed, relisted, th>>

-----------------------------------------------------------------------------
(* SearchNearby.  Which of the vehicles are near enough and suit the load  *)
(* is left open: any part of the index.                                    *)

\* Redis answers, or the switches in the database are scanned instead.
SearchNearby(c) ==
  /\ th[c] = Idle
  /\ \/ \E near \in SUBSET geo : Goto(c, [pc |-> "hits", vehicles |-> near])
     \/ /\ "redis" \in Faults
        /\ \E near \in SUBSET OnDuty : Goto(c, [pc |-> "online", vehicles |-> near])
  /\ UNCHANGED <<papers, tables, redis>>

\* (variant) the vehicles are taken from the cache where they are
ReadVehiclesCached(c) ==
  /\ th[c].pc = "hits"
  /\ LET copy(v) == IF cache[v] = None THEN row[v] ELSE cache[v] IN
       Goto(c, [pc |-> "ready",
                vehicles |-> {v \in th[c].vehicles :
                   copy(v) = [status |-> "active", verification |-> "verified"]},
                gone |-> {v \in th[c].vehicles : ~Exists(v)}])
  /\ UNCHANGED <<papers, tables, redis>>

ReadVehicles(c) ==
  /\ th[c].pc = "hits"
  /\ Goto(c, [pc |-> "ready", vehicles |-> th[c].vehicles \cap Ready,
              gone |-> {v \in th[c].vehicles : ~Exists(v)}])
  /\ UNCHANGED <<papers, tables, redis>>

\* Entries of deleted vehicles are removed on the way to the limit.
ReadAvailabilities(c) ==
  /\ th[c].pc = "ready"
  /\ Goto(c, [pc |-> "results", vehicles |-> th[c].vehicles \cap OnDuty])
  /\ \E gone \in SUBSET th[c].gone : Removed(gone)
  /\ UNCHANGED <<papers, tables, cache, excused>>

searchNearbyFallback(c) ==
  /\ th[c].pc = "online"
  /\ Goto(c, [pc |-> "results", vehicles |-> th[c].vehicles \cap Ready])
  /\ UNCHANGED <<papers, tables, redis>>

ReturnResults(c) ==
  /\ th[c].pc = "results"
  /\ Goto(c, Idle)
  /\ UNCHANGED <<papers, tables, redis>>

-----------------------------------------------------------------------------

\* Vehicles whose copy, or whose index entry, somebody is about to delete.
Invalidating == {th[c].vehicle : c \in {c \in Callers : th[c].pc = "invalidate"}}
Unlisting ==
  {th[c].vehicle : c \in {c \in Callers :
     th[c].pc = "unlist" \/ (th[c].pc = "invalidate" /\ th[c].unlist)}}

\* vehicle_service dies; reviews of dossiers are another process.
Crash ==
  /\ "crash" \in Faults
  /\ th' = [c \in Callers |->
              IF th[c].pc = "review" /\ th[c].paper \in Drivers THEN th[c] ELSE Idle]
  /\ excused' = excused \cup Copied(Invalidating)
  /\ strayed' = strayed \cup (geo \cap Unlisting)
  /\ UNCHANGED <<papers, tables, cache, geo, relisted>>

\* What was true at some moment of a search in progress.
Searching(task) == task.pc \in {"hits", "ready", "online", "results"}
Watch ==
  seen' = [c \in Callers |->
    IF ~Searching(th'[c]) THEN [ready |-> {}, on |-> {}]
    ELSE [ready |-> (IF Searching(th[c]) THEN seen[c].ready ELSE Ready) \cup Ready',
          on |-> (IF Searching(th[c]) THEN seen[c].on ELSE OnDuty) \cup OnDuty']]

Init ==
  /\ paper = [p \in Papers |-> "none"]
  /\ row = [v \in Vehicles |-> [status |-> "new", verification |-> "pending"]]
  /\ duty = [d \in Drivers |-> OffDuty]
  /\ cache = [v \in Vehicles |-> None]
  /\ geo = {} /\ th = [c \in Callers |-> Idle]
  /\ final = {} /\ approved = {} /\ claimed = {} /\ verified = {}
  /\ excused = {} /\ strayed = {} /\ relisted = {}
  /\ seen = [c \in Callers |-> [ready |-> {}, on |-> {}]]

Handler(c) ==
  \/ UpdateVehicle(c)
  \/ \E status \in Statuses : UpdateVehicleStatus(c, status)
  \/ \E status \in {"verified", "rejected"} : UpdateVerification(c, status)
  \/ DeleteVehicle(c) \/ UpsertAvailability(c) \/ UpsertLocation(c)
  \/ syncGeoIndex(c) \/ UploadDocument(c) \/ DeleteDocument(c) \/ Return(c)
  \/ Store(c) \/ invalidateVehicle(c) \/ GeoAdd(c) \/ GeoRemove(c)
  \/ SearchNearby(c) \/ ReadVehicles(c) \/ ReadAvailabilities(c)
  \/ searchNearbyFallback(c) \/ ReturnResults(c) \/ ReviewWrite(c)

Step ==
  \/ \E d \in Drivers, s \in Decisions \cup {"pending"} : SubmitKYC(d, s)
  \/ \E v \in Vehicles : RegisterVehicle(v) \/ Expire(v)
  \/ \E c \in Callers, p \in Papers : ReviewBegin(c, p)
  \/ \E c \in Callers, v \in Vehicles : SetDriverAvailability(c, v) \/ GetVehicleByID(c, v)
  \/ \E c \in Callers : Handler(c)
  \/ Crash

Next == Step /\ Watch
Spec == Init /\ [][Next]_vars

-----------------------------------------------------------------------------
(* Properties.                                                             *)

\* Rows, copies and goroutines keep their types, and a driver is on duty with a
\* vehicle of their own that exists.
TypeOK ==
  /\ paper \in [Papers -> Decisions \cup {"none", "pending"}]
  /\ row \in [Vehicles -> Row]
  /\ duty \in [Drivers -> [vehicle : Vehicles \cup {None}, online : BOOLEAN]]
  /\ \A d \in Drivers : duty[d].vehicle = None \/ /\ Exists(duty[d].vehicle)
                                                  /\ Owner[duty[d].vehicle] = d
  /\ cache \in [Vehicles -> Row \cup {None}]
  /\ geo \subseteq Vehicles /\ th \in [Callers -> Task]
  /\ final \subseteq Papers /\ approved \subseteq Drivers /\ claimed \subseteq Drivers
  /\ verified \subseteq Vehicles
  /\ excused \subseteq Vehicles /\ strayed \subseteq Vehicles
  /\ relisted \subseteq Vehicles
  /\ seen \in [Callers -> [ready : SUBSET Vehicles, on : SUBSET Vehicles]]

\* Whoever takes orders has had a dossier that read approved, which a reviewer
\* wrote or they themselves submitted, and has a vehicle that a reviewer
\* verified, although the gateway's check, the stale copy of the vehicle and the
\* switch are three steps in two services.
OnDutyWasCleared ==
  \A d \in Drivers :
    duty[d].online => d \in approved \cup claimed /\ duty[d].vehicle \in verified

\* A vehicle a search returns has been active and verified, and its driver on
\* duty, at some moment of that search, however stale index and copies are.
FoundWasFit ==
  \A c \in Callers :
    th[c].pc = "results" => th[c].vehicles \subseteq seen[c].ready \cap seen[c].on

\* Every writer of a vehicle deletes its copy: one that differs from the row is
\* about to be deleted, or a reader stored what it had read before a writer, or
\* the deletion or the writer failed.
StaleOnlyByRace ==
  \A v \in Vehicles : cache[v] \in {None, row[v]} \/ v \in excused \cup Invalidating

\* The four documented reasons take a vehicle out of the index.  The entry of
\* one that is off duty or deleted is about to be removed, or was left by a
\* failure, by a driver who changed vehicles, or by a GEOADD on its way when the
\* reason arose.  So is that of a vehicle in maintenance or rejected, unless a
\* switch or a location report has put it back since.
IndexFollows ==
  \A v \in geo \ (strayed \cup Unlisting) : v \in OnDuty /\ v \in Listable \cup relisted

\* A decision taken while nobody else was reviewing the paper is not turned
\* over, except by a new submission.
DecisionStands ==
  [][\A p \in final : paper'[p] = paper[p] \/ p \notin final']_vars
=============================================================================
