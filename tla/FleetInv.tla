------------------------------ MODULE FleetInv ------------------------------
(* The inductive invariant behind the safety properties of Fleet.          *)
EXTENDS Fleet

(* A decided paper shows a decision, and no reviewer is about to write it. *)
PapersOK ==
  \A p \in final :
    /\ paper[p] \in Decisions
    /\ \A c \in Callers : th[c] # [pc |-> "review", paper |-> p]

(* What a call on its way to the driver's switch has been let through by.  *)
Cleared(task) ==
  /\ task.pc = "cleared" => Owner[task.vehicle] \in approved \cup claimed
  /\ task.pc \in {"store", "act"} /\ task.on => Owner[task.vehicle] \in approved \cup claimed
  /\ task.pc = "store" =>
       /\ row[task.vehicle].status # "new"
       /\ task.found.verification = "verified" => task.vehicle \in verified
  /\ task.pc = "act" /\ task.on => task.vehicle \in verified

(* Wherever a dossier reads approved or a vehicle verified, row, copy or   *)
(* local, it has been so at some time.                                     *)
ClearedOK ==
  /\ \A c \in Callers : Cleared(th[c])
  /\ \A v \in Vehicles :
       /\ row[v].verification = "verified" => v \in verified
       /\ cache[v] # None /\ cache[v].verification = "verified" => v \in verified
       /\ row[v].status = "new" => cache[v] = None
  /\ \A d \in Drivers : paper[d] = "approved" => d \in approved \cup claimed

(* What a search has kept so far was fit, or on duty, since it began.      *)
SearchOK ==
  \A c \in Callers :
    /\ th[c].pc \in {"ready", "results"} => th[c].vehicles \subseteq seen[c].ready
    /\ th[c].pc \in {"online", "results"} => th[c].vehicles \subseteq seen[c].on

CoreInv == /\ TypeOK /\ PapersOK /\ ClearedOK
           /\ OnDutyWasCleared /\ StaleOnlyByRace /\ IndexFollows
RoadInv == CoreInv /\ SearchOK
=============================================================================
