----------------------------- MODULE AccountInv -----------------------------
(* The inductive invariant behind the safety properties of Account.        *)
EXTENDS Account

Setters == {c \in Callers : Setter(th[c])}

(* What a call on its way to set an address will write, after the deletion *)
(* of a copy that may come first.                                          *)
Ahead(task) == IF task.pc = "drop" THEN task.next ELSE task

(* Flags are cleared for a default address only.  While no two calls that  *)
(* set one cross, there is one at most, and who has cleared it finds none  *)
(* but their own.                                                          *)
DefaultsOK ==
  /\ \A c \in Callers :
       /\ th[c].pc = "clear" => th[c].default
       /\ th[c].pc = "drop" /\ th[c].next # Idle =>
            th[c].next.pc = "write" /\ th[c].next.default
  /\ ~crossed =>
       /\ \A c, d \in Setters : c = d
       /\ \A a, b \in Defaults : a = b
       /\ \A c \in Setters :
            Ahead(th[c]).pc = "write" => Defaults \subseteq {Ahead(th[c]).address}

AccountInvariant == TypeOK /\ StaleOnlyByRace /\ WholeAccount /\ DefaultsOK
=============================================================================
