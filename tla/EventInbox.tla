----------------------------- MODULE EventInbox -----------------------------
(***************************************************************************)
(* What the consumer of the notification service promises: an event is     *)
(* taken into the inbox once and in one step, and this step creates its    *)
(* notifications, for a user at most as many as the event has entries that *)
(* name him.                                                               *)
(***************************************************************************)
EXTENDS Naturals

CONSTANTS Events, Users,
          Recipients  \* how many entries of an event name a user

VARIABLES processed, \* events whose identifier is in the inbox
          told       \* how many notifications of an event a user was sent

ivars == <<processed, told>>

IInit ==
  /\ processed = {}
  /\ told = [e \in Events |-> [u \in Users |-> 0]]

TakeIn(e) ==
  /\ e \notin processed
  /\ processed' = processed \cup {e}
  /\ told' \in [Events -> [Users -> Nat]]
  /\ \A u \in Users : told'[e][u] <= Recipients[e][u]
  /\ \A f \in Events \ {e} : told'[f] = told[f]

INext == \E e \in Events : TakeIn(e)

ISpec == IInit /\ [][INext]_ivars
=============================================================================
