-------------------------- MODULE NotificationsInv --------------------------
(* The inductive invariant behind the safety properties of Notifications.  *)
EXTENDS Notifications

(* While the channel is open, what is in the consumer's hands is what the  *)
(* broker holds unacknowledged; once it is closed the broker holds nothing. *)
ChannelOK ==
  /\ IsFiniteSet(unacked)
  /\ ~open => unacked = {}
  /\ open => buffer \subseteq unacked
  /\ open /\ handler # Idle => handler.msg \in unacked \ buffer
  /\ process = "down" => ~open /\ handler = Idle /\ buffer = {}
  /\ \A m \in queue \cup unacked \cup buffer : m.event \in sent
  /\ handler # Idle => handler.msg.event \in sent

(* What the consumer has done with the event it is at.                     *)
HandlerOK ==
  /\ handler.pc = "dispatch" =>
       \A u \in Users :
         handler.left[u] + handler.rows[u] <= Recipients[handler.msg.event][u]
  /\ handler.pc = "guard" =>
       \A u \in Users : handler.rows[u] <= Recipients[handler.msg.event][u]
  /\ handler.pc = "invalidate" => handler.msg.event \in processed
  /\ handler.pc = "answer" /\ handler.ok =>
       Recipients[handler.msg.event] = Nobody \/ handler.msg.event \in processed
  /\ \A e \in Events \ processed : told[e] = Nobody

DeliveryInv == TypeOK /\ ChannelOK /\ HandlerOK /\ NothingLost
=============================================================================
