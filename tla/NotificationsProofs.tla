------------------------- MODULE NotificationsProofs -------------------------
(* Proofs about Notifications.                                             *)
EXTENDS NotificationsInv, FiniteSetTheorems, TLAPS

BrokerOK ==
  /\ sent \subseteq Events /\ dlq \subseteq sent /\ processed \subseteq sent
  /\ queue \subseteq Message /\ unacked \subseteq Message /\ buffer \subseteq Message
  /\ \A m, n \in queue \cup unacked : m.event = n.event => m = n
  /\ queue \cap unacked = {}
RowsOK ==
  /\ process \in {"up", "stopped", "down"} /\ open \in BOOLEAN
  /\ told \in [Events -> Rows]
  /\ muted \subseteq Users
  /\ unread \in [Users -> Nat]
  /\ cache \in [Users -> {None} \cup Nat]
  /\ excused \in [Users -> BOOLEAN]
  /\ th \in [Callers -> Task]

LEMMA Parts ==
  TypeOK <=> /\ BrokerOK /\ RowsOK /\ handler \in Handling
             /\ Cardinality(unacked) <= Prefetch
BY DEF TypeOK, BrokerOK, RowsOK

LEMMA HandlerShape ==
  ASSUME handler \in Handling
  PROVE  /\ handler # Idle => handler.msg \in Message
         /\ handler = Idle => handler.pc = "idle"
         /\ handler.pc \in {"guard", "invalidate"} =>
              /\ handler = [pc |-> handler.pc, msg |-> handler.msg, rows |-> handler.rows]
              /\ handler.rows \in Rows
         /\ handler.pc = "dispatch" =>
              /\ handler = [pc |-> "dispatch", msg |-> handler.msg, left |-> handler.left,
                            rows |-> handler.rows]
              /\ handler.left \in Rows /\ handler.rows \in Rows
         /\ handler.pc = "answer" => handler.ok \in BOOLEAN
         /\ handler # Idle <=> handler.pc \in {"dispatch", "guard", "invalidate", "answer"}
BY DEF Handling, Idle

LEMMA NobodyIsRows == Nobody \in Rows /\ \A u \in Users : Nobody[u] = 0
BY DEF Nobody, Rows

LEMMA InitDelivery == Init => DeliveryInv
<1> SUFFICES ASSUME Init PROVE DeliveryInv
  OBVIOUS
<1>1. IsFiniteSet(unacked) /\ Cardinality(unacked) = 0
  BY FS_EmptySet DEF Init
<1>2. BrokerOK /\ RowsOK /\ handler \in Handling
  BY NobodyIsRows DEF Init, BrokerOK, RowsOK, Handling, Task, Idle
<1>3. TypeOK
  BY <1>1, <1>2, Parts, NotificationConstants
<1>4. QED
  BY <1>1, <1>3 DEF Init, DeliveryInv, ChannelOK, HandlerOK, NothingLost, Idle


LEMMA RequeuedOK ==
  ASSUME unacked \subseteq Message
  PROVE  /\ Requeued \subseteq Message
         /\ \A r \in Requeued : \E m \in unacked : r.event = m.event
         /\ \A m \in unacked : \E r \in Requeued : r.event = m.event
         /\ \A r, s \in Requeued : r.event = s.event => r = s
<1>1. \A r \in Requeued : r = [event |-> r.event, redelivered |-> TRUE]
  BY DEF Requeued
<1>2. \A r, s \in Requeued : r.event = s.event => r = s
  <2> TAKE r \in Requeued, s \in Requeued
  <2> HAVE r.event = s.event
  <2>1. r = [event |-> r.event, redelivered |-> TRUE] /\ s = [event |-> s.event, redelivered |-> TRUE]
    BY <1>1
  <2>2. QED
    BY <2>1, Zenon
<1>3. Requeued \subseteq Message
  <2>1. \A m \in unacked : [event |-> m.event, redelivered |-> TRUE] \in Message
    BY DEF Message
  <2>2. QED
    BY <2>1 DEF Requeued
<1>4. \A r \in Requeued : \E m \in unacked : r.event = m.event
  BY DEF Requeued
<1>5. \A m \in unacked : \E r \in Requeued : r.event = m.event
  <2> TAKE m \in unacked
  <2> DEFINE r == [event |-> m.event, redelivered |-> TRUE]
  <2>1. r \in Requeued /\ r.event = m.event
    BY DEF Requeued
  <2>2. QED
    BY <2>1
<1>6. QED
  BY <1>2, <1>3, <1>4, <1>5


LEMMA PublishKeeps ==
  ASSUME DeliveryInv, NEW e \in Events, Publish(e)
  PROVE  DeliveryInv'
<1>0. /\ BrokerOK /\ RowsOK /\ handler \in Handling /\ Cardinality(unacked) <= Prefetch
      /\ ChannelOK /\ HandlerOK /\ NothingLost
  BY Parts DEF DeliveryInv
<1>1. BrokerOK'
  <2> DEFINE new == [event |-> e, redelivered |-> FALSE]
  <2>1. new \in Message /\ new.event = e
    BY DEF Message
  <2>2. /\ queue' = queue \cup {new} /\ sent' = sent \cup {e} /\ e \notin sent
        /\ UNCHANGED <<unacked, dlq, buffer, processed>>
    BY DEF Publish, channel, inbox
  <2> HIDE DEF new
  <2>3. QED
    BY <1>0, <2>1, <2>2 DEF BrokerOK, ChannelOK
<1>2. RowsOK'
  BY <1>0, HandlerShape
     DEF RowsOK, Idle, Task, Publish, broker, channel, inbox, counter
<1>3. handler' \in Handling
  BY <1>0, HandlerShape, NotificationConstants
     DEF BrokerOK, Handling, Idle, Publish, broker, channel, inbox, counter
<1>4. IsFiniteSet(unacked)' /\ Cardinality(unacked)' <= Prefetch
  BY <1>0, NotificationConstants
     DEF ChannelOK, Publish, broker, channel, inbox, counter
<1>5. ChannelOK'
  BY <1>0, <1>4, HandlerShape
     DEF BrokerOK, ChannelOK, Idle, Publish, broker, channel, inbox, counter
<1>6. HandlerOK'
  BY <1>0, HandlerShape
     DEF BrokerOK, RowsOK, HandlerOK, Idle, Publish, broker, channel, inbox,
         counter
<1>7. NothingLost'
  <2> DEFINE new == [event |-> e, redelivered |-> FALSE]
  <2>1. /\ queue' = queue \cup {new} /\ sent' = sent \cup {e}
        /\ UNCHANGED <<unacked, dlq, processed>>
    BY DEF Publish, inbox
  <2>2. new \in queue' /\ new.event = e
    BY <2>1
  <2> HIDE DEF new
  <2>3. QED
    BY <1>0, <2>1, <2>2 DEF NothingLost
<1>8. QED
  BY <1>1, <1>2, <1>3, <1>4, <1>5, <1>6, <1>7
     DEF DeliveryInv, TypeOK, BrokerOK, RowsOK

LEMMA DeliverKeeps ==
  ASSUME DeliveryInv, NEW m \in queue, Deliver(m)
  PROVE  DeliveryInv'
<1>0. /\ BrokerOK /\ RowsOK /\ handler \in Handling /\ Cardinality(unacked) <= Prefetch
      /\ ChannelOK /\ HandlerOK /\ NothingLost
  BY Parts DEF DeliveryInv
<1>1. BrokerOK'
  BY <1>0, HandlerShape
     DEF BrokerOK, ChannelOK, Message, Deliver, broker, channel, inbox, counter
<1>2. RowsOK'
  BY <1>0, HandlerShape
     DEF RowsOK, Idle, Task, Deliver, broker, channel, inbox, counter
<1>3. handler' \in Handling
  BY <1>0, HandlerShape, NotificationConstants
     DEF BrokerOK, Handling, Idle, Deliver, broker, channel, inbox, counter
<1>4. IsFiniteSet(unacked)' /\ Cardinality(unacked)' <= Prefetch
  <2>1. IsFiniteSet(unacked) /\ m \notin unacked /\ Cardinality(unacked) \in Nat
    BY <1>0, FS_CardinalityType DEF ChannelOK, BrokerOK
  <2>2. unacked' = unacked \cup {m} /\ Cardinality(unacked) < Prefetch
    BY DEF Deliver
  <2>3. /\ IsFiniteSet(unacked \cup {m})
        /\ Cardinality(unacked \cup {m}) = Cardinality(unacked) + 1
    BY <2>1, FS_AddElement
  <2>4. QED
    BY <2>1, <2>2, <2>3, NotificationConstants
<1>5. ChannelOK'
  BY <1>0, <1>4, HandlerShape
     DEF BrokerOK, ChannelOK, Idle, Deliver, broker, channel, inbox, counter
<1>6. HandlerOK'
  BY <1>0, HandlerShape
     DEF BrokerOK, RowsOK, HandlerOK, Idle, Deliver, broker, channel, inbox,
         counter
<1>7. NothingLost'
  BY <1>0, HandlerShape
     DEF BrokerOK, ChannelOK, HandlerOK, NothingLost, Idle, Deliver, broker,
         channel, inbox, counter
<1>8. QED
  BY <1>1, <1>2, <1>3, <1>4, <1>5, <1>6, <1>7
     DEF DeliveryInv, TypeOK, BrokerOK, RowsOK

LEMMA HandleKeeps ==
  ASSUME DeliveryInv, NEW m \in buffer, Handle(m)
  PROVE  DeliveryInv'
<1>0. /\ BrokerOK /\ RowsOK /\ handler \in Handling /\ Cardinality(unacked) <= Prefetch
      /\ ChannelOK /\ HandlerOK /\ NothingLost
  BY Parts DEF DeliveryInv
<1>1. BrokerOK'
  BY <1>0, HandlerShape
     DEF BrokerOK, ChannelOK, Message, Handle, broker, channel, inbox, counter
<1>2. RowsOK'
  BY <1>0, HandlerShape
     DEF RowsOK, Idle, Task, Handle, broker, channel, inbox, counter
<1>3. handler' \in Handling
  <2>1. m \in Message /\ Recipients[m.event] \in Rows
    BY <1>0, NotificationConstants DEF BrokerOK, Message, Rows
  <2>2. QED
    BY <2>1, NobodyIsRows DEF Handle, Handling
<1>4. IsFiniteSet(unacked)' /\ Cardinality(unacked)' <= Prefetch
  BY <1>0, NotificationConstants
     DEF ChannelOK, Handle, broker, channel, inbox, counter
<1>5. ChannelOK'
  BY <1>0, <1>4, HandlerShape
     DEF BrokerOK, ChannelOK, Idle, Handle, broker, channel, inbox, counter
<1>6. HandlerOK'
  <2>1. Recipients[m.event] \in Rows /\ \A u \in Users : Recipients[m.event][u] + 0
                                                        = Recipients[m.event][u]
    BY <1>0, NotificationConstants DEF BrokerOK, Message, Rows
  <2>2. \A u \in Users :
          Recipients[m.event][u] + Nobody[u] <= Recipients[m.event][u]
    BY <2>1, NobodyIsRows DEF Rows
  <2>3. UNCHANGED <<told, processed>>
    BY DEF Handle, inbox
  <2>4. QED
    BY <1>0, <2>2, <2>3 DEF Handle, HandlerOK
<1>7. NothingLost'
  BY <1>0, HandlerShape
     DEF BrokerOK, ChannelOK, HandlerOK, NothingLost, Idle, Handle, broker,
         channel, inbox, counter
<1>8. QED
  BY <1>1, <1>2, <1>3, <1>4, <1>5, <1>6, <1>7
     DEF DeliveryInv, TypeOK, BrokerOK, RowsOK

(* Dealing with an entry.                                                  *)
LEMMA EntryMoves ==
  ASSUME handler \in Handling, handler.pc = "dispatch", NEW u \in Users,
         handler.left[u] > 0, NEW n \in {0, 1}, Entry(u, n), HandlerOK
  PROVE  /\ handler' \in Handling /\ handler' # Idle /\ handler'.msg = handler.msg
         /\ handler'.pc \in {"dispatch", "guard"}
         /\ handler'.pc = "dispatch" =>
              \A v \in Users :
                handler'.left[v] + handler'.rows[v] <= Recipients[handler.msg.event][v]
         /\ handler'.pc = "guard" =>
              \A v \in Users : handler'.rows[v] <= Recipients[handler.msg.event][v]
<1> DEFINE left == [handler.left EXCEPT ![u] = @ - 1]
           rows == [handler.rows EXCEPT ![u] = @ + n]
<1>1. /\ handler = [pc |-> "dispatch", msg |-> handler.msg, left |-> handler.left,
                    rows |-> handler.rows]
      /\ handler.left \in Rows /\ handler.rows \in Rows /\ handler.msg \in Message
  BY HandlerShape, Zenon DEF Idle
<1>2. left \in Rows /\ rows \in Rows
  BY <1>1 DEF Rows
<1>3. \A v \in Users : left[v] + rows[v] <= Recipients[handler.msg.event][v]
  <2>1. Recipients[handler.msg.event] \in Rows
    BY <1>1, NotificationConstants DEF Message, Rows
  <2>2. \A v \in Users :
          handler.left[v] + handler.rows[v] <= Recipients[handler.msg.event][v]
    BY DEF HandlerOK
  <2>3. QED
    BY <1>1, <2>1, <2>2 DEF Rows
<1>4. \A v \in Users : rows[v] <= Recipients[handler.msg.event][v]
  <2>1. \A v \in Users : left[v] \in Nat /\ rows[v] \in Nat
    BY <1>2 DEF Rows
  <2>2. Recipients[handler.msg.event] \in [Users -> Nat]
    BY <1>1, NotificationConstants DEF Message
  <2> HIDE DEF left, rows
  <2>3. QED
    BY <1>3, <2>1, <2>2
<1>5. handler' = IF left = Nobody
                   THEN [pc |-> "guard", msg |-> handler.msg, rows |-> rows]
                   ELSE [pc |-> "dispatch", msg |-> handler.msg, left |-> left,
                         rows |-> rows]
  BY DEF Entry
<1> HIDE DEF left, rows
<1>6. CASE left = Nobody
  <2>1. handler' = [pc |-> "guard", msg |-> handler.msg, rows |-> rows]
    BY <1>5, <1>6
  <2>2. handler' \in Handling
    BY <1>1, <1>2, <2>1 DEF Handling
  <2>3. QED
    BY <1>4, <2>1, <2>2 DEF Idle
<1>7. CASE left # Nobody
  <2>1. handler' = [pc |-> "dispatch", msg |-> handler.msg, left |-> left, rows |-> rows]
    BY <1>5, <1>7
  <2>2. handler' \in Handling
    BY <1>1, <1>2, <2>1 DEF Handling
  <2>3. QED
    BY <1>3, <2>1, <2>2 DEF Idle
<1>8. QED
  BY <1>6, <1>7

LEMMA DispatchEventKeeps ==
  ASSUME DeliveryInv, NEW u \in Users, DispatchEvent(u)
  PROVE  DeliveryInv'
<1>0. /\ BrokerOK /\ RowsOK /\ handler \in Handling /\ Cardinality(unacked) <= Prefetch
      /\ ChannelOK /\ HandlerOK /\ NothingLost
  BY Parts DEF DeliveryInv
<1>1. UNCHANGED <<sent, queue, unacked, dlq, process, open, buffer, processed, told,
                  muted, unread, cache, excused, th>>
  BY DEF DispatchEvent, broker, channel, inbox, counter
<1>2. PICK n \in {0, 1} : Entry(u, n)
  BY DEF DispatchEvent
<1>3. handler.pc = "dispatch" /\ handler.left[u] > 0 /\ handler # Idle
  BY DEF DispatchEvent, Idle
<1>4. /\ handler' \in Handling /\ handler' # Idle /\ handler'.msg = handler.msg
      /\ handler'.pc \in {"dispatch", "guard"}
      /\ handler'.pc = "dispatch" =>
           \A v \in Users :
             handler'.left[v] + handler'.rows[v] <= Recipients[handler.msg.event][v]
      /\ handler'.pc = "guard" =>
           \A v \in Users : handler'.rows[v] <= Recipients[handler.msg.event][v]
  BY <1>0, <1>2, <1>3, EntryMoves
<1>5. TypeOK'
  BY <1>0, <1>1, <1>4 DEF TypeOK, BrokerOK, RowsOK
<1>6. ChannelOK'
  BY <1>0, <1>1, <1>3, <1>4 DEF ChannelOK
<1>7. HandlerOK'
  BY <1>0, <1>1, <1>4 DEF HandlerOK
<1>8. NothingLost'
  BY <1>0, <1>1 DEF NothingLost
<1>9. QED
  BY <1>5, <1>6, <1>7, <1>8 DEF DeliveryInv

LEMMA CreateWithEventGuardKeeps ==
  ASSUME DeliveryInv, CreateWithEventGuard
  PROVE  DeliveryInv'
<1>0. /\ BrokerOK /\ RowsOK /\ handler \in Handling /\ Cardinality(unacked) <= Prefetch
      /\ ChannelOK /\ HandlerOK /\ NothingLost
  BY Parts DEF DeliveryInv
<1>1. BrokerOK'
  BY <1>0, HandlerShape
     DEF BrokerOK, ChannelOK, Message, CreateWithEventGuard, Create, Committed,
         Answer, Excuse, broker, channel, inbox, counter
<1>2. RowsOK'
  <2>1. handler.msg.event \in Events /\ handler.rows \in Rows
    BY <1>0, HandlerShape DEF CreateWithEventGuard, Message, Idle
  <2>2. told' \in [Events -> Rows] /\ unread' \in [Users -> Nat]
    <3>1. CASE UNCHANGED <<told, unread>>
      BY <1>0, <3>1 DEF RowsOK
    <3>2. CASE Create(handler.msg.event, handler.rows)
      <4> DEFINE f == [u \in Users |-> told[handler.msg.event][u] + handler.rows[u]]
      <4>1. told[handler.msg.event] \in [Users -> Nat] /\ handler.rows \in [Users -> Nat]
        BY <1>0, <2>1 DEF RowsOK, Rows
      <4>2. f \in Rows
        BY <4>1 DEF Rows
      <4>3. told' = [told EXCEPT ![handler.msg.event] = f]
        BY <3>2 DEF Create
      <4>4. unread' = [u \in Users |-> unread[u] + handler.rows[u]]
        BY <3>2 DEF Create
      <4> HIDE DEF f
      <4>5. unread' \in [Users -> Nat]
        BY <1>0, <4>1, <4>4 DEF RowsOK
      <4>6. told' \in [Events -> Rows]
        BY <1>0, <4>2, <4>3 DEF RowsOK
      <4>7. QED
        BY <4>5, <4>6
    <3>3. QED
      BY <3>1, <3>2 DEF CreateWithEventGuard, inbox, counter
  <2>3. excused' \in [Users -> BOOLEAN] /\ UNCHANGED <<cache, process, open, muted, th>>
    BY <1>0
       DEF RowsOK, CreateWithEventGuard, Create, Committed, Excuse, channel,
           counter
  <2>4. QED
    BY <1>0, <2>2, <2>3 DEF RowsOK
<1>3. handler' \in Handling
  <2>1. handler.msg \in Message /\ handler.pc = "guard" /\ handler.rows \in Rows
    BY <1>0, HandlerShape DEF CreateWithEventGuard
  <2>2. \/ handler' = [handler EXCEPT !.pc = "invalidate"]
        \/ \E ok \in BOOLEAN : handler' = [pc |-> "answer", msg |-> handler.msg, ok |-> ok]
    BY DEF CreateWithEventGuard, Committed, Answer
  <2>3. [handler EXCEPT !.pc = "invalidate"]
          = [pc |-> "invalidate", msg |-> handler.msg, rows |-> handler.rows]
    <3>1. handler = [pc |-> handler.pc, msg |-> handler.msg, rows |-> handler.rows]
      BY <1>0, <2>1, HandlerShape
    <3>2. QED
      BY <3>1
  <2>4. QED
    BY <2>1, <2>2, <2>3 DEF Handling
<1>4. IsFiniteSet(unacked)' /\ Cardinality(unacked)' <= Prefetch
  BY <1>0, NotificationConstants
     DEF ChannelOK, CreateWithEventGuard, Create, Committed, Answer, Excuse,
         broker, channel, inbox, counter
<1>5. ChannelOK'
  BY <1>0, <1>4, HandlerShape
     DEF BrokerOK, ChannelOK, Idle, CreateWithEventGuard, Create, Committed,
         Answer, Excuse, broker, channel, inbox, counter
<1>6. HandlerOK'
  BY <1>0, HandlerShape
     DEF BrokerOK, RowsOK, HandlerOK, Idle, CreateWithEventGuard, Create,
         Committed, Answer, Excuse, broker, channel, inbox, counter
<1>7. NothingLost'
  BY <1>0, HandlerShape
     DEF BrokerOK, ChannelOK, HandlerOK, NothingLost, Idle, CreateWithEventGuard,
         Create, Committed, Answer, Excuse, broker, channel, inbox, counter
<1>8. QED
  BY <1>1, <1>2, <1>3, <1>4, <1>5, <1>6, <1>7
     DEF DeliveryInv, TypeOK, BrokerOK, RowsOK

LEMMA InvalidateRecipientsKeeps ==
  ASSUME DeliveryInv, InvalidateRecipients
  PROVE  DeliveryInv'
<1>0. /\ BrokerOK /\ RowsOK /\ handler \in Handling /\ Cardinality(unacked) <= Prefetch
      /\ ChannelOK /\ HandlerOK /\ NothingLost
  BY Parts DEF DeliveryInv
<1>1. BrokerOK'
  BY <1>0, HandlerShape
     DEF BrokerOK, ChannelOK, Message, InvalidateRecipients, Answer,
         invalidateUnread, Deleted, DeleteFails, Excuse, broker, channel, inbox,
         counter
<1>2. RowsOK'
  BY <1>0, HandlerShape
     DEF RowsOK, Idle, Task, InvalidateRecipients, Answer, invalidateUnread,
         Deleted, DeleteFails, Excuse, broker, channel, inbox, counter
<1>3. handler' \in Handling
  BY <1>0, HandlerShape, NotificationConstants
     DEF BrokerOK, Handling, Idle, InvalidateRecipients, Answer,
         invalidateUnread, Deleted, DeleteFails, Excuse, broker, channel, inbox,
         counter
<1>4. IsFiniteSet(unacked)' /\ Cardinality(unacked)' <= Prefetch
  BY <1>0, NotificationConstants
     DEF ChannelOK, InvalidateRecipients, Answer, invalidateUnread, Deleted,
         DeleteFails, Excuse, broker, channel, inbox, counter
<1>5. ChannelOK'
  BY <1>0, <1>4, HandlerShape
     DEF BrokerOK, ChannelOK, Idle, InvalidateRecipients, Answer,
         invalidateUnread, Deleted, DeleteFails, Excuse, broker, channel, inbox,
         counter
<1>6. HandlerOK'
  BY <1>0, HandlerShape
     DEF BrokerOK, RowsOK, HandlerOK, Idle, InvalidateRecipients, Answer,
         invalidateUnread, Deleted, DeleteFails, Excuse, broker, channel, inbox,
         counter
<1>7. NothingLost'
  BY <1>0, HandlerShape
     DEF BrokerOK, ChannelOK, HandlerOK, NothingLost, Idle, InvalidateRecipients,
         Answer, invalidateUnread, Deleted, DeleteFails, Excuse, broker, channel,
         inbox, counter
<1>8. QED
  BY <1>1, <1>2, <1>3, <1>4, <1>5, <1>6, <1>7
     DEF DeliveryInv, TypeOK, BrokerOK, RowsOK

LEMMA AckKeeps ==
  ASSUME DeliveryInv, Ack
  PROVE  DeliveryInv'
<1>0. /\ BrokerOK /\ RowsOK /\ handler \in Handling /\ Cardinality(unacked) <= Prefetch
      /\ ChannelOK /\ HandlerOK /\ NothingLost
  BY Parts DEF DeliveryInv
<1>1. BrokerOK'
  BY <1>0, HandlerShape
     DEF BrokerOK, ChannelOK, Message, Ack, Settled, broker, channel, inbox,
         counter
<1>2. RowsOK'
  BY <1>0, HandlerShape
     DEF RowsOK, Idle, Task, Ack, Settled, broker, channel, inbox, counter
<1>3. handler' \in Handling
  BY <1>0, HandlerShape, NotificationConstants
     DEF BrokerOK, Handling, Idle, Ack, Settled, broker, channel, inbox, counter
<1>4. IsFiniteSet(unacked)' /\ Cardinality(unacked)' <= Prefetch
  <2>1. IsFiniteSet(unacked) /\ Cardinality(unacked) \in Nat
    BY <1>0, FS_CardinalityType DEF ChannelOK
  <2>2. unacked' = unacked \/ unacked' = unacked \ {handler.msg}
    BY DEF Ack, Settled
  <2>3. /\ IsFiniteSet(unacked \ {handler.msg})
        /\ Cardinality(unacked \ {handler.msg}) <= Cardinality(unacked)
    BY <2>1, FS_RemoveElement
  <2>4. Cardinality(unacked \ {handler.msg}) \in Nat
    BY <2>3, FS_CardinalityType
  <2>5. Prefetch \in Nat
    BY NotificationConstants
  <2>6. QED
    BY <1>0, <2>1, <2>2, <2>3, <2>4, <2>5
<1>5. ChannelOK'
  BY <1>0, <1>4, HandlerShape
     DEF BrokerOK, ChannelOK, Idle, Ack, Settled, broker, channel, inbox, counter
<1>6. HandlerOK'
  BY <1>0, HandlerShape
     DEF BrokerOK, RowsOK, HandlerOK, Idle, Ack, Settled, broker, channel, inbox,
         counter
<1>7. NothingLost'
  BY <1>0, HandlerShape
     DEF BrokerOK, ChannelOK, HandlerOK, NothingLost, Idle, Ack, Settled, broker,
         channel, inbox, counter
<1>8. QED
  BY <1>1, <1>2, <1>3, <1>4, <1>5, <1>6, <1>7
     DEF DeliveryInv, TypeOK, BrokerOK, RowsOK

LEMMA NackKeeps ==
  ASSUME DeliveryInv, Nack
  PROVE  DeliveryInv'
<1>0. /\ BrokerOK /\ RowsOK /\ handler \in Handling /\ Cardinality(unacked) <= Prefetch
      /\ ChannelOK /\ HandlerOK /\ NothingLost
  BY Parts DEF DeliveryInv
<1>1. BrokerOK'
  <2> DEFINE new == [event |-> handler.msg.event, redelivered |-> TRUE]
  <2>1. handler.msg \in Message /\ handler # Idle /\ UNCHANGED <<sent, buffer, processed>>
    BY <1>0, HandlerShape DEF Nack, Settled, channel, inbox
  <2>2. new \in Message /\ new.event = handler.msg.event /\ new.redelivered
    BY <2>1 DEF Message
  <2>3. \/ /\ open /\ ~handler.msg.redelivered /\ unacked' = unacked \ {handler.msg}
           /\ queue' = queue \cup {new} /\ UNCHANGED dlq
        \/ /\ open /\ unacked' = unacked \ {handler.msg}
           /\ dlq' = dlq \cup {handler.msg.event} /\ UNCHANGED queue
        \/ UNCHANGED <<queue, unacked, dlq>>
    BY DEF Nack
  <2>4. open => handler.msg \in unacked /\ handler.msg.event \in sent
    BY <1>0, <2>1 DEF ChannelOK
  <2> HIDE DEF new
  <2>5. CASE open /\ ~handler.msg.redelivered /\ unacked' = unacked \ {handler.msg}
              /\ queue' = queue \cup {new} /\ UNCHANGED dlq
    <3>1. \A m \in queue \cup unacked : m.event = new.event => m = handler.msg
      BY <1>0, <2>2, <2>4, <2>5 DEF BrokerOK
    <3>2. handler.msg \notin queue /\ new # handler.msg
      BY <1>0, <2>2, <2>4, <2>5 DEF BrokerOK
    <3>3. QED
      BY <1>0, <2>1, <2>2, <2>5, <3>1, <3>2 DEF BrokerOK
  <2>6. CASE open /\ unacked' = unacked \ {handler.msg}
              /\ dlq' = dlq \cup {handler.msg.event} /\ UNCHANGED queue
    BY <1>0, <2>1, <2>4, <2>6 DEF BrokerOK
  <2>7. CASE UNCHANGED <<queue, unacked, dlq>>
    BY <1>0, <2>1, <2>7 DEF BrokerOK
  <2>8. QED
    BY <2>3, <2>5, <2>6, <2>7
<1>2. RowsOK'
  BY <1>0, HandlerShape
     DEF RowsOK, Idle, Task, Nack, Settled, broker, channel, inbox, counter
<1>3. handler' \in Handling
  BY <1>0, HandlerShape, NotificationConstants
     DEF BrokerOK, Handling, Idle, Nack, Settled, broker, channel, inbox, counter
<1>4. IsFiniteSet(unacked)' /\ Cardinality(unacked)' <= Prefetch
  <2>1. IsFiniteSet(unacked) /\ Cardinality(unacked) \in Nat
    BY <1>0, FS_CardinalityType DEF ChannelOK
  <2>2. unacked' = unacked \/ unacked' = unacked \ {handler.msg}
    BY DEF Nack, Settled
  <2>3. /\ IsFiniteSet(unacked \ {handler.msg})
        /\ Cardinality(unacked \ {handler.msg}) <= Cardinality(unacked)
    BY <2>1, FS_RemoveElement
  <2>4. Cardinality(unacked \ {handler.msg}) \in Nat
    BY <2>3, FS_CardinalityType
  <2>5. Prefetch \in Nat
    BY NotificationConstants
  <2>6. QED
    BY <1>0, <2>1, <2>2, <2>3, <2>4, <2>5
<1>5. ChannelOK'
  BY <1>0, <1>4, HandlerShape
     DEF BrokerOK, ChannelOK, Idle, Nack, Settled, broker, channel, inbox, counter
<1>6. HandlerOK'
  BY <1>0, HandlerShape
     DEF BrokerOK, RowsOK, HandlerOK, Idle, Nack, Settled, broker, channel,
         inbox, counter
<1>7. NothingLost'
  <2> DEFINE new == [event |-> handler.msg.event, redelivered |-> TRUE]
  <2>1. UNCHANGED <<sent, processed>>
    BY DEF Nack, Settled, inbox
  <2>2. \/ /\ unacked' = unacked \ {handler.msg}
           /\ queue' = queue \cup {new} /\ UNCHANGED dlq
        \/ /\ unacked' = unacked \ {handler.msg}
           /\ dlq' = dlq \cup {handler.msg.event} /\ UNCHANGED queue
        \/ UNCHANGED <<queue, unacked, dlq>>
    BY DEF Nack
  <2>3. new.event = handler.msg.event
    OBVIOUS
  <2> HIDE DEF new
  <2>4. QED
    BY <1>0, <2>1, <2>2, <2>3 DEF NothingLost
<1>8. QED
  BY <1>1, <1>2, <1>3, <1>4, <1>5, <1>6, <1>7
     DEF DeliveryInv, TypeOK, BrokerOK, RowsOK

LEMMA StartReturnsKeeps ==
  ASSUME DeliveryInv, StartReturns
  PROVE  DeliveryInv'
<1>0. /\ BrokerOK /\ RowsOK /\ handler \in Handling /\ Cardinality(unacked) <= Prefetch
      /\ ChannelOK /\ HandlerOK /\ NothingLost
  BY Parts DEF DeliveryInv
<1>1. BrokerOK'
  BY <1>0, HandlerShape
     DEF BrokerOK, ChannelOK, Message, StartReturns, broker, channel, inbox,
         counter
<1>2. RowsOK'
  BY <1>0, HandlerShape
     DEF RowsOK, Idle, Task, StartReturns, broker, channel, inbox, counter
<1>3. handler' \in Handling
  BY <1>0, HandlerShape, NotificationConstants
     DEF BrokerOK, Handling, Idle, StartReturns, broker, channel, inbox, counter
<1>4. IsFiniteSet(unacked)' /\ Cardinality(unacked)' <= Prefetch
  BY <1>0, NotificationConstants
     DEF ChannelOK, StartReturns, broker, channel, inbox, counter
<1>5. ChannelOK'
  BY <1>0, <1>4, HandlerShape
     DEF BrokerOK, ChannelOK, Idle, StartReturns, broker, channel, inbox, counter
<1>6. HandlerOK'
  BY <1>0, HandlerShape
     DEF BrokerOK, RowsOK, HandlerOK, Idle, StartReturns, broker, channel, inbox,
         counter
<1>7. NothingLost'
  BY <1>0, HandlerShape
     DEF BrokerOK, ChannelOK, HandlerOK, NothingLost, Idle, StartReturns, broker,
         channel, inbox, counter
<1>8. QED
  BY <1>1, <1>2, <1>3, <1>4, <1>5, <1>6, <1>7
     DEF DeliveryInv, TypeOK, BrokerOK, RowsOK

LEMMA ConnectionLostKeeps ==
  ASSUME DeliveryInv, ConnectionLost
  PROVE  DeliveryInv'
<1>0. /\ BrokerOK /\ RowsOK /\ handler \in Handling /\ Cardinality(unacked) <= Prefetch
      /\ ChannelOK /\ HandlerOK /\ NothingLost
  BY Parts DEF DeliveryInv
<1>1. BrokerOK'
  <2>1. /\ queue' = queue \cup Requeued /\ unacked' = {} /\ buffer' \subseteq buffer
        /\ UNCHANGED <<sent, dlq, processed>>
    BY DEF ConnectionLost, inbox
  <2>2. QED
    BY <1>0, <2>1, RequeuedOK DEF BrokerOK
<1>2. RowsOK'
  BY <1>0, HandlerShape
     DEF RowsOK, Idle, Task, ConnectionLost, Requeued, broker, channel, inbox,
         counter
<1>3. handler' \in Handling
  BY <1>0, HandlerShape, NotificationConstants
     DEF BrokerOK, Handling, Idle, ConnectionLost, Requeued, broker, channel,
         inbox, counter
<1>4. IsFiniteSet(unacked)' /\ Cardinality(unacked)' <= Prefetch
  BY FS_EmptySet, NotificationConstants DEF ConnectionLost
<1>5. ChannelOK'
  BY <1>0, <1>4, HandlerShape
     DEF BrokerOK, ChannelOK, Idle, ConnectionLost, Requeued, broker, channel,
         inbox, counter
<1>6. HandlerOK'
  BY <1>0, HandlerShape
     DEF BrokerOK, RowsOK, HandlerOK, Idle, ConnectionLost, Requeued, broker,
         channel, inbox, counter
<1>7. NothingLost'
  <2>1. /\ queue' = queue \cup Requeued /\ unacked' = {}
        /\ UNCHANGED <<sent, dlq, processed>>
    BY DEF ConnectionLost, inbox
  <2>2. QED
    BY <1>0, <2>1, RequeuedOK DEF NothingLost, BrokerOK
<1>8. QED
  BY <1>1, <1>2, <1>3, <1>4, <1>5, <1>6, <1>7
     DEF DeliveryInv, TypeOK, BrokerOK, RowsOK

LEMMA CrashKeeps ==
  ASSUME DeliveryInv, Crash
  PROVE  DeliveryInv'
<1>0. /\ BrokerOK /\ RowsOK /\ handler \in Handling /\ Cardinality(unacked) <= Prefetch
      /\ ChannelOK /\ HandlerOK /\ NothingLost
  BY Parts DEF DeliveryInv
<1>1. BrokerOK'
  <2>1. /\ queue' = queue \cup Requeued /\ unacked' = {} /\ buffer' \subseteq buffer
        /\ UNCHANGED <<sent, dlq, processed>>
    BY DEF Crash, inbox
  <2>2. QED
    BY <1>0, <2>1, RequeuedOK DEF BrokerOK
<1>2. RowsOK'
  BY <1>0, HandlerShape
     DEF RowsOK, Idle, Task, Crash, Requeued, Excuse, broker, channel, inbox,
         counter
<1>3. handler' \in Handling
  BY <1>0, HandlerShape, NotificationConstants
     DEF BrokerOK, Handling, Idle, Crash, Requeued, Excuse, broker, channel,
         inbox, counter
<1>4. IsFiniteSet(unacked)' /\ Cardinality(unacked)' <= Prefetch
  BY FS_EmptySet, NotificationConstants DEF Crash
<1>5. ChannelOK'
  BY <1>0, <1>4, HandlerShape
     DEF BrokerOK, ChannelOK, Idle, Crash, Requeued, Excuse, broker, channel,
         inbox, counter
<1>6. HandlerOK'
  BY <1>0, HandlerShape
     DEF BrokerOK, RowsOK, HandlerOK, Idle, Crash, Requeued, Excuse, broker,
         channel, inbox, counter
<1>7. NothingLost'
  <2>1. /\ queue' = queue \cup Requeued /\ unacked' = {}
        /\ UNCHANGED <<sent, dlq, processed>>
    BY DEF Crash, inbox
  <2>2. QED
    BY <1>0, <2>1, RequeuedOK DEF NothingLost, BrokerOK
<1>8. QED
  BY <1>1, <1>2, <1>3, <1>4, <1>5, <1>6, <1>7
     DEF DeliveryInv, TypeOK, BrokerOK, RowsOK

LEMMA BootKeeps ==
  ASSUME DeliveryInv, Boot
  PROVE  DeliveryInv'
<1>0. /\ BrokerOK /\ RowsOK /\ handler \in Handling /\ Cardinality(unacked) <= Prefetch
      /\ ChannelOK /\ HandlerOK /\ NothingLost
  BY Parts DEF DeliveryInv
<1>1. BrokerOK'
  BY <1>0, HandlerShape
     DEF BrokerOK, ChannelOK, Message, Boot, broker, channel, inbox, counter
<1>2. RowsOK'
  BY <1>0, HandlerShape
     DEF RowsOK, Idle, Task, Boot, broker, channel, inbox, counter
<1>3. handler' \in Handling
  BY <1>0, HandlerShape, NotificationConstants
     DEF BrokerOK, Handling, Idle, Boot, broker, channel, inbox, counter
<1>4. IsFiniteSet(unacked)' /\ Cardinality(unacked)' <= Prefetch
  BY <1>0, NotificationConstants
     DEF ChannelOK, Boot, broker, channel, inbox, counter
<1>5. ChannelOK'
  BY <1>0, <1>4, HandlerShape
     DEF BrokerOK, ChannelOK, Idle, Boot, broker, channel, inbox, counter
<1>6. HandlerOK'
  BY <1>0, HandlerShape
     DEF BrokerOK, RowsOK, HandlerOK, Idle, Boot, broker, channel, inbox, counter
<1>7. NothingLost'
  BY <1>0, HandlerShape
     DEF BrokerOK, ChannelOK, HandlerOK, NothingLost, Idle, Boot, broker,
         channel, inbox, counter
<1>8. QED
  BY <1>1, <1>2, <1>3, <1>4, <1>5, <1>6, <1>7
     DEF DeliveryInv, TypeOK, BrokerOK, RowsOK

-----------------------------------------------------------------------------
(* What handlers of the API do to rows, counters and their own state.      *)

LEMMA WriteRows ==
  ASSUME RowsOK, NEW c \in Callers, NEW u \in Users, NEW n \in Nat,
         NEW pc \in {"invalidate", "invalidate_count"}, Write(c, u, n, pc)
  PROVE  RowsOK'
<1>1. unread' \in [Users -> Nat] /\ UNCHANGED <<process, open, told, muted, cache>>
  BY DEF RowsOK, Write, channel, inbox
<1>2. excused' \in [Users -> BOOLEAN]
  BY DEF RowsOK, Write, Excuse
<1>3. th' \in [Callers -> Task]
  BY DEF RowsOK, Write, Task
<1>4. QED
  BY <1>1, <1>2, <1>3 DEF RowsOK

LEMMA RequestRows ==
  ASSUME RowsOK, NEW c \in Callers, Request(c)
  PROVE  RowsOK'
<1>1. PICK u \in Users : \/ MarkAsRead(c, u) \/ MarkAllAsRead(c, u) \/ Delete(c, u)
                         \/ AdminSend(c, u) \/ CountUnread(c, u)
  BY DEF Request
<1>2. unread[u] \in Nat
  BY DEF RowsOK
<1>3. CASE MarkAsRead(c, u)
  BY <1>3, WriteRows DEF MarkAsRead
<1>4. CASE MarkAllAsRead(c, u)
  BY <1>4, WriteRows DEF MarkAllAsRead
<1>5. CASE Delete(c, u)
  BY <1>5, WriteRows DEF Delete
<1>6. CASE AdminSend(c, u)
  BY <1>2, <1>6, WriteRows DEF AdminSend
<1>7. CASE CountUnread(c, u)
  <2>1. th' \in [Callers -> Task]
    BY <1>2, <1>7 DEF CountUnread, RowsOK, Task
  <2>2. QED
    BY <1>7, <2>1 DEF CountUnread, RowsOK, channel, inbox, counter
<1>8. QED
  BY <1>1, <1>3, <1>4, <1>5, <1>6, <1>7

LEMMA ContinueRows ==
  ASSUME RowsOK, NEW c \in Callers, Continue(c)
  PROVE  RowsOK'
<1>1. th[c] \in Task
  BY DEF RowsOK
<1>2. CASE Invalidate(c)
  <2>1. th[c].user \in Users
    BY <1>1, <1>2 DEF Invalidate, Task, Idle
  <2>2. th' \in [Callers -> Task]
    BY <1>2, <2>1 DEF Invalidate, RowsOK, Task
  <2>3. cache' \in [Users -> {None} \cup Nat] /\ excused' \in [Users -> BOOLEAN]
    BY <1>2 DEF Invalidate, invalidateUnread, Deleted, DeleteFails, Excuse, RowsOK
  <2>4. QED
    BY <1>2, <2>2, <2>3 DEF Invalidate, invalidateUnread, RowsOK, channel, inbox
<1>3. CASE Fill(c)
  <2>1. th[c].user \in Users /\ th[c].count \in Nat
    BY <1>1, <1>3 DEF Fill, Task, Idle
  <2>2. th' \in [Callers -> Task]
    BY <1>3 DEF Fill, RowsOK, Task
  <2>3. cache' \in [Users -> {None} \cup Nat] /\ excused' \in [Users -> BOOLEAN]
    BY <1>3, <2>1 DEF Fill, RowsOK
  <2>4. QED
    BY <1>3, <2>2, <2>3 DEF Fill, RowsOK, channel, inbox
<1>4. QED
  BY <1>2, <1>3 DEF Continue

LEMMA ApiKeeps ==
  ASSUME DeliveryInv, RowsOK', UNCHANGED <<broker, channel, handler, inbox>>
  PROVE  DeliveryInv'
<1>1. TypeOK'
  BY DEF DeliveryInv, TypeOK, RowsOK, broker, channel, inbox
<1>2. ChannelOK' /\ HandlerOK' /\ NothingLost'
  BY DEF DeliveryInv, ChannelOK, HandlerOK, NothingLost, broker, channel, inbox
<1>3. QED
  BY <1>1, <1>2 DEF DeliveryInv

LEMMA NextKeeps == DeliveryInv /\ [Next]_vars => DeliveryInv'
<1> SUFFICES ASSUME DeliveryInv, [Next]_vars PROVE DeliveryInv'
  OBVIOUS
<1>0. RowsOK
  BY Parts DEF DeliveryInv
<1>1. CASE UNCHANGED vars
  BY <1>1, <1>0, ApiKeeps DEF vars, RowsOK, channel, inbox, counter
<1>2. ASSUME NEW e \in Events, Publish(e) PROVE DeliveryInv'
  BY <1>2, PublishKeeps
<1>3. CASE Consume
  BY <1>3, DeliverKeeps, HandleKeeps, DispatchEventKeeps, CreateWithEventGuardKeeps,
     InvalidateRecipientsKeeps, AckKeeps, NackKeeps, StartReturnsKeeps DEF Consume
<1>4. ASSUME NEW c \in Callers, Request(c) PROVE DeliveryInv'
  <2>1. UNCHANGED <<broker, channel, handler, inbox>>
    BY <1>4
       DEF Request, MarkAsRead, MarkAllAsRead, Delete, AdminSend, Write,
           CountUnread
  <2>2. QED
    BY <1>0, <1>4, <2>1, RequestRows, ApiKeeps
<1>5. ASSUME NEW c \in Callers, Continue(c) PROVE DeliveryInv'
  <2>1. UNCHANGED <<broker, channel, handler, inbox>>
    BY <1>5 DEF Continue, Invalidate, Fill
  <2>2. QED
    BY <1>0, <1>5, <2>1, ContinueRows, ApiKeeps
<1>6. ASSUME NEW u \in Users, UpdatePreference(u) PROVE DeliveryInv'
  BY <1>0, <1>6, ApiKeeps DEF UpdatePreference, RowsOK, channel, inbox, counter
<1>7. ASSUME NEW u \in Users, Expire(u) PROVE DeliveryInv'
  BY <1>0, <1>7, ApiKeeps DEF Expire, RowsOK, channel, inbox
<1>8. QED
  BY <1>1, <1>2, <1>3, <1>4, <1>5, <1>6, <1>7, ConnectionLostKeeps, CrashKeeps,
     BootKeeps
     DEF Next

LEMMA DeliveryInvariant == Spec => []DeliveryInv
BY InitDelivery, NextKeeps, PTL DEF Spec

\* Rows, messages and goroutines keep their types, and the broker never holds
\* more than Prefetch messages unacknowledged, for any number of events, users
\* and API calls and every set of failures (TypeOK).
THEOREM NotificationTyping == Spec => []TypeOK
<1>1. DeliveryInv => TypeOK
  BY DEF DeliveryInv
<1>2. QED
  BY <1>1, DeliveryInvariant, PTL

\* A usable event is with the broker, in the inbox or in the dead letter queue,
\* through lost connections and restarts (the order of commit and Ack).
THEOREM EventsAreKept == Spec => []NothingLost
<1>1. DeliveryInv => NothingLost
  BY DEF DeliveryInv
<1>2. QED
  BY <1>1, DeliveryInvariant, PTL

-----------------------------------------------------------------------------
(* The inbox takes every event once.                                       *)

LEMMA StepTakesInOnce ==
  DeliveryInv /\ [Next]_vars => [Inbox!INext]_<<processed, told>>
<1> SUFFICES ASSUME DeliveryInv, [Next]_vars, ~UNCHANGED <<processed, told>>
             PROVE  Inbox!INext
  OBVIOUS
<1>1. CreateWithEventGuard
  BY DEF Next, vars, inbox, Consume, Publish, Deliver, Handle, DispatchEvent,
     InvalidateRecipients, Ack, Nack, Settled, StartReturns, Request, MarkAsRead,
     MarkAllAsRead, Delete, AdminSend, Write, CountUnread, Continue, Invalidate, Fill,
     UpdatePreference, Expire, ConnectionLost, Crash, Boot
<1> DEFINE e == handler.msg.event
           rows == handler.rows
<1>2. e \notin processed /\ Create(e, rows)
  BY <1>1 DEF CreateWithEventGuard, inbox
<1>3. /\ e \in Events /\ rows \in [Users -> Nat]
      /\ \A u \in Users : rows[u] <= Recipients[e][u]
  <2>1. handler \in Handling /\ HandlerOK
    BY Parts DEF DeliveryInv
  <2>2. QED
    BY <1>1, <2>1, HandlerShape DEF CreateWithEventGuard, HandlerOK, Message, Idle, Rows
<1>4. told \in [Events -> [Users -> Nat]] /\ told[e] = Nobody
  BY <1>2, <1>3 DEF DeliveryInv, TypeOK, HandlerOK, Rows
<1> HIDE DEF e, rows
<1>5. [u \in Users |-> told[e][u] + rows[u]] = rows
  BY <1>3, <1>4 DEF Nobody
<1>6. told' = [told EXCEPT ![e] = rows] /\ processed' = processed \cup {e}
  BY <1>2, <1>5 DEF Create
<1>7. Inbox!TakeIn(e)
  BY <1>2, <1>3, <1>4, <1>6 DEF Inbox!TakeIn
<1>8. QED
  BY <1>3, <1>7 DEF Inbox!INext

\* However often an event is delivered and whatever fails, it enters the inbox
\* once, and creates its notifications in that very step, for a user no more
\* than it has entries that name him (CreateWithEventGuard).
THEOREM InboxImplemented == Spec => TakenInOnce
<1>1. Init => Inbox!IInit
  BY DEF Init, Inbox!IInit, Nobody
<1>2. QED
  BY <1>1, StepTakesInOnce, DeliveryInvariant, PTL
     DEF Spec, TakenInOnce, Inbox!ISpec, Inbox!ivars

-----------------------------------------------------------------------------
(* A counter is wrong only while its deletion is to come, or excused.      *)

LEMMA SameCounter ==
  ASSUME StaleOnlyByRace, UNCHANGED counter, Pending \subseteq Pending'
  PROVE  StaleOnlyByRace'
BY DEF StaleOnlyByRace, counter

Deleting(w) == w.pc \in {"invalidate", "invalidate_count"}

LEMMA PendingIs ==
  ASSUME NEW v
  PROVE  v \in Pending <=> \/ \E c \in Callers : Deleting(th[c]) /\ th[c].user = v
                           \/ handler.pc = "invalidate" /\ v \in Named(handler.rows)
BY DEF Pending, Deleting

(* A call that does not delete the counter of v leaves it to the others.   *)
LEMMA OthersPend ==
  ASSUME th \in [Callers -> Task], NEW c \in Callers, NEW w, NEW v, UNCHANGED handler,
         th' = [th EXCEPT ![c] = w] \/ UNCHANGED th,
         ~Deleting(th[c]) \/ th[c].user # v, v \in Pending
  PROVE  v \in Pending'
<1>1. CASE handler.pc = "invalidate" /\ v \in Named(handler.rows)
  BY <1>1 DEF Pending
<1>2. CASE \E d \in Callers : Deleting(th[d]) /\ th[d].user = v
  <2>1. PICK d \in Callers : Deleting(th[d]) /\ th[d].user = v
    BY <1>2
  <2>2. th'[d] = th[d]
    BY <2>1
  <2>3. QED
    BY <2>1, <2>2 DEF Pending, Deleting
<1>3. QED
  BY <1>1, <1>2, PendingIs

LEMMA ConsumeStale ==
  ASSUME DeliveryInv, StaleOnlyByRace, Consume
  PROVE  StaleOnlyByRace'
<1> USE DEF Idle
<1>1. ASSUME NEW m \in queue, Deliver(m) PROVE StaleOnlyByRace'
  BY <1>1, SameCounter DEF Deliver, Pending
<1>2. ASSUME NEW m \in buffer, Handle(m) PROVE StaleOnlyByRace'
  BY <1>2, SameCounter DEF Handle, Pending
<1>3. ASSUME NEW u \in Users, DispatchEvent(u) PROVE StaleOnlyByRace'
  BY <1>3, SameCounter DEF DispatchEvent, Pending
<1>4. CASE CreateWithEventGuard
  <2>1. CASE UNCHANGED counter /\ (Answer(TRUE) \/ Answer(FALSE))
    BY <1>4, <2>1, SameCounter DEF CreateWithEventGuard, Answer, Pending
  <2>2. CASE Create(handler.msg.event, handler.rows) /\ Committed
    <3>1. SUFFICES ASSUME NEW u \in Users
                   PROVE  cache'[u] \in {None, unread'[u]} \/ excused'[u] \/ u \in Pending'
      BY DEF StaleOnlyByRace
    <3>2. u \in Pending => u \in Pending' /\ UNCHANGED th
      BY <1>4, <2>2 DEF CreateWithEventGuard, Pending
    <3>3. excused[u] => excused'[u]
      BY <2>2 DEF Committed, Excuse
    <3>4. unread[u] \in Nat /\ cache' = cache
      BY <2>2 DEF DeliveryInv, TypeOK, Create
    <3>5. CASE u \notin Named(handler.rows)
      <4>1. unread'[u] = unread[u]
        <5>1. handler.rows[u] = 0
          BY <1>4, <3>5, HandlerShape, Parts
             DEF CreateWithEventGuard, DeliveryInv, Named, Rows
        <5>2. QED
          BY <2>2, <3>4, <5>1 DEF Create
      <4>2. QED
        BY <3>2, <3>3, <3>4, <4>1 DEF StaleOnlyByRace
    <3>6. CASE u \in Named(handler.rows)
      <4>1. \/ handler'.pc = "invalidate" /\ handler'.rows = handler.rows
            \/ excused'[u]
        <5>1. handler = [pc |-> handler.pc, msg |-> handler.msg, rows |-> handler.rows]
          BY <1>4, HandlerShape, Parts DEF CreateWithEventGuard, DeliveryInv
        <5>2. handler.rows # Nobody
          BY <3>6 DEF Named, Nobody
        <5>3. QED
          BY <2>2, <3>6, <5>1, <5>2 DEF Committed, Excuse
      <4>2. QED
        BY <3>6, <4>1 DEF Pending
    <3>7. QED
      BY <3>5, <3>6
  <2>3. QED
    BY <1>4, <2>1, <2>2 DEF CreateWithEventGuard, inbox, counter
<1>5. CASE InvalidateRecipients
  <2>1. SUFFICES ASSUME NEW u \in Users
                 PROVE  cache'[u] \in {None, unread'[u]} \/ excused'[u] \/ u \in Pending'
    BY DEF StaleOnlyByRace
  <2>2. unread' = unread /\ UNCHANGED th
    BY <1>5 DEF InvalidateRecipients, invalidateUnread
  <2>3. CASE u \in Named(handler.rows)
    BY <1>5, <2>3
       DEF InvalidateRecipients, invalidateUnread, Deleted, DeleteFails, Excuse
  <2>4. CASE u \notin Named(handler.rows)
    <3>1. u \in Pending => u \in Pending'
      BY <1>5, <2>2, <2>4 DEF Pending
    <3>2. cache'[u] = cache[u] /\ (excused[u] => excused'[u])
      BY <1>5, <2>4
         DEF InvalidateRecipients, invalidateUnread, Deleted, DeleteFails, Excuse
    <3>3. QED
      BY <2>2, <3>1, <3>2 DEF StaleOnlyByRace
  <2>5. QED
    BY <2>3, <2>4
<1>6. CASE Ack \/ Nack
  BY <1>6, SameCounter DEF Ack, Nack, Settled, Pending
<1>7. CASE StartReturns
  BY <1>7, SameCounter DEF StartReturns, Pending
<1>8. QED
  BY <1>1, <1>2, <1>3, <1>4, <1>5, <1>6, <1>7 DEF Consume

LEMMA WriteStale ==
  ASSUME DeliveryInv, StaleOnlyByRace, NEW c \in Callers, NEW u \in Users, NEW n \in Nat,
         NEW pc \in {"invalidate", "invalidate_count"}, Write(c, u, n, pc)
  PROVE  StaleOnlyByRace'
<1>1. SUFFICES ASSUME NEW v \in Users
               PROVE  cache'[v] \in {None, unread'[v]} \/ excused'[v] \/ v \in Pending'
  BY DEF StaleOnlyByRace
<1>0. th \in [Callers -> Task]
  BY DEF DeliveryInv, TypeOK
<1>2. v \in Pending => v \in Pending'
  <2>1. ~Deleting(th[c]) /\ UNCHANGED handler
    BY DEF Write, Deleting, Idle
  <2>2. th' = [th EXCEPT ![c] = [pc |-> pc, user |-> u]] \/ UNCHANGED th
    BY DEF Write
  <2>3. QED
    BY <1>0, <2>1, <2>2, OthersPend
<1>3. excused[v] => excused'[v]
  BY DEF Write, Excuse
<1>4. CASE v = u
  <2>1. CASE th' = [th EXCEPT ![c] = [pc |-> pc, user |-> u]]
    <3>1. th'[c] = [pc |-> pc, user |-> u]
      BY <1>0, <2>1
    <3>2. QED
      BY <1>4, <3>1 DEF Pending
  <2>2. CASE Excuse({u})
    BY <1>4, <2>2 DEF Excuse
  <2>3. QED
    BY <2>1, <2>2 DEF Write
<1>5. CASE v # u
  <2>1. unread'[v] = unread[v] /\ cache' = cache
    BY <1>5 DEF Write, DeliveryInv, TypeOK
  <2>2. QED
    BY <1>2, <1>3, <2>1 DEF StaleOnlyByRace
<1>6. QED
  BY <1>4, <1>5

LEMMA RequestStale ==
  ASSUME DeliveryInv, StaleOnlyByRace, NEW c \in Callers, Request(c)
  PROVE  StaleOnlyByRace'
<1>1. PICK u \in Users : \/ MarkAsRead(c, u) \/ MarkAllAsRead(c, u) \/ Delete(c, u)
                         \/ AdminSend(c, u) \/ CountUnread(c, u)
  BY DEF Request
<1>2. unread[u] \in Nat
  BY DEF DeliveryInv, TypeOK
<1>3. CASE MarkAsRead(c, u)
  BY <1>3, WriteStale DEF MarkAsRead
<1>4. CASE MarkAllAsRead(c, u)
  BY <1>4, WriteStale DEF MarkAllAsRead
<1>5. CASE Delete(c, u)
  BY <1>5, WriteStale DEF Delete
<1>6. CASE AdminSend(c, u)
  BY <1>2, <1>6, WriteStale DEF AdminSend
<1>7. CASE CountUnread(c, u)
  <2>1. UNCHANGED <<counter, handler>> /\ th \in [Callers -> Task]
    BY <1>7 DEF CountUnread, DeliveryInv, TypeOK
  <2>2. PICK w : th' = [th EXCEPT ![c] = w]
    BY <1>7 DEF CountUnread
  <2>3. ~Deleting(th[c])
    BY <1>7 DEF CountUnread, Deleting, Idle
  <2>4. QED
    BY <2>1, <2>2, <2>3, OthersPend, SameCounter
<1>8. QED
  BY <1>1, <1>3, <1>4, <1>5, <1>6, <1>7

LEMMA ContinueStale ==
  ASSUME DeliveryInv, StaleOnlyByRace, NEW c \in Callers, Continue(c)
  PROVE  StaleOnlyByRace'
<1>1. SUFFICES ASSUME NEW v \in Users
               PROVE  cache'[v] \in {None, unread'[v]} \/ excused'[v] \/ v \in Pending'
  BY DEF StaleOnlyByRace
<1>2. unread' = unread /\ UNCHANGED handler
  BY DEF Continue, Invalidate, Fill, invalidateUnread
<1>3. v # th[c].user => (v \in Pending => v \in Pending')
  <2>1. PICK w : th' = [th EXCEPT ![c] = w]
    BY DEF Continue, Invalidate, Fill
  <2>2. th \in [Callers -> Task]
    BY DEF DeliveryInv, TypeOK
  <2>3. QED
    BY <1>2, <2>1, <2>2, OthersPend
<1>4. v # th[c].user => cache'[v] = cache[v] /\ (excused[v] => excused'[v])
  BY DEF Continue, Invalidate, Fill, invalidateUnread, Deleted, DeleteFails, Excuse,
     DeliveryInv, TypeOK
<1>5. CASE v # th[c].user
  BY <1>2, <1>3, <1>4, <1>5 DEF StaleOnlyByRace
<1>6. CASE v = th[c].user /\ Invalidate(c)
  BY <1>2, <1>6 DEF Invalidate, invalidateUnread, Deleted, DeleteFails, Excuse
<1>7. CASE v = th[c].user /\ Fill(c)
  <2>1. CASE UNCHANGED <<cache, excused>>
    <3>1. v \in Pending => v \in Pending'
      BY <1>2, <1>7 DEF Fill, Pending
    <3>2. QED
      BY <1>2, <2>1, <3>1 DEF StaleOnlyByRace
  <2>2. CASE cache' = [cache EXCEPT ![v] = th[c].count]
             /\ excused' = [excused EXCEPT ![v] = th[c].count # unread[v]]
    BY <1>2, <2>2 DEF DeliveryInv, TypeOK
  <2>3. QED
    BY <1>7, <2>1, <2>2 DEF Fill
<1>8. QED
  BY <1>5, <1>6, <1>7 DEF Continue

\* Every writer of notifications deletes the counter it makes wrong, whatever
\* the number of users and concurrent calls (StaleOnlyByRace).
THEOREM CounterStaleOnlyByRace == Spec => []StaleOnlyByRace
<1>1. Init => StaleOnlyByRace
  BY DEF Init, StaleOnlyByRace
<1>2. DeliveryInv /\ StaleOnlyByRace /\ [Next]_vars => StaleOnlyByRace'
  <2> SUFFICES ASSUME DeliveryInv, StaleOnlyByRace, [Next]_vars PROVE StaleOnlyByRace'
    OBVIOUS
  <2>1. CASE UNCHANGED vars
    BY <2>1, SameCounter DEF vars, Pending
  <2>2. ASSUME NEW e \in Events, Publish(e) PROVE StaleOnlyByRace'
    BY <2>2, SameCounter DEF Publish, Pending
  <2>3. ASSUME NEW u \in Users, UpdatePreference(u) PROVE StaleOnlyByRace'
    BY <2>3, SameCounter DEF UpdatePreference, Pending
  <2>4. ASSUME NEW u \in Users, Expire(u) PROVE StaleOnlyByRace'
    BY <2>4 DEF Expire, Pending, StaleOnlyByRace, DeliveryInv, TypeOK
  <2>5. CASE ConnectionLost \/ Boot
    BY <2>5, SameCounter DEF ConnectionLost, Boot, Pending
  <2>6. CASE Crash
    BY <2>6 DEF Crash, Excuse, StaleOnlyByRace
  <2>7. QED
    BY <2>1, <2>2, <2>3, <2>4, <2>5, <2>6, ConsumeStale, RequestStale, ContinueStale
       DEF Next
<1>3. QED
  BY <1>1, <1>2, DeliveryInvariant, PTL DEF Spec
=============================================================================
