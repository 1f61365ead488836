--------------------------- MODULE Notifications ---------------------------
(***************************************************************************)
(* The notification service: a RabbitMQ queue of events with a dead letter *)
(* queue (pkg/mq), the single goroutine that consumes it, the inbox table  *)
(* that makes redelivery harmless, and the counter of unread notifications *)
(* that API handlers read through Redis.                                   *)
(***************************************************************************)
EXTENDS Naturals, FiniteSets

CONSTANTS Events, Users,
          Recipients, \* how many entries of an event name a user; with none at all
              \* it is unusable
          Callers,    \* goroutines of the gRPC server
          None,       \* a cache key that is absent
          MaxUnread,  \* administrators write to users with fewer unread rows
          Prefetch,   \* deliveries the broker sends ahead of acknowledgements
          Faults      \* subset of {"db", "redis", "conn", "crash"}

ASSUME NotificationConstants ==
  /\ Recipients \in [Events -> [Users -> Nat]]
  /\ None \notin Nat /\ MaxUnread \in Nat /\ Prefetch \in Nat \ {0}

Message == [event : Events, redelivered : BOOLEAN]

Idle == [pc |-> "idle"]

\* Notifications per user, and the users who have one.
Rows == [Users -> Nat]
Nobody == [u \in Users |-> 0]
Named(rows) == {u \in Users : rows[u] > 0}

\* The consumer's goroutine inside Handle: reading preferences, inserting,
\* deleting counters, answering the broker.
Handling ==
  {Idle}
    \cup [pc : {"dispatch"}, msg : Message, left : Rows, rows : Rows]
    \cup [pc : {"guard", "invalidate"}, msg : Message, rows : Rows]
    \cup [pc : {"answer"}, msg : Message, ok : BOOLEAN]

\* An API handler between two calls: a write whose counter is still to be
\* deleted, with or without the count MarkAsRead ends in; a count to take; a
\* count taken and not yet stored.
Task ==
  {Idle}
    \cup [pc : {"count", "invalidate", "invalidate_count"}, user : Users]
    \cup [pc : {"fill"}, user : Users, count : Nat]

VARIABLES
  sent,      \* events published
  queue,     \* messages ready in notification.events
  unacked,   \* messages delivered on the channel and not acknowledged
  dlq,       \* events in notification.events.dlq
  process,   \* "up", "stopped" (no consumer, or its Start has returned), "down"
  open,      \* its channel is open
  buffer,    \* deliveries received and not handled yet
  handler,   \* what the consumer is doing
  processed, \* table processed_events
  told,      \* notifications created by an event, per user
  muted,     \* users who switched match events off
  unread,    \* unread rows of a user
  cache,     \* the counter in Redis
  excused,   \* history: the counter is stale by a race or a failed delete
  th         \* what each caller is doing

broker == <<sent, queue, unacked, dlq>>
channel == <<process, open, buffer>>
inbox == <<processed, told>>
counter == <<unread, cache, excused>>
vars == <<broker, channel, handler, inbox, muted, counter, th>>

-----------------------------------------------------------------------------
(* Publisher.  Each notice of the engine has an event id of its own and is *)
(* published once; one the broker does not take is only logged, and here   *)
(* never sent.                                                             *)

Publish(e) ==
  /\ e \notin sent
  /\ sent' = sent \cup {e}
  /\ queue' = queue \cup {[event |-> e, redelivered |-> FALSE]}
  /\ UNCHANGED <<unacked, dlq, channel, handler, inbox, muted, counter, th>>

-----------------------------------------------------------------------------
(* The counter: rows, Redis, and why the two may differ.                   *)

\* From here on the counters of us may be wrong without anybody to delete them.
Excuse(us) == excused' = [u \in Users |-> excused[u] \/ u \in us]

\* One DEL of the counters of us.  A failure is only logged.
Deleted(us) ==
  /\ cache' = [u \in Users |-> IF u \in us THEN None ELSE cache[u]]
  /\ excused' = [u \in Users |-> excused[u] /\ u \notin us]

DeleteFails(us) ==
  /\ "redis" \in Faults
  /\ Excuse(us)
  /\ UNCHANGED cache

invalidateUnread(us) == (Deleted(us) \/ DeleteFails(us)) /\ UNCHANGED unread

-----------------------------------------------------------------------------
(* The consumer.  Start handles one delivery after the other.              *)

Requeued == {[event |-> m.event, redelivered |-> TRUE] : m \in unacked}

Deliver(m) ==
  /\ open /\ m \in queue
  /\ Cardinality(unacked) < Prefetch
  /\ queue' = queue \ {m}
  /\ unacked' = unacked \cup {m}
  /\ buffer' = buffer \cup {m}
  /\ UNCHANGED <<sent, dlq, process, open, handler, inbox, muted, counter, th>>

\* (variant) automatic acknowledgement
HandleAutoAck(m) ==
  /\ process = "up" /\ handler = Idle /\ m \in buffer
  /\ buffer' = buffer \ {m}
  /\ unacked' = unacked \ {m}
  /\ handler' = [pc |-> "dispatch", msg |-> m, left |-> Recipients[m.event],
                 rows |-> Nobody]
  /\ UNCHANGED <<sent, queue, dlq, process, open, inbox, muted, counter, th>>

\* What cannot be parsed or names nobody is acknowledged without effect.
Handle(m) ==
  /\ process = "up" /\ handler = Idle /\ m \in buffer
  /\ buffer' = buffer \ {m}
  /\ handler' = IF Recipients[m.event] = Nobody
                  THEN [pc |-> "answer", msg |-> m, ok |-> TRUE]
                  ELSE [pc |-> "dispatch", msg |-> m, left |-> Recipients[m.event],
                        rows |-> Nobody]
  /\ UNCHANGED <<broker, process, open, inbox, muted, counter, th>>

\* An entry that names u is dealt with and adds n rows.
Entry(u, n) ==
  LET left == [handler.left EXCEPT ![u] = @ - 1]
      rows == [handler.rows EXCEPT ![u] = @ + n]
  IN  handler' = IF left = Nobody
                   THEN [pc |-> "guard", msg |-> handler.msg, rows |-> rows]
                   ELSE [pc |-> "dispatch", msg |-> handler.msg, left |-> left,
                         rows |-> rows]

\* The preference of its user is read anew for every entry; one that cannot be
\* read does not silence.
DispatchEvent(u) ==
  /\ handler.pc = "dispatch" /\ handler.left[u] > 0
  /\ \/ (u \notin muted \/ "db" \in Faults) /\ Entry(u, 1)
     \/ u \in muted /\ Entry(u, 0)
  /\ UNCHANGED <<broker, channel, inbox, muted, counter, th>>

Answer(ok) == handler' = [pc |-> "answer", msg |-> handler.msg, ok |-> ok]

\* The rows the transaction inserts: one for every entry kept, so that a user
\* whom an event names twice is told of it twice.
Create(e, rows) ==
  /\ processed' = processed \cup {e}
  /\ told' = [told EXCEPT ![e] = [u \in Users |-> @[u] + rows[u]]]
  /\ unread' = [u \in Users |-> unread[u] + rows[u]]
  /\ UNCHANGED cache

\* The commit is answered, or its answer is lost although it took place: then
\* the handler returns before it deletes the counters.
Committed ==
  \/ /\ handler' = IF handler.rows = Nobody
                     THEN [pc |-> "answer", msg |-> handler.msg, ok |-> TRUE]
                     ELSE [handler EXCEPT !.pc = "invalidate"]
     /\ UNCHANGED excused
  \/ "db" \in Faults /\ Answer(FALSE) /\ Excuse(Named(handler.rows))

\* (variant) the inbox row is not unique
GuardBlindly ==
  /\ handler.pc = "guard"
  /\ \/ Create(handler.msg.event, handler.rows) /\ Committed
     \/ "db" \in Faults /\ Answer(FALSE) /\ UNCHANGED <<inbox, counter>>
  /\ UNCHANGED <<broker, channel, muted, th>>

\* One transaction: the event id, which is unique, and the notifications.
CreateWithEventGuard ==
  /\ handler.pc = "guard"
  /\ \/ /\ handler.msg.event \notin processed
        /\ Create(handler.msg.event, handler.rows)
        /\ Committed
     \/ /\ handler.msg.event \in processed
        /\ Answer(TRUE) /\ UNCHANGED <<inbox, counter>>
     \/ /\ "db" \in Faults
        /\ Answer(FALSE) /\ UNCHANGED <<inbox, counter>>
  /\ UNCHANGED <<broker, channel, muted, th>>

\* (variant) the counters of the recipients are forgotten
InvalidateNone ==
  /\ handler.pc = "invalidate"
  /\ Answer(TRUE)
  /\ UNCHANGED <<broker, channel, inbox, muted, counter, th>>

InvalidateRecipients ==
  /\ handler.pc = "invalidate"
  /\ invalidateUnread(Named(handler.rows))
  /\ Answer(TRUE)
  /\ UNCHANGED <<broker, channel, inbox, muted, th>>

\* On a channel that has been closed neither answer reaches the broker.
Settled(ok) ==
  /\ handler.pc = "answer" /\ handler.ok = ok
  /\ handler' = Idle
  /\ UNCHANGED <<sent, channel, inbox, muted, counter, th>>

Ack ==
  /\ Settled(TRUE)
  /\ unacked' = IF open THEN unacked \ {handler.msg} ELSE unacked
  /\ UNCHANGED <<queue, dlq>>

\* (variant) requeue for ever
NackRequeue ==
  /\ Settled(FALSE) /\ open
  /\ unacked' = unacked \ {handler.msg}
  /\ queue' = queue \cup {[event |-> handler.msg.event, redelivered |-> TRUE]}
  /\ UNCHANGED dlq

\* (variant) the broker is told to requeue and the delivery kept
NackKeeping ==
  /\ Settled(FALSE) /\ open
  /\ queue' = queue \cup {[event |-> handler.msg.event, redelivered |-> TRUE]}
  /\ UNCHANGED <<unacked, dlq>>

\* A failed message is requeued once; the second failure buries it.
Nack ==
  /\ Settled(FALSE)
  /\ \/ /\ open /\ ~handler.msg.redelivered
        /\ unacked' = unacked \ {handler.msg}
        /\ queue' = queue \cup {[event |-> handler.msg.event, redelivered |-> TRUE]}
        /\ UNCHANGED dlq
     \/ /\ open /\ handler.msg.redelivered
        /\ unacked' = unacked \ {handler.msg}
        /\ dlq' = dlq \cup {handler.msg.event}
        /\ UNCHANGED queue
     \/ ~open /\ UNCHANGED <<queue, unacked, dlq>>

\* The connection is lost: the broker takes back what is not acknowledged, and
\* the library hands over or drops the deliveries it has buffered.
ConnectionLost ==
  /\ "conn" \in Faults /\ open
  /\ open' = FALSE
  /\ queue' = queue \cup Requeued /\ unacked' = {}
  /\ buffer' \in SUBSET buffer
  /\ UNCHANGED <<sent, dlq, process, handler, inbox, muted, counter, th>>

\* The delivery channel is drained and Start returns.  watch dials again, for
\* publishers; nothing calls Start a second time.
StartReturns ==
  /\ process = "up" /\ ~open /\ handler = Idle /\ buffer = {}
  /\ process' = "stopped"
  /\ UNCHANGED <<broker, open, buffer, handler, inbox, muted, counter, th>>

-----------------------------------------------------------------------------
(* API handlers.  A write and the deletion of the counter are two steps.   *)

\* A statement whose answer is lost is a failure: the handler returns.
Write(c, u, n, pc) ==
  /\ process # "down" /\ th[c] = Idle
  /\ unread' = [unread EXCEPT ![u] = n]
  /\ \/ /\ th' = [th EXCEPT ![c] = [pc |-> pc, user |-> u]]
        /\ UNCHANGED excused
     \/ "db" \in Faults /\ Excuse({u}) /\ UNCHANGED th
  /\ UNCHANGED <<broker, channel, handler, inbox, muted, cache>>

\* The row was unread when it was looked up; another call may have been first.
MarkAsRead(c, u) ==
  \E n \in {unread[u], unread[u] - 1} \cap Nat : Write(c, u, n, "invalidate_count")

MarkAllAsRead(c, u) == Write(c, u, 0, "invalidate")

\* A read row or an unread one.
Delete(c, u) ==
  \E n \in {unread[u], unread[u] - 1} \cap Nat : Write(c, u, n, "invalidate")

AdminSend(c, u) ==
  unread[u] < MaxUnread /\ Write(c, u, unread[u] + 1, "invalidate")

Invalidate(c) ==
  /\ th[c].pc \in {"invalidate", "invalidate_count"}
  /\ invalidateUnread({th[c].user})
  /\ th' = [th EXCEPT ![c] =
       IF @.pc = "invalidate" THEN Idle ELSE [pc |-> "count", user |-> @.user]]
  /\ UNCHANGED <<broker, channel, handler, inbox, muted>>

\* The look-up in Redis and, on a miss, the count.  What others do between the
\* two makes no difference to what is stored.
CountUnread(c, u) ==
  /\ process # "down"
  /\ th[c] \in {Idle, [pc |-> "count", user |-> u]}
  /\ \/ /\ cache[u] = None \/ "redis" \in Faults
        /\ th' = [th EXCEPT ![c] = [pc |-> "fill", user |-> u, count |-> unread[u]]]
     \/ /\ cache[u] # None
        /\ th' = [th EXCEPT ![c] = Idle]
  /\ UNCHANGED <<broker, channel, handler, inbox, muted, counter>>

Fill(c) ==
  /\ th[c].pc = "fill"
  /\ \/ /\ cache' = [cache EXCEPT ![th[c].user] = th[c].count]
        /\ excused' = [excused EXCEPT ![th[c].user] =
                         th[c].count # unread[th[c].user]]
     \/ "redis" \in Faults /\ UNCHANGED <<cache, excused>>
  /\ th' = [th EXCEPT ![c] = Idle]
  /\ UNCHANGED <<broker, channel, handler, inbox, muted, unread>>

UpdatePreference(u) ==
  /\ process # "down"
  /\ muted' \in {muted \cup {u}, muted \ {u}}
  /\ UNCHANGED <<broker, channel, handler, inbox, counter, th>>

-----------------------------------------------------------------------------
(* Environment.                                                            *)

\* (variant) the counter is stored without a lifetime
NeverExpire(u) == cache[u] = None /\ UNCHANGED vars

\* The counter lives five minutes.
Expire(u) ==
  /\ cache[u] # None
  /\ cache' = [cache EXCEPT ![u] = None]
  /\ excused' = [excused EXCEPT ![u] = FALSE]
  /\ UNCHANGED <<broker, channel, handler, inbox, muted, unread, th>>

\* Users whose counter somebody is about to delete.
Pending ==
  {th[c].user : c \in {c \in Callers : th[c].pc \in {"invalidate", "invalidate_count"}}}
    \cup IF handler.pc = "invalidate" THEN Named(handler.rows) ELSE {}

Crash ==
  /\ "crash" \in Faults /\ process # "down"
  /\ process' = "down" /\ open' = FALSE /\ buffer' = {}
  /\ queue' = queue \cup Requeued /\ unacked' = {}
  /\ handler' = Idle
  /\ th' = [c \in Callers |-> Idle]
  /\ Excuse(Pending)
  /\ UNCHANGED <<sent, dlq, inbox, muted, unread, cache>>

\* Without a broker the service starts all the same, and has no consumer.
Boot ==
  /\ process = "down"
  /\ process' \in IF "conn" \in Faults THEN {"up", "stopped"} ELSE {"up"}
  /\ open' = (process' = "up")
  /\ UNCHANGED <<broker, buffer, handler, inbox, muted, counter, th>>

-----------------------------------------------------------------------------

Init ==
  /\ sent = {} /\ queue = {} /\ unacked = {} /\ dlq = {}
  /\ process = "up" /\ open = TRUE /\ buffer = {}
  /\ handler = Idle
  /\ processed = {} /\ told = [e \in Events |-> Nobody]
  /\ muted = {}
  /\ unread = [u \in Users |-> 0]
  /\ cache = [u \in Users |-> None]
  /\ excused = [u \in Users |-> FALSE]
  /\ th = [c \in Callers |-> Idle]

Consume ==
  \/ \E m \in queue : Deliver(m)
  \/ \E m \in buffer : Handle(m)
  \/ \E u \in Users : DispatchEvent(u)
  \/ CreateWithEventGuard \/ InvalidateRecipients
  \/ Ack \/ Nack \/ StartReturns

Request(c) ==
  \E u \in Users :
    MarkAsRead(c, u) \/ MarkAllAsRead(c, u) \/ Delete(c, u) \/ AdminSend(c, u)
      \/ CountUnread(c, u)

Continue(c) == Invalidate(c) \/ Fill(c)

Next ==
  \/ \E e \in Events : Publish(e)
  \/ Consume
  \/ \E c \in Callers : Request(c) \/ Continue(c)
  \/ \E u \in Users : UpdatePreference(u) \/ Expire(u)
  \/ ConnectionLost \/ Crash \/ Boot

Spec == Init /\ [][Next]_vars

\* The broker delivers, the consumer and the handlers go on, lifetimes end.
FairSpec ==
  /\ Spec
  /\ WF_vars(Consume)
  /\ \A c \in Callers : WF_vars(Continue(c))
  /\ \A u \in Users : WF_vars(Expire(u))

-----------------------------------------------------------------------------
(* Properties.                                                             *)

\* Rows and goroutines keep their types, a message is either ready or held by
\* the consumer, and never more than Prefetch are held.
TypeOK ==
  /\ sent \subseteq Events /\ dlq \subseteq sent /\ processed \subseteq sent
  /\ queue \subseteq Message /\ unacked \subseteq Message /\ buffer \subseteq Message
  /\ \A m, n \in queue \cup unacked : m.event = n.event => m = n
  /\ queue \cap unacked = {} /\ Cardinality(unacked) <= Prefetch
  /\ process \in {"up", "stopped", "down"} /\ open \in BOOLEAN
  /\ handler \in Handling
  /\ told \in [Events -> Rows]
  /\ muted \subseteq Users
  /\ unread \in [Users -> Nat]
  /\ cache \in [Users -> {None} \cup Nat]
  /\ excused \in [Users -> BOOLEAN]
  /\ th \in [Callers -> Task]

\* RabbitMQ keeps a usable event until it is in the inbox or buried: it is
\* acknowledged after the commit and not before, through lost connections and
\* restarts (rabbitmq.go:318-338).
NothingLost ==
  \A e \in sent :
    Recipients[e] = Nobody \/ e \in processed \/ e \in dlq
      \/ \E m \in queue \cup unacked : m.event = e

\* Every writer of notifications deletes the counter it makes wrong, so a
\* counter that differs from the rows is about to be deleted, or was stored by
\* a reader that counted before a writer deleted it, or the deletion or the
\* writer failed.
StaleOnlyByRace ==
  \A u \in Users :
    cache[u] \in {None, unread[u]} \/ excused[u] \/ u \in Pending

\* However often an event is delivered, it enters the inbox once, and creates
\* in that step all its notifications, no more than it has entries
\* (CreateWithEventGuard).  One per user is not promised: the candidates of a
\* cargo are asks, and a driver with two of them is told twice of one event.
Inbox == INSTANCE EventInbox
TakenInOnce == Inbox!ISpec

\* Every published event ends in the inbox or in the dead letter queue, or is
\* unusable, or the consumer has stopped.
EventSettled ==
  \A e \in Events :
    (e \in sent /\ Recipients[e] # Nobody)
      ~> (e \in processed \/ e \in dlq \/ process # "up")

\* When the rows of the users no longer change, the counters become right
\* and stay right, whatever raced before.
CounterConverges ==
  <>[][UNCHANGED unread]_vars
    => <>[](\A u \in Users : cache[u] \in {None, unread[u]})
=============================================================================
