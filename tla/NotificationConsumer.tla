------------------------- MODULE NotificationConsumer -------------------------
(***************************************************************************)
(* The consumer of the notification queue (notification_consumer.go), the  *)
(* use case it calls (ProcessNotificationUseCase.go) and the transaction   *)
(* that stores a notification (notification_repository.go, Save).          *)
(*                                                                         *)
(* RabbitMQ delivers at least once: a message that is not confirmed comes  *)
(* back when the channel closes or the process dies.  Five workers handle  *)
(* deliveries side by side; every call to Redis, Postgres or the broker is *)
(* a step of its own, and may fail.                                        *)
(***************************************************************************)
EXTENDS ChannelPolicy, Naturals, FiniteSets

CONSTANTS
  Messages,     \* messages the other services publish
  Events,       \* events, named by (source_service, event_id)
  EventOf,      \* the event a message carries, or NoEvent
  NoEvent,      \* a body that does not decode or does not Validate
  CategoryOf,   \* the category_code of an event
  Catalog,      \* notification_categories: code -> row
  Workers,      \* consumerWorkers
  Prefetch,     \* RABBITMQ_PREFETCH
  MaxAttempts,  \* RABBITMQ_MAX_ATTEMPTS
  DeadLettering, \* whether the queue has its dead letter exchange: TRUE, FALSE
                 \* for an old queue, both where that changes meanwhile
  MaxFaults     \* bound: crashes, lost connections and Redis errors

\* The categories Enqueue keeps for the debouncer.
DebouncedCategories == {"comment", "like"}

ASSUME ConsumerAssumption ==
  /\ NoEvent \notin Events
  /\ EventOf \in [Messages -> Events \cup {NoEvent}]
  /\ \A c \in DOMAIN Catalog : Catalog[c] \in CategoryRows
  /\ MaxAttempts \in Nat /\ Prefetch \in Nat /\ MaxFaults \in Nat
  /\ DeadLettering \subseteq BOOLEAN

VARIABLES
  \* the broker
  queue,          \* messages ready in the queue
  unacked,        \* delivered on the open channel, not yet settled
  acked,          \* confirmed, gone from the broker
  dlq,            \* in notify.dlq
  dropped,        \* rejected by a queue without dead letter exchange
  deaths,         \* the count RabbitMQ keeps in x-death
  conn,           \* "up" or "down"
  \* the consumer
  buffered,       \* delivered, waiting for a worker
  pc, msg, plan,  \* per worker: next call, message in hand, deliveries decided
  \* Postgres, the hub and the debouncer
  notifications, deliveries, nextId,
  published,      \* calls of Publish for the notification of an event
  grouped,        \* events handed to the debouncer
  faults

brokerVars == <<queue, unacked, acked, dlq, dropped, deaths, conn, buffered>>
dbVars     == <<notifications, deliveries, nextId>>
outVars    == <<published, grouped>>
vars == <<brokerVars, pc, msg, plan, dbVars, outVars, faults>>

Calls == {"idle", "enqueue", "category", "settings", "insert", "deliveries",
          "commit", "publish", "ack", "requeue", "discard", "failed"}

TypeOK ==
  /\ queue \subseteq Messages /\ unacked \subseteq Messages
  /\ acked \subseteq Messages /\ dlq \subseteq Messages
  /\ dropped \subseteq Messages /\ buffered \subseteq Messages
  /\ deaths \in [Messages -> Nat]
  /\ conn \in {"up", "down"}
  /\ pc \in [Workers -> Calls]
  /\ msg \in [Workers -> Messages \cup {NoEvent}]
  /\ plan \in [Workers -> SUBSET PlannedDeliveries]
  /\ notifications \subseteq [id: Nat, event: Events]
  /\ deliveries \subseteq [notification: Nat, delivery: PlannedDeliveries]
  /\ nextId \in Nat
  /\ published \in [Events -> Nat]
  /\ grouped \subseteq Events
  /\ faults \in Nat

Init ==
  /\ queue = Messages
  /\ unacked = {} /\ acked = {} /\ dlq = {} /\ dropped = {} /\ buffered = {}
  /\ deaths = [m \in Messages |-> 0]
  /\ conn = "up"
  /\ pc = [w \in Workers |-> "idle"]
  /\ msg = [w \in Workers |-> NoEvent]
  /\ plan = [w \in Workers |-> {}]
  /\ notifications = {} /\ deliveries = {} /\ nextId = 0
  /\ published = [e \in Events |-> 0]
  /\ grouped = {}
  /\ faults = 0

Stored == {n.event : n \in notifications}
Busy(w) == pc[w] # "idle"
EventAt(w) == EventOf[msg[w]]
Goto(w, call) == pc' = [pc EXCEPT ![w] = call]

\* The workers whose open transaction has inserted, and not committed, a row.
InTransaction(w) == pc[w] \in {"deliveries", "commit"}

-----------------------------------------------------------------------------
(* The broker and the client library. *)

\* RabbitMQ pushes a message to the consumer, within the prefetch of its
\* channel; the client keeps it until a worker ranges over it.
Deliver(m) ==
  /\ conn = "up" /\ m \in queue /\ Cardinality(unacked) < Prefetch
  /\ queue' = queue \ {m}
  /\ unacked' = unacked \cup {m}
  /\ buffered' = buffered \cup {m}
  /\ UNCHANGED <<acked, dlq, dropped, deaths, conn, pc, msg, plan, dbVars, outVars, faults>>

\* An operator puts a message of the dead letter queue back by hand.  Its
\* x-death header survives.  Bound: deaths[m] <= MaxAttempts.
Reinject(m) ==
  /\ m \in dlq /\ deaths[m] <= MaxAttempts
  /\ dlq' = dlq \ {m}
  /\ queue' = queue \cup {m}
  /\ UNCHANGED <<unacked, acked, dropped, deaths, conn, buffered, pc, msg, plan, dbVars, outVars, faults>>

\* Mutant: Consume with autoAck, the broker forgets what it delivers.
LoseConnectionAutoAck ==
  /\ conn = "up" /\ faults < MaxFaults
  /\ conn' = "down"
  /\ unacked' = {}
  /\ faults' = faults + 1
  /\ UNCHANGED <<queue, acked, dlq, dropped, deaths, buffered, pc, msg, plan, dbVars, outVars>>

\* The connection drops: the broker takes back what was not confirmed.  The
\* workers finish what they have in hand, and may still pick what the client
\* had buffered; their ack or nack goes nowhere.
LoseConnection ==
  /\ conn = "up" /\ faults < MaxFaults
  /\ conn' = "down"
  /\ queue' = queue \cup unacked
  /\ unacked' = {}
  /\ faults' = faults + 1
  /\ UNCHANGED <<acked, dlq, dropped, deaths, buffered, pc, msg, plan, dbVars, outVars>>

\* Mutant: runWorkers without wg.Wait.
ReconnectAtOnce ==
  /\ conn = "down"
  /\ conn' = "up"
  /\ buffered' = {}
  /\ UNCHANGED <<queue, unacked, acked, dlq, dropped, deaths, pc, msg, plan, dbVars, outVars, faults>>

\* runWorkers returns once every worker has left its range; only then does
\* the consumer ask for a new channel.  What the old one buffered is dropped.
Reconnect ==
  /\ conn = "down" /\ \A w \in Workers : ~Busy(w)
  /\ conn' = "up"
  /\ buffered' = {}
  /\ UNCHANGED <<queue, unacked, acked, dlq, dropped, deaths, pc, msg, plan, dbVars, outVars, faults>>

\* The process dies: open transactions roll back, the broker takes back what
\* was not confirmed, and a new process starts.
Crash ==
  /\ faults < MaxFaults
  /\ conn' = "down"
  /\ queue' = queue \cup unacked
  /\ unacked' = {} /\ buffered' = {}
  /\ pc' = [w \in Workers |-> "idle"]
  /\ msg' = [w \in Workers |-> NoEvent]
  /\ plan' = [w \in Workers |-> {}]
  /\ faults' = faults + 1
  /\ UNCHANGED <<acked, dlq, dropped, deaths, dbVars, outVars>>

-----------------------------------------------------------------------------
(* handle: decode and validate, group, execute, settle. *)

\* Where handle goes with the message it decoded.
FirstCall(m) ==
  IF EventOf[m] = NoEvent THEN "discard"
  ELSE IF CategoryOf[EventOf[m]] \in DebouncedCategories THEN "enqueue"
  ELSE "category"

Receive(w, m) ==
  /\ ~Busy(w) /\ m \in buffered
  /\ buffered' = buffered \ {m}
  /\ msg' = [msg EXCEPT ![w] = m]
  /\ Goto(w, FirstCall(m))
  /\ UNCHANGED <<queue, unacked, acked, dlq, dropped, deaths, conn, plan, dbVars, outVars, faults>>

\* debouncer.Enqueue, seen from the consumer: Redis takes the event, or the
\* call fails, with the write made or not.
EnqueueOk(w) ==
  /\ pc[w] = "enqueue"
  /\ grouped' = grouped \cup {EventAt(w)}
  /\ Goto(w, "ack")
  /\ UNCHANGED <<brokerVars, msg, plan, dbVars, published, faults>>

\* Mutant: the error of Enqueue is only logged.
EnqueueErrorAcked(w) ==
  /\ pc[w] = "enqueue" /\ faults < MaxFaults
  /\ grouped' \in {grouped, grouped \cup {EventAt(w)}}
  /\ faults' = faults + 1
  /\ Goto(w, "ack")
  /\ UNCHANGED <<brokerVars, msg, plan, dbVars, published>>

EnqueueError(w) ==
  /\ pc[w] = "enqueue" /\ faults < MaxFaults
  /\ grouped' \in {grouped, grouped \cup {EventAt(w)}}
  /\ faults' = faults + 1
  /\ Goto(w, "requeue")
  /\ UNCHANGED <<brokerVars, msg, plan, dbVars, published>>

\* A call of Execute returns an error, or the 15 seconds of processTimeout
\* run out; an open transaction rolls back.
CallFails(w) ==
  /\ pc[w] \in {"category", "settings", "insert", "deliveries", "commit"}
  /\ Goto(w, "failed")
  /\ UNCHANGED <<brokerVars, msg, plan, dbVars, outVars, faults>>

FindCategory(w) ==
  /\ pc[w] = "category"
  /\ \/ CategoryOf[EventAt(w)] \in DOMAIN Catalog /\ Goto(w, "settings")
     \/ Goto(w, "discard")     \* unknown, or not active just now
  /\ UNCHANGED <<brokerVars, msg, plan, dbVars, outVars, faults>>

\* The preferences are read when the event is processed, whatever they are
\* by then; no row means DefaultSettings.
FindUserSettings(w) ==
  /\ pc[w] = "settings"
  /\ \E settings \in SettingsRows \cup {DefaultSettings} :
       plan' = [plan EXCEPT ![w] =
                  PlanDeliveries(Catalog[CategoryOf[EventAt(w)]], settings)]
  /\ Goto(w, "insert")
  /\ UNCHANGED <<brokerVars, msg, dbVars, outVars, faults>>

\* Mutant: the table without UNIQUE (source_service, event_id).
InsertUnchecked(w) ==
  /\ pc[w] = "insert"
  /\ Goto(w, "deliveries")
  /\ UNCHANGED <<brokerVars, msg, plan, dbVars, outVars, faults>>

\* Mutant: Execute publishes without looking at stored.
InsertIgnoresStored(w) ==
  /\ pc[w] = "insert"
  /\ ~\E v \in Workers : InTransaction(v) /\ EventAt(v) = EventAt(w)
  /\ Goto(w, IF EventAt(w) \in Stored THEN "publish" ELSE "deliveries")
  /\ UNCHANGED <<brokerVars, msg, plan, dbVars, outVars, faults>>

\* INSERT ... ON CONFLICT (source_service, event_id) DO NOTHING: waits while
\* another transaction holds an uncommitted row of the same event.
InsertNotification(w) ==
  /\ pc[w] = "insert"
  /\ ~\E v \in Workers : InTransaction(v) /\ EventAt(v) = EventAt(w)
  /\ \/ EventAt(w) \in Stored /\ Goto(w, "ack")      \* stored = false
     \/ EventAt(w) \notin Stored /\ Goto(w, "deliveries")
  /\ UNCHANGED <<brokerVars, msg, plan, dbVars, outVars, faults>>

InsertDeliveries(w) ==
  /\ pc[w] = "deliveries"
  /\ Goto(w, "commit")
  /\ UNCHANGED <<brokerVars, msg, plan, dbVars, outVars, faults>>

\* Mutant: the error of tx.Commit is ignored.
CommitUnchecked(w) ==
  /\ pc[w] = "commit"
  /\ UNCHANGED dbVars
  /\ Goto(w, "publish")
  /\ UNCHANGED <<brokerVars, msg, plan, outVars, faults>>

\* Commit makes the row and its deliveries visible at once.  The answer may
\* be lost after the server applied it: Execute then returns an error.
Commit(w) ==
  /\ pc[w] = "commit"
  /\ notifications' = notifications \cup {[id |-> nextId, event |-> EventAt(w)]}
  /\ deliveries' = deliveries \cup
       {[notification |-> nextId, delivery |-> d] : d \in plan[w]}
  /\ nextId' = nextId + 1
  /\ \/ Goto(w, "publish")
     \/ Goto(w, "failed")
  /\ UNCHANGED <<brokerVars, msg, plan, outVars, faults>>

Publish(w) ==
  /\ pc[w] = "publish"
  /\ published' = [published EXCEPT ![EventAt(w)] = @ + 1]
  /\ Goto(w, "ack")
  /\ UNCHANGED <<brokerVars, msg, plan, dbVars, grouped, faults>>

-----------------------------------------------------------------------------
(* Settling: on a closed channel the call has no effect on the broker. *)

Done(w) ==
  /\ pc' = [pc EXCEPT ![w] = "idle"]
  /\ msg' = [msg EXCEPT ![w] = NoEvent]
  /\ plan' = [plan EXCEPT ![w] = {}]
  /\ UNCHANGED <<conn, buffered, dbVars, outVars, faults>>

StaleSettle(w) ==
  /\ pc[w] \in {"ack", "requeue", "discard", "failed"} /\ conn = "down"
  /\ Done(w)
  /\ UNCHANGED <<queue, unacked, acked, dlq, dropped, deaths>>

Ack(w) ==
  /\ pc[w] = "ack" /\ conn = "up"
  /\ unacked' = unacked \ {msg[w]}
  /\ acked' = acked \cup {msg[w]}
  /\ Done(w)
  /\ UNCHANGED <<queue, dlq, dropped, deaths>>

\* Nack(false, true)
NackRequeue(w) ==
  /\ pc[w] = "requeue" /\ conn = "up"
  /\ unacked' = unacked \ {msg[w]}
  /\ queue' = queue \cup {msg[w]}
  /\ Done(w)
  /\ UNCHANGED <<acked, dlq, dropped, deaths>>

\* The dead letter exchange takes a rejected message and counts it; a queue
\* without one deletes it.
DeadLetter(m) ==
  /\ TRUE \in DeadLettering
  /\ dlq' = dlq \cup {m} /\ deaths' = [deaths EXCEPT ![m] = @ + 1]
  /\ UNCHANGED dropped

Drop(m) ==
  /\ FALSE \in DeadLettering
  /\ dropped' = dropped \cup {m}
  /\ UNCHANGED <<dlq, deaths>>

\* Nack(false, false)
Reject(w) ==
  /\ conn = "up"
  /\ unacked' = unacked \ {msg[w]}
  /\ DeadLetter(msg[w]) \/ Drop(msg[w])
  /\ Done(w)
  /\ UNCHANGED <<queue, acked>>

\* discard: unreadable, incomplete, or of an unknown category.
Discard(w) == pc[w] = "discard" /\ Reject(w)

\* Mutant: the retry goes back to the head of the queue.
RetryRequeued(w) ==
  /\ pc[w] = "failed" /\ conn = "up" /\ deaths[msg[w]] < MaxAttempts
  /\ unacked' = unacked \ {msg[w]}
  /\ queue' = queue \cup {msg[w]}
  /\ Done(w)
  /\ UNCHANGED <<acked, dlq, dropped, deaths>>

\* The failure may be passing, and the message is rejected all the same:
\* with attempts left it is meant to come back, without them it is discarded.
Retry(w)  == pc[w] = "failed" /\ deaths[msg[w]] < MaxAttempts /\ Reject(w)
GiveUp(w) == pc[w] = "failed" /\ deaths[msg[w]] >= MaxAttempts /\ Reject(w)

-----------------------------------------------------------------------------
Work(w) ==
  \/ EnqueueOk(w) \/ EnqueueError(w)
  \/ CallFails(w) \/ FindCategory(w) \/ FindUserSettings(w)
  \/ InsertNotification(w) \/ InsertDeliveries(w) \/ Commit(w) \/ Publish(w)
  \/ StaleSettle(w) \/ Ack(w) \/ NackRequeue(w)
  \/ Discard(w) \/ Retry(w) \/ GiveUp(w)

Next ==
  \/ \E m \in Messages : Deliver(m) \/ Reinject(m)
  \/ \E w \in Workers, m \in Messages : Receive(w, m)
  \/ \E w \in Workers : Work(w)
  \/ LoseConnection \/ Reconnect \/ Crash

Spec == Init /\ [][Next]_vars

\* The queue and the Go channel are first in, first out, so no message waits
\* forever behind others; a worker always finishes its call (Redis and
\* Postgres calls have timeouts); the reconnection loop never gives up.
Fairness ==
  /\ \A m \in Messages :
       SF_vars(Deliver(m)) /\ SF_vars(\E w \in Workers : Receive(w, m))
  /\ \A w \in Workers : WF_vars(Work(w))
  /\ WF_vars(Reconnect)

FairSpec == Spec /\ Fairness

-----------------------------------------------------------------------------
(* Properties. *)

\* What a message left behind that outlives the process: the row of its event,
\* or the event in the debouncer.
Kept(m) == EventOf[m] \in Stored \cup grouped

\* Ack comes after the write it answers for: a confirmed message, which the
\* broker will never show again, has its event in Postgres or in Redis.
AckedIsKept == \A m \in acked : Kept(m)

\* No message vanishes and none is multiplied: each is in exactly one of the
\* places the broker knows, through crashes, lost connections and nacks.
Places == <<queue, unacked, acked, dlq, dropped>>
OnePlace ==
  \A m \in Messages :
    \E i \in DOMAIN Places :
      m \in Places[i] /\ \A j \in DOMAIN Places \ {i} : m \notin Places[j]

\* Two workers never handle the same message: a redelivery waits until the
\* worker left over from the dead channel has finished.
OneHandler ==
  \A v, w \in Workers : Busy(v) /\ Busy(w) /\ msg[v] = msg[w] => v = w

\* The idempotency the schema promises: the same event of the same service
\* never enters twice, whatever is redelivered or published twice.
OneRowPerEvent ==
  \A n1, n2 \in notifications : n1.event = n2.event => n1 = n2

\* A stored notification has a delivery for each channel its category allows
\* and no other, with none skipped when the category is mandatory: it is
\* never visible without them, and a retry never adds to them.
DeliveriesMatchCategory ==
  \A n \in notifications :
    LET category == Catalog[CategoryOf[n.event]]
        of == {d.delivery : d \in {x \in deliveries : x.notification = n.id}}
    IN  /\ {d.channel : d \in of} = category.allows
        /\ \A c, d \in of : c.channel = d.channel => c = d
        /\ category.mandatory => \A d \in of : d.status = "pending"

\* The push to the browser follows the commit, once per event: redeliveries
\* and repeated publications never ring the bell again.
PushOnceAfterStore ==
  \A e \in Events : published[e] <= (IF e \in Stored THEN 1 ELSE 0)

\* Every message in the queue is eventually confirmed or set aside.
Settled(m) == m \in acked \cup dlq \cup dropped
EveryMessageSettles == \A m \in Messages : m \in queue ~> Settled(m)

\* What notification_consumer.go:174-192 says of a passing failure: it is
\* retried, and only set aside once the attempts are used up.
AsideAfterMaxAttempts ==
  [][\A w \in Workers :
       pc[w] = "failed" /\ msg[w] \notin dlq /\ msg[w] \in dlq'
         => deaths[msg[w]] >= MaxAttempts]_vars

\* The contract of IntakeContract, as this module keeps it.
StatusOf(m) == IF m \in acked THEN "confirmed"
               ELSE IF m \in dlq \cup dropped THEN "aside" ELSE "pending"
Contract == INSTANCE IntakeContract WITH
  status    <- [m \in Messages |-> StatusOf(m)],
  recorded  <- Stored \cup grouped,
  announced <- published

\* Every behaviour of the consumer is one of the contract.
ImplementsContract == Contract!Spec
=============================================================================
