---------------------- MODULE NotificationConsumerProofs ----------------------
(***************************************************************************)
(* Theorems about NotificationConsumer, for every set of messages, events  *)
(* and workers, every catalog, prefetch and number of faults.  They rest   *)
(* on one inductive invariant, IInv, stated in four parts.                 *)
(***************************************************************************)
EXTENDS NotificationConsumer, TLAPS

-----------------------------------------------------------------------------
(* The inductive invariant. *)

\* Where the broker keeps a message the consumer has not settled.
Held == IF conn = "up" THEN unacked ELSE queue

\* The broker's places share no message and miss none, and what the consumer
\* buffers or handles is still unsettled.
PlacesInv ==
  /\ queue \cup unacked \cup acked \cup dlq \cup dropped = Messages
  /\ queue \cap unacked = {} /\ queue \cap acked = {}
  /\ queue \cap dlq = {}     /\ queue \cap dropped = {}
  /\ unacked \cap acked = {} /\ unacked \cap dlq = {} /\ unacked \cap dropped = {}
  /\ acked \cap dlq = {}     /\ acked \cap dropped = {} /\ dlq \cap dropped = {}
  /\ conn = "down" => unacked = {}
  /\ buffered \subseteq Held

HandInv ==
  /\ \A w \in Workers : Busy(w) => msg[w] \in Held \ buffered
  /\ OneHandler

\* The calls Execute makes once it has found the category.
AfterCategory == {"settings", "insert", "deliveries", "commit", "publish"}
InExecute == AfterCategory \cup {"category", "failed"}

Plans(e) == {PlanDeliveries(Catalog[CategoryOf[e]], s) : s \in SettingsRows}

\* What a worker knows at each call.
CallInv(w) ==
  /\ pc[w] \notin {"idle", "discard"} => EventAt(w) \in Events
  /\ pc[w] = "enqueue" => CategoryOf[EventAt(w)] \in DebouncedCategories
  /\ pc[w] \in InExecute => CategoryOf[EventAt(w)] \notin DebouncedCategories
  /\ pc[w] \in AfterCategory => CategoryOf[EventAt(w)] \in DOMAIN Catalog
  /\ pc[w] \in {"insert", "deliveries", "commit"} => plan[w] \in Plans(EventAt(w))
  /\ InTransaction(w) => EventAt(w) \notin Stored
  /\ pc[w] = "publish" => EventAt(w) \in Stored /\ published[EventAt(w)] = 0
  /\ pc[w] = "ack" => Kept(msg[w])

\* No two workers hold an uncommitted row, or an unpublished one, of one event.
Alone(w, calls) ==
  \A v \in Workers :
    pc[v] \in calls /\ pc[w] \in calls /\ EventAt(v) = EventAt(w) => v = w
AloneInv ==
  \A w \in Workers : Alone(w, {"deliveries", "commit"}) /\ Alone(w, {"publish"})

\* The rows, their deliveries, and what was pushed, grouped and confirmed.
DeliveriesOf(id) ==
  {d.delivery : d \in {x \in deliveries : x.notification = id}}
RowsInv ==
  /\ \A n \in notifications : n.id < nextId
  /\ \A d \in deliveries : d.notification < nextId
  /\ \A n1, n2 \in notifications :
       n1.id = n2.id \/ n1.event = n2.event => n1 = n2
  /\ \A n \in notifications :
       /\ CategoryOf[n.event] \in DOMAIN Catalog \ DebouncedCategories
       /\ DeliveriesOf(n.id) \in Plans(n.event)
  /\ \A e \in grouped : CategoryOf[e] \in DebouncedCategories
  /\ PushOnceAfterStore
  /\ AckedIsKept

IInv ==
  /\ TypeOK
  /\ PlacesInv
  /\ HandInv
  /\ \A w \in Workers : CallInv(w)
  /\ AloneInv
  /\ RowsInv
-----------------------------------------------------------------------------
(* Type correctness. *)

\* What PlanDeliveries returns for a row of the catalog has the type of plan.
LEMMA PlanTyped ==
  ASSUME NEW category \in CategoryRows, NEW settings
  PROVE  PlanDeliveries(category, settings) \subseteq PlannedDeliveries
<1> DEFINE status == ResolveChannels(category, settings)
           row(c) == [channel |-> c, terminal |-> TerminalFor(c), status |-> status[c]]
<1>1. DOMAIN status = category.allows /\ category.allows \subseteq Channels
  BY DEF ResolveChannels, CategoryRows, Channels
<1>2. ASSUME NEW c \in category.allows PROVE row(c) \in PlannedDeliveries
  <2>1. status[c] \in {"pending", "skipped"} BY DEF ResolveChannels
  <2>2. TerminalFor(c) \in {"topic", "pending:user"} BY DEF TerminalFor
  <2>3. c \in Channels BY <1>1
  <2> HIDE DEF status
  <2> QED BY <2>1, <2>2, <2>3 DEF PlannedDeliveries
<1>3. PlanDeliveries(category, settings) = {row(c) : c \in DOMAIN status}
  BY DEF PlanDeliveries
<1> HIDE DEF row
<1> QED BY <1>1, <1>2, <1>3

\* No step leaves the types, as long as a busy worker holds a message the
\* broker has, and past its validation an event of the catalog.
LEMMA TypeStep ==
  ASSUME IInv, [Next]_vars
  PROVE  TypeOK'
<1> TypeOK BY DEF IInv
<1>0. \A w \in Workers : CallInv(w) /\ (Busy(w) => msg[w] \in Messages)
  BY DEF IInv, HandInv, Held, TypeOK
<1> USE DEF Calls, TypeOK
<1>1. ASSUME NEW m \in Messages, Deliver(m) PROVE TypeOK'
  BY <1>1 DEF Deliver, dbVars, outVars
<1>2. ASSUME NEW m \in Messages, Reinject(m) PROVE TypeOK'
  BY <1>2 DEF Reinject, dbVars, outVars
<1>3. ASSUME NEW w \in Workers, NEW m \in Messages, Receive(w, m) PROVE TypeOK'
  BY <1>3 DEF Receive, Goto, FirstCall, dbVars, outVars
<1>4. CASE LoseConnection
  BY <1>4 DEF LoseConnection, dbVars, outVars
<1>5. CASE Reconnect
  BY <1>5 DEF Reconnect, dbVars, outVars
<1>6. CASE Crash
  BY <1>6 DEF Crash, dbVars, outVars
<1>7. ASSUME NEW w \in Workers, Work(w) PROVE TypeOK'
  <2> USE DEF Goto, brokerVars, dbVars, outVars
  <2>1. CallInv(w) /\ (Busy(w) /\ pc[w] # "discard" => EventAt(w) \in Events)
    BY <1>0 DEF CallInv, Busy
  <2>2. CASE EnqueueOk(w) BY <2>1, <2>2 DEF EnqueueOk, Busy
  <2>3. CASE EnqueueError(w) BY <2>1, <2>3 DEF EnqueueError, Busy
  <2>4. CASE CallFails(w) BY <2>4 DEF CallFails
  <2>5. CASE FindCategory(w) BY <2>5 DEF FindCategory
  <2>6. CASE FindUserSettings(w)
    <3>1. PICK settings \in SettingsRows \cup {DefaultSettings} :
            plan' = [plan EXCEPT ![w] =
              PlanDeliveries(Catalog[CategoryOf[EventAt(w)]], settings)]
      BY <2>6 DEF FindUserSettings
    <3>2. PlanDeliveries(Catalog[CategoryOf[EventAt(w)]], settings)
            \subseteq PlannedDeliveries
      BY <2>1, <2>6, PlanTyped, ConsumerAssumption DEF CallInv, FindUserSettings, AfterCategory
    <3>3. plan' \in [Workers -> SUBSET PlannedDeliveries] BY <3>1, <3>2
    <3> QED BY <2>6, <3>3 DEF FindUserSettings
  <2>7. CASE InsertNotification(w) BY <2>7 DEF InsertNotification
  <2>8. CASE InsertDeliveries(w) BY <2>8 DEF InsertDeliveries
  <2>9. CASE Commit(w)
    <3>1. EventAt(w) \in Events /\ plan[w] \subseteq PlannedDeliveries
      BY <2>1, <2>9 DEF Commit, Busy
    <3> QED BY <2>9, <3>1 DEF Commit
  <2>10. CASE Publish(w) BY <2>1, <2>10 DEF Publish, Busy
  <2>11. CASE StaleSettle(w) BY <2>11 DEF StaleSettle, Done
  <2>12. CASE Ack(w)
    BY <1>0, <2>12 DEF Ack, Done, Busy
  <2>13. CASE NackRequeue(w)
    BY <1>0, <2>13 DEF NackRequeue, Done, Busy
  <2>14. CASE Busy(w) /\ Reject(w)
    <3>1. msg[w] \in Messages BY <1>0, <2>14
    <3>2. CASE DeadLetter(msg[w]) BY <2>14, <3>1, <3>2 DEF Reject, DeadLetter, Done
    <3>3. CASE Drop(msg[w]) BY <2>14, <3>1, <3>3 DEF Reject, Drop, Done
    <3> QED BY <2>14, <3>2, <3>3 DEF Reject
  <2> HIDE DEF TypeOK
  <2> QED
    BY <1>7, <2>2, <2>3, <2>4, <2>5, <2>6, <2>7, <2>8, <2>9, <2>10, <2>11, <2>12,
       <2>13, <2>14
    DEF Work, Discard, Retry, GiveUp, Busy
<1>8. CASE UNCHANGED vars
  BY <1>8 DEF vars, brokerVars, dbVars, outVars
<1> QED BY <1>1, <1>2, <1>3, <1>4, <1>5, <1>6, <1>7, <1>8 DEF Next

-----------------------------------------------------------------------------
(* Messages: where they are and who handles them. *)

\* A call that neither settles nor receives: the worker stays busy, with the
\* same message, and the broker does not move.
Calling(w) ==
  /\ Busy(w) /\ pc[w] # "discard"
  /\ \E call \in Calls \ {"idle"} : Goto(w, call)
  /\ UNCHANGED <<brokerVars, msg>>

LEMMA WorkIsCallOrSettle ==
  ASSUME NEW w \in Workers, Work(w)
  PROVE  \/ Calling(w)
         \/ Busy(w) /\ (StaleSettle(w) \/ Ack(w) \/ NackRequeue(w) \/ Reject(w))
BY DEF Work, Calling, Calls, Busy, EnqueueOk, EnqueueError, CallFails, FindCategory,
       FindUserSettings, InsertNotification, InsertDeliveries, Commit, Publish,
       StaleSettle, Ack, NackRequeue, Discard, Retry, GiveUp

\* The places keep every message once, and a message in hand stays in the hands
\* of one worker, whatever step is taken.
LEMMA PlacesStep ==
  ASSUME IInv, [Next]_vars
  PROVE  PlacesInv' /\ HandInv'
<1> TypeOK /\ PlacesInv /\ HandInv BY DEF IInv
<1> USE DEF PlacesInv, HandInv, Held, OneHandler, Busy
<1>1. ASSUME NEW m \in Messages, Deliver(m) PROVE PlacesInv' /\ HandInv'
  BY <1>1 DEF Deliver
<1>2. ASSUME NEW m \in Messages, Reinject(m) PROVE PlacesInv' /\ HandInv'
  BY <1>2 DEF Reinject
<1>3. ASSUME NEW w \in Workers, NEW m \in Messages, Receive(w, m)
      PROVE PlacesInv' /\ HandInv'
  <2>1. pc' = [pc EXCEPT ![w] = FirstCall(m)] /\ FirstCall(m) # "idle"
    BY <1>3 DEF Receive, Goto, FirstCall
  <2> QED BY <1>3, <2>1 DEF Receive, TypeOK
<1>4. CASE LoseConnection
  BY <1>4 DEF LoseConnection
<1>5. CASE Reconnect
  BY <1>5 DEF Reconnect
<1>6. CASE Crash
  BY <1>6 DEF Crash
<1>7. ASSUME NEW w \in Workers, Work(w) PROVE PlacesInv' /\ HandInv'
  <2>1. CASE Calling(w)
    BY <2>1 DEF Calling, Goto, brokerVars, TypeOK, Calls
  <2>2. CASE Busy(w) /\ StaleSettle(w)
    BY <2>2 DEF StaleSettle, Done, TypeOK
  <2>3. CASE Busy(w) /\ Ack(w)
    BY <2>3 DEF Ack, Done, TypeOK
  <2>4. CASE Busy(w) /\ NackRequeue(w)
    BY <2>4 DEF NackRequeue, Done, TypeOK
  <2>5. CASE Busy(w) /\ Reject(w)
    <3>1. CASE DeadLetter(msg[w]) BY <2>5, <3>1 DEF Reject, DeadLetter, Done, TypeOK
    <3>2. CASE Drop(msg[w]) BY <2>5, <3>2 DEF Reject, Drop, Done, TypeOK
    <3> QED BY <2>5, <3>1, <3>2 DEF Reject
  <2> QED BY <1>7, <2>1, <2>2, <2>3, <2>4, <2>5, WorkIsCallOrSettle
<1>8. CASE UNCHANGED vars
  BY <1>8 DEF vars, brokerVars
<1> QED BY <1>1, <1>2, <1>3, <1>4, <1>5, <1>6, <1>7, <1>8 DEF Next

-----------------------------------------------------------------------------
(* Workers: what each one knows at its call. *)

\* A step that leaves the database, the hub and the debouncer alone, and that
\* leaves a worker where it was, leaves what the worker knows.
LEMMA CallStays ==
  ASSUME NEW v \in Workers, CallInv(v),
         pc'[v] = pc[v], msg'[v] = msg[v], plan'[v] = plan[v],
         UNCHANGED <<dbVars, outVars>>
  PROVE  CallInv(v)'
BY DEF CallInv, EventAt, Stored, InTransaction, Kept, Plans, dbVars, outVars

\* A commit stores one more event.
LEMMA CommitStores ==
  ASSUME NEW w \in Workers, Commit(w)
  PROVE  Stored' = Stored \cup {EventAt(w)}
<1> DEFINE row == [id |-> nextId, event |-> EventAt(w)]
<1>1. row.event = EventAt(w) OBVIOUS
<1>2. notifications' = notifications \cup {row} BY DEF Commit
<1> HIDE DEF row
<1> QED BY <1>1, <1>2 DEF Stored

\* What a worker knows is still true after any step of any worker.
LEMMA CallStep ==
  ASSUME IInv, [Next]_vars, NEW v \in Workers
  PROVE  CallInv(v)'
<1> TypeOK /\ CallInv(v) /\ AloneInv /\ RowsInv /\ HandInv BY DEF IInv
<1>1. CASE \E m \in Messages : Deliver(m) \/ Reinject(m)
  BY <1>1, CallStays DEF Deliver, Reinject
<1>2. ASSUME NEW w \in Workers, NEW m \in Messages, Receive(w, m)
      PROVE CallInv(v)'
  <2>1. CASE v # w
    BY <1>2, <2>1, CallStays DEF Receive, Goto, TypeOK
  <2>2. CASE v = w
    <3>1. pc'[v] = FirstCall(m) /\ EventAt(v)' = EventOf[m]
      BY <1>2, <2>2 DEF Receive, Goto, EventAt, TypeOK
    <3>2. pc'[v] # "discard" => EventOf[m] \in Events
      BY <3>1, ConsumerAssumption DEF FirstCall
    <3> QED BY <3>1, <3>2
        DEF CallInv, FirstCall, InTransaction, AfterCategory, InExecute
  <2> QED BY <2>1, <2>2
<1>3. CASE LoseConnection \/ Reconnect
  BY <1>3, CallStays DEF LoseConnection, Reconnect
<1>4. CASE Crash
  BY <1>4 DEF Crash, CallInv, InTransaction, AfterCategory, InExecute
<1>5. ASSUME NEW w \in Workers, Work(w), v # w PROVE CallInv(v)'
  <2>1. pc'[v] = pc[v] /\ msg'[v] = msg[v] /\ plan'[v] = plan[v]
    BY <1>5 DEF Work, EnqueueOk, EnqueueError, CallFails, FindCategory,
         FindUserSettings, InsertNotification, InsertDeliveries, Commit, Publish,
         StaleSettle, Ack, NackRequeue, Discard, Retry, GiveUp, Reject, Done, Goto, TypeOK
  <2>2. CASE Commit(w)
    <3>1. Stored' = Stored \cup {EventAt(w)} BY <2>2, CommitStores
    <3>2. InTransaction(v) => EventAt(v) # EventAt(w)
      BY <1>5, <2>2 DEF Commit, AloneInv, Alone, InTransaction
    <3> QED BY <2>1, <2>2, <3>1, <3>2
        DEF CallInv, EventAt, InTransaction, Kept, Plans, Commit, outVars
  <2>3. CASE Publish(w)
    <3>1. pc[v] = "publish" => EventAt(v) # EventAt(w)
      BY <1>5, <2>3 DEF Publish, AloneInv, Alone
    <3>2. pc[v] = "publish" => published'[EventAt(v)] = published[EventAt(v)]
      BY <2>3, <3>1 DEF Publish, CallInv, TypeOK
    <3> QED BY <2>1, <2>3, <3>2
        DEF CallInv, EventAt, Stored, InTransaction, Kept, Plans, Publish, dbVars
  <2>4. CASE EnqueueOk(w) \/ EnqueueError(w)
    <3>1. Stored' = Stored /\ grouped \subseteq grouped' /\ published' = published
      BY <2>4 DEF EnqueueOk, EnqueueError, Stored, dbVars
    <3> QED BY <2>1, <3>1 DEF CallInv, EventAt, InTransaction, Kept, Plans
  <2>5. CASE UNCHANGED <<dbVars, outVars>>
    BY <2>1, <2>5, CallStays
  <2> QED
    BY <1>5, <2>2, <2>3, <2>4, <2>5
       DEF Work, CallFails, FindCategory, FindUserSettings, InsertNotification,
         InsertDeliveries, StaleSettle, Ack, NackRequeue, Discard, Retry, GiveUp,
         Reject, Done
<1>6. CASE Work(v)
  <2> USE DEF CallInv, AfterCategory, InExecute, InTransaction, Kept, EventAt, Goto, TypeOK
  <2>1. CASE EnqueueOk(v) \/ EnqueueError(v)
    BY <2>1 DEF EnqueueOk, EnqueueError
  <2>2. CASE CallFails(v) BY <2>2 DEF CallFails
  <2>3. CASE FindCategory(v) BY <2>3 DEF FindCategory
  <2>4. CASE FindUserSettings(v)
    <3> DEFINE category == Catalog[CategoryOf[EventAt(v)]]
    <3>1. PICK settings \in SettingsRows :
            plan' = [plan EXCEPT ![v] = PlanDeliveries(category, settings)]
      BY <2>4 DEF FindUserSettings, SettingsRows, DefaultSettings
    <3>2. plan'[v] \in Plans(EventAt(v))
      BY <3>1 DEF Plans
    <3> HIDE DEF category
    <3> QED BY <2>4, <3>2 DEF FindUserSettings, Plans
  <2>5. CASE InsertNotification(v)
    BY <2>5 DEF InsertNotification, Stored, Plans, dbVars, outVars
  <2>6. CASE InsertDeliveries(v)
    BY <2>6 DEF InsertDeliveries, Stored, Plans, dbVars, outVars
  <2>7. CASE Commit(v)
    <3>1. EventAt(v) \in Stored' BY <2>7, CommitStores
    <3>2. published[EventAt(v)] = 0
      BY <2>7 DEF Commit, RowsInv, PushOnceAfterStore
    <3> QED BY <2>7, <3>1, <3>2 DEF Commit, outVars
  <2>8. CASE Publish(v)
    BY <2>8 DEF Publish, Stored, dbVars
  <2>9. CASE StaleSettle(v) \/ Ack(v) \/ NackRequeue(v) \/ Reject(v)
    BY <2>9 DEF StaleSettle, Ack, NackRequeue, Reject, Done
  <2> QED
    BY <1>6, <2>1, <2>2, <2>3, <2>4, <2>5, <2>6, <2>7, <2>8, <2>9
       DEF Work, Discard, Retry, GiveUp
<1>7. CASE UNCHANGED vars
  BY <1>7, CallStays DEF vars
<1> QED BY <1>1, <1>2, <1>3, <1>4, <1>5, <1>6, <1>7 DEF Next

\* Two workers never hold an uncommitted row, or an unpublished one, of the same
\* event: the index of the table makes the second insert wait.
LEMMA AloneStep ==
  ASSUME IInv, [Next]_vars
  PROVE  AloneInv'
<1> TypeOK /\ AloneInv /\ (\A w \in Workers : CallInv(w)) BY DEF IInv
<1> USE DEF AloneInv, Alone, EventAt, TypeOK
<1>1. CASE \E m \in Messages : Deliver(m) \/ Reinject(m)
  BY <1>1 DEF Deliver, Reinject
<1>2. ASSUME NEW w \in Workers, NEW m \in Messages, Receive(w, m) PROVE AloneInv'
  BY <1>2 DEF Receive, Goto, FirstCall
<1>3. CASE LoseConnection \/ Reconnect \/ Crash
  BY <1>3 DEF LoseConnection, Reconnect, Crash
<1>4. ASSUME NEW w \in Workers, Work(w) PROVE AloneInv'
  <2>1. CASE InsertNotification(w)
    BY <2>1 DEF InsertNotification, InTransaction, Goto
  <2>2. CASE InsertDeliveries(w)
    BY <2>2 DEF InsertDeliveries, Goto
  <2>3. CASE Commit(w)
    <3>1. \A v \in Workers : pc[v] = "publish" => EventAt(v) # EventAt(w)
      BY <2>3 DEF Commit, CallInv, InTransaction
    <3> QED BY <2>3, <3>1 DEF Commit, Goto
  <2>4. CASE Publish(w)
    BY <2>4 DEF Publish, Goto
  <2>5. CASE EnqueueOk(w) \/ EnqueueError(w) \/ CallFails(w) \/ FindCategory(w)
             \/ FindUserSettings(w)
    BY <2>5 DEF EnqueueOk, EnqueueError, CallFails, FindCategory, FindUserSettings, Goto
  <2>6. CASE StaleSettle(w) \/ Ack(w) \/ NackRequeue(w) \/ Reject(w)
    BY <2>6 DEF StaleSettle, Ack, NackRequeue, Reject, Done
  <2> QED
    BY <1>4, <2>1, <2>2, <2>3, <2>4, <2>5, <2>6 DEF Work, Discard, Retry, GiveUp
<1>5. CASE UNCHANGED vars
  BY <1>5 DEF vars
<1> QED BY <1>1, <1>2, <1>3, <1>4, <1>5 DEF Next

-----------------------------------------------------------------------------
(* Rows. *)

\* The tables, the events pushed and grouped, and the messages confirmed move
\* only at a commit, a publication, an Enqueue and an Ack.
LEMMA RowsStay ==
  ASSUME RowsInv, UNCHANGED <<dbVars, outVars, acked>>
  PROVE  RowsInv'
BY DEF RowsInv, DeliveriesOf, Plans, PushOnceAfterStore, Stored, AckedIsKept, Kept,
       dbVars, outVars

LEMMA RowsStep ==
  ASSUME IInv, [Next]_vars
  PROVE  RowsInv'
<1> TypeOK /\ RowsInv /\ HandInv /\ (\A w \in Workers : CallInv(w)) BY DEF IInv
<1>1. CASE \E m \in Messages : Deliver(m) \/ Reinject(m)
  BY <1>1, RowsStay DEF Deliver, Reinject
<1>2. CASE \E w \in Workers, m \in Messages : Receive(w, m)
  BY <1>2, RowsStay DEF Receive
<1>3. CASE LoseConnection \/ Reconnect \/ Crash
  BY <1>3, RowsStay DEF LoseConnection, Reconnect, Crash
<1>4. ASSUME NEW w \in Workers, Work(w) PROVE RowsInv'
  <2>1. CASE Commit(w)
    <3> DEFINE e == EventAt(w)
               row == [id |-> nextId, event |-> e]
               new == {[notification |-> nextId, delivery |-> d] : d \in plan[w]}
    <3>1. /\ notifications' = notifications \cup {row}
          /\ deliveries' = deliveries \cup new
          /\ nextId' = nextId + 1
          /\ UNCHANGED <<outVars, acked>>
      BY <2>1 DEF Commit, brokerVars
    <3>2. /\ e \in Events /\ e \notin Stored
          /\ CategoryOf[e] \in DOMAIN Catalog \ DebouncedCategories
          /\ plan[w] \in Plans(e)
      BY <2>1 DEF Commit, CallInv, InTransaction, InExecute, AfterCategory
    <3>3. row.id = nextId /\ row.event = e OBVIOUS
    <3>4. \A d \in new : d.notification = nextId OBVIOUS
    <3>5. {d.delivery : d \in new} = plan[w]
      <4>1. \A d \in plan[w] :
              /\ [notification |-> nextId, delivery |-> d] \in new
              /\ [notification |-> nextId, delivery |-> d].delivery = d
        OBVIOUS
      <4>2. \A x \in new : x.delivery \in plan[w] OBVIOUS
      <4> QED BY <4>1, <4>2
    <3>6. \A n \in notifications : n.event # e BY <3>2 DEF Stored
    <3>7. \A n \in notifications : n.id \in Nat /\ n.id < nextId
      BY DEF RowsInv, TypeOK
    <3>8. \A d \in deliveries : d.notification \in Nat /\ d.notification < nextId
      BY DEF RowsInv, TypeOK
    <3>9. nextId \in Nat BY DEF TypeOK
    <3> HIDE DEF e, row, new
    <3>10. \A n \in notifications : DeliveriesOf(n.id)' = DeliveriesOf(n.id)
      BY <3>1, <3>4, <3>7 DEF DeliveriesOf
    <3>11. ASSUME NEW n \in {row} PROVE DeliveriesOf(n.id)' = plan[w]
      <4>1. {x \in deliveries' : x.notification = n.id} = new
        BY <3>1, <3>3, <3>4, <3>8, <3>9
      <4> QED BY <4>1, <3>5 DEF DeliveriesOf
    <3>12. Stored' = Stored \cup {e} BY <2>1, CommitStores DEF e
    <3>13. \A n \in notifications' : n.id < nextId'
      BY <3>1, <3>3, <3>7, <3>9
    <3>14. \A d \in deliveries' : d.notification < nextId'
      BY <3>1, <3>4, <3>8, <3>9
    <3>15. \A n1, n2 \in notifications' :
             n1.id = n2.id \/ n1.event = n2.event => n1 = n2
      BY <3>1, <3>3, <3>6, <3>7, <3>9 DEF RowsInv
    <3>16. ASSUME NEW n \in notifications'
           PROVE  /\ CategoryOf[n.event] \in DOMAIN Catalog \ DebouncedCategories
                  /\ DeliveriesOf(n.id)' \in Plans(n.event)
      <4>1. CASE n \in notifications BY <4>1, <3>10 DEF RowsInv
      <4>2. CASE n = row BY <4>2, <3>2, <3>3, <3>11
      <4> QED BY <3>1, <4>1, <4>2
    <3>17. PushOnceAfterStore'
      BY <3>1, <3>12 DEF RowsInv, PushOnceAfterStore, outVars, TypeOK
    <3>18. AckedIsKept'
      BY <3>1, <3>12 DEF RowsInv, AckedIsKept, Kept, outVars
    <3>19. \A f \in grouped' : CategoryOf[f] \in DebouncedCategories
      BY <3>1 DEF RowsInv, outVars
    <3> QED BY <3>13, <3>14, <3>15, <3>16, <3>17, <3>18, <3>19 DEF RowsInv, DeliveriesOf, Plans
  <2>2. CASE Publish(w)
    <3>1. /\ EventAt(w) \in Events /\ EventAt(w) \in Stored
          /\ published[EventAt(w)] = 0
          /\ published' = [published EXCEPT ![EventAt(w)] = @ + 1]
          /\ UNCHANGED <<dbVars, grouped, acked>>
      BY <2>2 DEF Publish, CallInv, brokerVars
    <3>2. PushOnceAfterStore'
      BY <3>1 DEF RowsInv, PushOnceAfterStore, Stored, dbVars, TypeOK
    <3> QED BY <3>1, <3>2
        DEF RowsInv, DeliveriesOf, Plans, Stored, AckedIsKept, Kept, dbVars
  <2>3. CASE EnqueueOk(w) \/ EnqueueError(w)
    <3>1. /\ grouped' \in {grouped, grouped \cup {EventAt(w)}}
          /\ UNCHANGED <<dbVars, published, acked>>
      BY <2>3 DEF EnqueueOk, EnqueueError, brokerVars
    <3>2. CategoryOf[EventAt(w)] \in DebouncedCategories
      BY <2>3 DEF CallInv, EnqueueOk, EnqueueError
    <3> QED BY <3>1, <3>2
        DEF RowsInv, DeliveriesOf, Plans, Stored, AckedIsKept, Kept, PushOnceAfterStore, dbVars
  <2>4. CASE Ack(w)
    BY <2>4 DEF Ack, Done, CallInv, RowsInv, DeliveriesOf, Plans, Stored, AckedIsKept,
                Kept, PushOnceAfterStore, dbVars, outVars
  <2>5. CASE UNCHANGED <<dbVars, outVars, acked>>
    BY <2>5, RowsStay
  <2> QED
    BY <1>4, <2>1, <2>2, <2>3, <2>4, <2>5
       DEF Work, CallFails, FindCategory, FindUserSettings, InsertNotification,
         InsertDeliveries, StaleSettle, NackRequeue, Discard, Retry, GiveUp,
         Reject, Done, brokerVars
<1>5. CASE UNCHANGED vars
  BY <1>5, RowsStay DEF vars, brokerVars
<1> QED BY <1>1, <1>2, <1>3, <1>4, <1>5 DEF Next

-----------------------------------------------------------------------------
(* The theorems. *)

LEMMA InitIInv == Init => IInv
<1> SUFFICES ASSUME Init PROVE IInv OBVIOUS
<1> USE DEF Init
<1>1. TypeOK BY ConsumerAssumption DEF TypeOK, Calls
<1>2. PlacesInv BY DEF PlacesInv, Held
<1>3. HandInv BY DEF HandInv, OneHandler, Busy
<1>4. \A w \in Workers : CallInv(w)
  BY DEF CallInv, InExecute, AfterCategory, InTransaction
<1>5. AloneInv BY DEF AloneInv, Alone
<1>6. RowsInv
  BY DEF RowsInv, PushOnceAfterStore, AckedIsKept, Stored
<1> QED BY <1>1, <1>2, <1>3, <1>4, <1>5, <1>6 DEF IInv

LEMMA StepIInv == IInv /\ [Next]_vars => IInv'
BY TypeStep, PlacesStep, CallStep, AloneStep, RowsStep DEF IInv

LEMMA Invariance == Spec => []IInv
BY InitIInv, StepIInv, PTL DEF Spec

\* The deliveries planned for a row of the catalog: one per channel the
\* category allows, none skipped when the category is mandatory.
LEMMA PlanMatches ==
  ASSUME NEW category \in CategoryRows, NEW settings
  PROVE  LET planned == PlanDeliveries(category, settings)
         IN  /\ {d.channel : d \in planned} = category.allows
             /\ \A c, d \in planned : c.channel = d.channel => c = d
             /\ category.mandatory => \A d \in planned : d.status = "pending"
<1> DEFINE status == ResolveChannels(category, settings)
           row(c) == [channel |-> c, terminal |-> TerminalFor(c), status |-> status[c]]
<1>1. DOMAIN status = category.allows BY DEF ResolveChannels
<1>2. category.mandatory => \A c \in category.allows : status[c] = "pending"
  BY DEF ResolveChannels, Accepted
<1>3. PlanDeliveries(category, settings) = {row(c) : c \in category.allows}
  BY <1>1 DEF PlanDeliveries
<1> HIDE DEF status
<1>4. \A c : row(c).channel = c /\ row(c).status = status[c] OBVIOUS
<1> HIDE DEF row
<1> QED BY <1>2, <1>3, <1>4

\* Every state the consumer, the tables and the broker reach has its type
\* (notification_consumer.go, ProcessNotificationUseCase.go, Save).
THEOREM TypeCorrect == Spec => []TypeOK
BY Invariance, PTL DEF IInv

\* A confirmed message has its event in Postgres or in the debouncer: handle
\* answers Ack only after the write.
THEOREM ConfirmedIsKept == Spec => []AckedIsKept
BY Invariance, PTL DEF IInv, RowsInv

\* A message is in exactly one place of the broker, whatever the connection and
\* the process do.
THEOREM NothingVanishes == Spec => []OnePlace
<1>1. IInv => OnePlace
  <2> SUFFICES ASSUME IInv, NEW m \in Messages
               PROVE  \E i \in DOMAIN Places :
                        m \in Places[i] /\ \A j \in DOMAIN Places \ {i} : m \notin Places[j]
    BY DEF OnePlace
  <2>1. /\ DOMAIN Places = 1 .. 5
        /\ Places[1] = queue /\ Places[2] = unacked /\ Places[3] = acked
        /\ Places[4] = dlq /\ Places[5] = dropped
    BY DEF Places
  <2> QED BY <2>1 DEF IInv, PlacesInv
<1> QED BY <1>1, Invariance, PTL

\* runWorkers waits for its workers before a new channel is opened, so one
\* message is never in two hands.
THEOREM OneHandlerAlways == Spec => []OneHandler
BY Invariance, PTL DEF IInv, HandInv

\* UNIQUE (source_service, event_id): redeliveries, retries and repeated
\* publications leave one row.
THEOREM Idempotent == Spec => []OneRowPerEvent
<1>1. IInv => OneRowPerEvent BY DEF IInv, RowsInv, OneRowPerEvent
<1> QED BY <1>1, Invariance, PTL

\* The bell rings at most once per event, and only after its commit.
THEOREM BellRingsOnce == Spec => []PushOnceAfterStore
BY Invariance, PTL DEF IInv, RowsInv

\* A stored notification has exactly the deliveries its category allows.
THEOREM DeliveriesComplete == Spec => []DeliveriesMatchCategory
<1>1. IInv => DeliveriesMatchCategory
  <2> SUFFICES ASSUME IInv, NEW n \in notifications
               PROVE LET category == Catalog[CategoryOf[n.event]]
                         of == DeliveriesOf(n.id)
                     IN  /\ {d.channel : d \in of} = category.allows
                         /\ \A c, d \in of : c.channel = d.channel => c = d
                         /\ category.mandatory => \A d \in of : d.status = "pending"
    BY DEF DeliveriesMatchCategory, DeliveriesOf
  <2>1. PICK settings : DeliveriesOf(n.id)
                          = PlanDeliveries(Catalog[CategoryOf[n.event]], settings)
    BY DEF IInv, RowsInv, Plans
  <2>2. Catalog[CategoryOf[n.event]] \in CategoryRows
    BY ConsumerAssumption DEF IInv, RowsInv
  <2> QED BY <2>1, <2>2, PlanMatches
<1> QED BY <1>1, Invariance, PTL

-----------------------------------------------------------------------------
(* Refinement: the consumer keeps the contract of IntakeContract. *)

LEMMA InitContract == Init => Contract!Init
BY DEF Init, Contract!Init, StatusOf, Stored

\* Every step of the consumer is a step of the contract, or changes nothing it
\* speaks of.
LEMMA StepContract ==
  ASSUME IInv, IInv', [Next]_vars
  PROVE  [Contract!Next]_(Contract!cvars)
<1> TypeOK /\ PlacesInv /\ HandInv /\ RowsInv /\ (\A w \in Workers : CallInv(w))
  BY DEF IInv
<1> DEFINE status == [m \in Messages |-> StatusOf(m)]
           recorded == Stored \cup grouped
<1>1. ASSUME UNCHANGED <<acked, dlq, dropped, dbVars, outVars>>
      PROVE  UNCHANGED Contract!cvars
  BY <1>1 DEF Contract!cvars, StatusOf, Stored, dbVars, outVars
<1>2. ASSUME NEW m \in Messages, Reinject(m) PROVE Contract!Restore(m)
  <2>1. status[m] = "aside" /\ status' = [status EXCEPT ![m] = "pending"]
    BY <1>2 DEF Reinject, StatusOf, PlacesInv
  <2>2. UNCHANGED <<recorded, published>>
    BY <1>2 DEF Reinject, Stored, dbVars, outVars
  <2> QED BY <2>1, <2>2 DEF Contract!Restore
<1>3. ASSUME NEW w \in Workers, Work(w)
      PROVE  Contract!Next \/ UNCHANGED Contract!cvars
  <2> DEFINE m == msg[w]
             e == EventAt(w)
  <2>1. Busy(w) /\ m \in Messages /\ m \notin acked \cup dlq \cup dropped
    BY <1>3, WorkIsCallOrSettle DEF Calling, HandInv, Held, PlacesInv
  <2>2. status[m] = "pending" /\ EventOf[m] = e
    BY <2>1 DEF StatusOf, EventAt
  <2>3. CASE Commit(w)
    <3>1. e \in Events /\ e \notin recorded
      BY <2>3 DEF Commit, CallInv, InTransaction, InExecute, AfterCategory, RowsInv
    <3>2. recorded' = recorded \cup {e} /\ UNCHANGED <<status, published>>
      BY <2>3, CommitStores DEF Commit, brokerVars, outVars, StatusOf
    <3>3. Contract!Record(m)
      BY <2>2, <3>1, <3>2, ConsumerAssumption DEF Contract!Record
    <3> QED BY <2>1, <3>3 DEF Contract!Next
  <2>4. CASE EnqueueOk(w) \/ EnqueueError(w)
    <3>1. e \in Events BY <2>4 DEF EnqueueOk, EnqueueError, CallInv
    <3>2. /\ recorded' = recorded \/ recorded' = recorded \cup {e}
          /\ UNCHANGED <<status, published>>
      BY <2>4 DEF EnqueueOk, EnqueueError, brokerVars, dbVars, Stored, StatusOf
    <3>3. CASE recorded' = recorded
      BY <3>2, <3>3 DEF Contract!cvars
    <3>4. CASE e \notin recorded /\ recorded' = recorded \cup {e}
      BY <2>1, <2>2, <3>1, <3>2, <3>4, ConsumerAssumption
         DEF Contract!Record, Contract!Next
    <3> QED BY <3>2, <3>3, <3>4
  <2>5. CASE Publish(w)
    <3>1. e \in Events /\ e \in recorded /\ published[e] = 0
      BY <2>5 DEF Publish, CallInv
    <3>2. published' = [published EXCEPT ![e] = 1] /\ UNCHANGED <<status, recorded>>
      BY <2>5, <3>1 DEF Publish, brokerVars, dbVars, Stored, StatusOf
    <3>3. Contract!Announce(e) BY <3>1, <3>2 DEF Contract!Announce
    <3> QED BY <3>1, <3>3 DEF Contract!Next
  <2>6. CASE Ack(w)
    <3>1. e \in recorded BY <2>6, <2>2 DEF Ack, CallInv, Kept
    <3>2. status' = [status EXCEPT ![m] = "confirmed"]
      BY <2>1, <2>6 DEF Ack, StatusOf
    <3>3. UNCHANGED <<recorded, published>>
      BY <2>6 DEF Ack, Done, Stored, dbVars, outVars
    <3>4. Contract!Confirm(m)
      BY <2>2, <3>1, <3>2, <3>3 DEF Contract!Confirm
    <3> QED BY <2>1, <3>4 DEF Contract!Next
  <2>7. CASE Reject(w)
    <3>1. status' = [status EXCEPT ![m] = "aside"]
      <4>1. CASE DeadLetter(m) BY <2>1, <2>7, <4>1 DEF Reject, DeadLetter, StatusOf
      <4>2. CASE Drop(m) BY <2>1, <2>7, <4>2 DEF Reject, Drop, StatusOf
      <4> QED BY <2>7, <4>1, <4>2 DEF Reject
    <3>2. UNCHANGED <<recorded, published>>
      BY <2>7 DEF Reject, Done, Stored, dbVars, outVars
    <3>3. Contract!SetAside(m) BY <2>2, <3>1, <3>2 DEF Contract!SetAside
    <3> QED BY <2>1, <3>3 DEF Contract!Next
  <2>8. CASE UNCHANGED <<acked, dlq, dropped, dbVars, outVars>>
    BY <1>1, <2>8
  <2> QED
    BY <1>3, <2>3, <2>4, <2>5, <2>6, <2>7, <2>8
       DEF Work, CallFails, FindCategory, FindUserSettings, InsertNotification,
         InsertDeliveries, StaleSettle, NackRequeue, Discard, Retry, GiveUp, Done,
         brokerVars
<1>4. CASE UNCHANGED vars BY <1>1, <1>4 DEF vars, brokerVars
<1>5. CASE \/ \E m \in Messages : Deliver(m)
           \/ \E w \in Workers, m \in Messages : Receive(w, m)
           \/ LoseConnection \/ Reconnect \/ Crash
  BY <1>1, <1>5 DEF Deliver, Receive, LoseConnection, Reconnect, Crash
<1> HIDE DEF status, recorded
<1> QED BY <1>2, <1>3, <1>4, <1>5 DEF Next, Contract!Next

\* The consumer implements the contract of the intake: no message is confirmed
\* before its event is kept, none is lost, none is announced twice.
THEOREM Refinement == Spec => ImplementsContract
<1>1. Spec => Contract!Spec
  BY InitContract, StepContract, Invariance, PTL DEF Spec, Contract!Spec
<1> QED BY <1>1 DEF ImplementsContract
=============================================================================
