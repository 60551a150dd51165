------------------------ MODULE NotificationDebouncer ------------------------
(***************************************************************************)
(* The grouping of bell events in Redis (notification_debouncer.go).  A    *)
(* worker of the consumer merges an event into the pending digest of its   *)
(* key (Enqueue: a Get, then a transaction); every two seconds the flusher *)
(* of each process turns the digests whose window is over into             *)
(* notifications (flushDue, flushOne), one process at a time per key under *)
(* a lock that expires.                                                    *)
(*                                                                         *)
(* Each call to Redis, and Execute, is a step of its own.  Time is not     *)
(* counted: a window, a lock or a TTL may end at any step where it is      *)
(* running.                                                                *)
(***************************************************************************)
EXTENDS Naturals, Sequences, SequencesExt

CONSTANTS
  Events,      \* comment and like events, one message each
  Keys,        \* sha1 of user, category and scope
  KeyOf,       \* notificationDebounceKey of an event
  Processes,   \* instances of the service, each with one flusher
  Workers,     \* the consumer's workers
  Home,        \* the process of a worker
  NoKey, NoEvent,
  LongOutage,  \* ten minutes may pass without an event nor a flush that works
  MaxFaults    \* bound: failed calls and crashes

ASSUME DebouncerAssumption ==
  /\ KeyOf \in [Events -> Keys] /\ Home \in [Workers -> Processes]
  /\ NoKey \notin Keys /\ NoEvent \notin Events
  /\ LongOutage \in BOOLEAN /\ MaxFaults \in Nat

VARIABLES
  \* RabbitMQ
  queue, acked,
  \* Redis
  data,        \* the pending digest of a key
  due,         \* its entry in notify:debounce:due: "none", "waiting" for the
               \* window to end, "due", or "late" after a failed flush
  lock,        \* the keys whose lock exists
  clock,       \* the next StartedAt
  \* Postgres
  digests,     \* the digests stored as notifications
  \* the workers: next call, event in hand, pending digest to write
  pc, ev, draft,
  \* the flushers: next call, keys still to visit, key in hand, digest read
  fpc, batch, at, got,
  faults,
  \* history: keys of which two copies were out at once or a flush was cut
  \* short, keys whose lock expired in the hands of a flusher, events that a TTL
  \* took away, events delivered again
  disturbed, lapsed, expired, redelivered

redisVars == <<data, due, lock, clock>>
workVars  == <<pc, ev, draft>>
flushVars == <<fpc, batch, at, got>>
vars == <<queue, acked, redisVars, digests, workVars, flushVars, faults,
          disturbed, lapsed, expired, redelivered>>

\* A pending digest: the events merged, in order, and StartedAt.  Count is the
\* length, Event the last one, and the actors are those of the events.
Pending == [events: Seq(Events), started: Nat]
Absent  == [events |-> <<>>, started |-> 0]
Present(k) == data[k].events # <<>>

TypeOK ==
  /\ queue \subseteq Events /\ acked \subseteq Events
  /\ data \in [Keys -> Pending]
  /\ due \in [Keys -> {"none", "waiting", "due", "late"}]
  /\ lock \subseteq Keys
  /\ clock \in Nat
  /\ digests \subseteq [key: Keys, pending: Pending]
  /\ pc \in [Workers -> {"idle", "read", "write", "ack"}]
  /\ ev \in [Workers -> Events \cup {NoEvent}]
  /\ draft \in [Workers -> Pending]
  /\ fpc \in [Processes -> {"idle", "get", "execute", "retry", "delete",
                            "forget", "unlock"}]
  /\ batch \in [Processes -> SUBSET Keys]
  /\ at \in [Processes -> Keys \cup {NoKey}]
  /\ got \in [Processes -> Pending]
  /\ faults \in Nat
  /\ disturbed \subseteq Keys /\ lapsed \subseteq Keys
  /\ expired \subseteq Events /\ redelivered \subseteq Events

Init ==
  /\ queue = Events /\ acked = {}
  /\ data = [k \in Keys |-> Absent]
  /\ due = [k \in Keys |-> "none"]
  /\ lock = {} /\ clock = 0 /\ digests = {}
  /\ pc = [w \in Workers |-> "idle"]
  /\ ev = [w \in Workers |-> NoEvent]
  /\ draft = [w \in Workers |-> Absent]
  /\ fpc = [p \in Processes |-> "idle"]
  /\ batch = [p \in Processes |-> {}]
  /\ at = [p \in Processes |-> NoKey]
  /\ got = [p \in Processes |-> Absent]
  /\ faults = 0
  /\ disturbed = {} /\ lapsed = {} /\ expired = {} /\ redelivered = {}

Fault == faults < MaxFaults /\ faults' = faults + 1
KeyAt(w) == KeyOf[ev[w]]

\* Who holds a copy of a digest it is about to act on.
Writing(w, k)  == pc[w] = "write" /\ KeyAt(w) = k
Flushing(p, k) == at[p] = k /\ fpc[p] \in {"execute", "delete", "forget"}
Contended(k) ==
  \/ \E w \in Workers : Writing(w, k)
  \/ \E p \in Processes : Flushing(p, k)
\* History only: a copy is read while another one is out.
MarkIfContended(k) ==
  disturbed' = IF Contended(k) THEN disturbed \cup {k} ELSE disturbed

-----------------------------------------------------------------------------
(* Enqueue, and the answer the worker gives to the broker. *)

WorkerStep(w, call) ==
  /\ pc' = [pc EXCEPT ![w] = call]
  /\ UNCHANGED <<digests, flushVars, lapsed, expired>>

\* The worker is done with its event, which goes to acked or back to the queue.
Release(w) ==
  /\ ev' = [ev EXCEPT ![w] = NoEvent]
  /\ draft' = [draft EXCEPT ![w] = Absent]
  /\ WorkerStep(w, "idle")

\* Mutant: the worker forgets its event before it gives it back.
GiveBackTooLate(w) ==
  /\ Release(w)
  /\ queue' = queue \cup {ev'[w]}
  /\ redelivered' = redelivered \cup {ev[w]}

GiveBack(w) ==
  /\ queue' = queue \cup {ev[w]}
  /\ redelivered' = redelivered \cup {ev[w]}
  /\ Release(w)

Receive(w, e) ==
  /\ pc[w] = "idle" /\ e \in queue
  /\ queue' = queue \ {e}
  /\ ev' = [ev EXCEPT ![w] = e]
  /\ WorkerStep(w, "read")
  /\ UNCHANGED <<acked, redisVars, draft, faults, disturbed, redelivered>>

\* Mutant: the digest read is not the one written to.
MergeRestart(pending, e) == [events |-> <<e>>, started |-> clock]

\* What Enqueue makes of the digest it read: the first event of a window takes
\* the time as StartedAt, the others keep it.
Merge(pending, e) ==
  IF pending.events = <<>> THEN [events |-> <<e>>, started |-> clock]
  ELSE [pending EXCEPT !.events = Append(@, e)]

EnqueueRead(w) ==
  /\ pc[w] = "read"
  /\ draft' = [draft EXCEPT ![w] = Merge(data[KeyAt(w)], ev[w])]
  /\ clock' = IF Present(KeyAt(w)) THEN clock ELSE clock + 1
  /\ MarkIfContended(KeyAt(w))
  /\ WorkerStep(w, "write")
  /\ UNCHANGED <<queue, acked, data, due, lock, ev, faults, redelivered>>

\* Mutant: the transaction without its ZAdd.
StoreUnscheduled(w) ==
  /\ data' = [data EXCEPT ![KeyAt(w)] = draft[w]]
  /\ UNCHANGED <<due, lock, clock>>

\* Set and ZAdd in one transaction, from a copy that may be old by now.
Store(w) ==
  /\ data' = [data EXCEPT ![KeyAt(w)] = draft[w]]
  /\ due' = [due EXCEPT ![KeyAt(w)] = "waiting"]
  /\ UNCHANGED <<lock, clock>>

EnqueueWrite(w) ==
  /\ pc[w] = "write"
  /\ Store(w)
  /\ draft' = [draft EXCEPT ![w] = Absent]
  /\ WorkerStep(w, "ack")
  /\ UNCHANGED <<queue, acked, ev, faults, disturbed, redelivered>>

\* Redis answers Enqueue with an error, the transaction applied or not: the
\* consumer puts the message back.
EnqueueFails(w) ==
  /\ pc[w] \in {"read", "write"} /\ Fault
  /\ \/ UNCHANGED redisVars
     \/ pc[w] = "write" /\ Store(w)
  /\ GiveBack(w)
  /\ UNCHANGED <<acked, disturbed>>

Ack(w) ==
  /\ pc[w] = "ack"
  /\ acked' = acked \cup {ev[w]}
  /\ Release(w)
  /\ UNCHANGED <<queue, redisVars, faults, disturbed, redelivered>>

\* The connection was lost before the ack: the broker delivers it again.
AckLost(w) ==
  /\ pc[w] = "ack" /\ Fault
  /\ GiveBack(w)
  /\ UNCHANGED <<acked, redisVars, disturbed>>

-----------------------------------------------------------------------------
(* flushDue and flushOne. *)

FlusherStep(p, call) ==
  /\ fpc' = [fpc EXCEPT ![p] = call]
  /\ UNCHANGED <<queue, acked, workVars, clock, expired, redelivered>>

\* ZRangeByScore: the keys whose window is over (at most a hundred).
Lookup(p) ==
  /\ fpc[p] = "idle" /\ batch[p] = {}
  /\ \E k \in Keys : due[k] \in {"due", "late"}
  /\ batch' = [batch EXCEPT ![p] = {k \in Keys : due[k] \in {"due", "late"}}]
  /\ FlusherStep(p, "idle")
  /\ UNCHANGED <<data, due, lock, digests, at, got, faults, disturbed, lapsed>>

\* Mutant: Set instead of SetNX.
LockOver(p, k) ==
  /\ fpc[p] = "idle" /\ k \in batch[p]
  /\ batch' = [batch EXCEPT ![p] = @ \ {k}]
  /\ lock' = lock \cup {k}
  /\ at' = [at EXCEPT ![p] = k]
  /\ FlusherStep(p, "get")
  /\ UNCHANGED <<data, due, digests, got, faults, disturbed, lapsed>>

\* SetNX: the lock is taken, or the key is left for the next tick.
Lock(p, k) ==
  /\ fpc[p] = "idle" /\ k \in batch[p]
  /\ batch' = [batch EXCEPT ![p] = @ \ {k}]
  /\ \/ /\ k \notin lock
        /\ lock' = lock \cup {k}
        /\ at' = [at EXCEPT ![p] = k]
        /\ FlusherStep(p, "get")
        /\ UNCHANGED faults
     \/ /\ k \in lock
        /\ FlusherStep(p, "idle")
        /\ UNCHANGED <<lock, at, faults>>
     \/ /\ Fault              \* an error, the lock set or not
        /\ lock' \in {lock, lock \cup {k}}
        /\ FlusherStep(p, "idle")
        /\ UNCHANGED at
  /\ UNCHANGED <<data, due, digests, got, disturbed, lapsed>>

FlushGet(p) ==
  /\ fpc[p] = "get"
  /\ got' = [got EXCEPT ![p] = data[at[p]]]
  /\ MarkIfContended(at[p])
  /\ FlusherStep(p, IF Present(at[p]) THEN "execute" ELSE "forget")
  /\ UNCHANGED <<data, due, lock, digests, batch, at, faults, lapsed>>

\* A key whose data is gone leaves the due set, in a call of its own.
Forget(p) ==
  /\ fpc[p] = "forget"
  /\ due' = [due EXCEPT ![at[p]] = "none"]
  /\ FlusherStep(p, "unlock")
  /\ UNCHANGED <<data, lock, digests, batch, at, got, faults, disturbed, lapsed>>

\* The row of event_id digest:<key>:<StartedAt>, unless it is already there.
Digest(p) == [key |-> at[p], pending |-> got[p]]
IsStored(k, started) ==
  \E d \in digests : d.key = k /\ d.pending.started = started
\* Mutant: an EventID of its own for every flush.
SaveAlways(p) == digests' = digests \cup {Digest(p)}

Save(p) ==
  digests' = IF IsStored(at[p], got[p].started) THEN digests
             ELSE digests \cup {Digest(p)}

Execute(p) ==
  /\ fpc[p] = "execute"
  /\ Save(p)
  /\ FlusherStep(p, "delete")
  /\ UNCHANGED <<data, due, lock, batch, at, got, faults, disturbed, lapsed>>

\* Mutant: the error of Execute is logged and the digest deleted.
ExecuteFailsDeleted(p) ==
  /\ fpc[p] = "execute" /\ Fault
  /\ UNCHANGED <<digests, disturbed>>
  /\ FlusherStep(p, "delete")
  /\ UNCHANGED <<data, due, lock, batch, at, got, lapsed>>

\* Execute returns an error, the transaction committed or not.
ExecuteFails(p) ==
  /\ fpc[p] = "execute" /\ Fault
  /\ \/ UNCHANGED <<digests, disturbed>>
     \/ Save(p) /\ disturbed' = disturbed \cup {at[p]}
  /\ FlusherStep(p, "retry")
  /\ UNCHANGED <<data, due, lock, batch, at, got, lapsed>>

\* Mutant: ZRem instead of ZAdd.
RetryNever(p) ==
  /\ fpc[p] = "retry"
  /\ due' = [due EXCEPT ![at[p]] = "none"]
  /\ FlusherStep(p, "unlock")
  /\ UNCHANGED <<data, lock, digests, batch, at, got, faults, disturbed, lapsed>>

\* ZAdd five seconds ahead.
RetryLater(p) ==
  /\ fpc[p] = "retry"
  /\ due' = [due EXCEPT ![at[p]] = "late"]
  /\ FlusherStep(p, "unlock")
  /\ UNCHANGED <<data, lock, digests, batch, at, got, faults, disturbed, lapsed>>

\* Del and ZRem in one transaction, whatever the key holds by now.
Delete(p) ==
  /\ fpc[p] = "delete"
  /\ data' = [data EXCEPT ![at[p]] = Absent]
  /\ due' = [due EXCEPT ![at[p]] = "none"]
  /\ FlusherStep(p, "unlock")
  /\ UNCHANGED <<lock, digests, batch, at, got, faults, disturbed, lapsed>>

\* Del of the lock, whoever owns it by now.
Unlock(p) ==
  /\ fpc[p] = "unlock"
  /\ lock' = lock \ {at[p]}
  /\ at' = [at EXCEPT ![p] = NoKey]
  /\ got' = [got EXCEPT ![p] = Absent]
  /\ FlusherStep(p, "idle")
  /\ UNCHANGED <<data, due, digests, batch, faults, disturbed, lapsed>>

\* A call of the flusher to Redis fails; its error is not looked at.
FlushCallFails(p) ==
  /\ Fault
  /\ \/ /\ fpc[p] \in {"get", "forget", "retry", "delete"}
        /\ FlusherStep(p, "unlock")
        /\ disturbed' = IF fpc[p] = "delete" THEN disturbed \cup {at[p]} ELSE disturbed
        /\ UNCHANGED <<at, got>>
     \/ /\ fpc[p] = "unlock"
        /\ at' = [at EXCEPT ![p] = NoKey]
        /\ got' = [got EXCEPT ![p] = Absent]
        /\ FlusherStep(p, "idle")
        /\ UNCHANGED disturbed
  /\ UNCHANGED <<data, due, lock, digests, batch, lapsed>>

-----------------------------------------------------------------------------
(* Time and crashes. *)

\* The window of a key is over.
Elapse(k) ==
  /\ due[k] = "waiting"
  /\ due' = [due EXCEPT ![k] = "due"]
  /\ UNCHANGED <<queue, acked, data, lock, clock, digests, workVars, flushVars, faults,
                 disturbed, lapsed, expired, redelivered>>

\* Mutant: a lock without expiry.
LockStays(k) == FALSE

\* The fifteen seconds of a lock are over; Execute has no such limit.
LockExpires(k) ==
  /\ k \in lock
  /\ lock' = lock \ {k}
  /\ lapsed' = IF \E p \in Processes : at[p] = k THEN lapsed \cup {k} ELSE lapsed
  /\ UNCHANGED <<queue, acked, data, due, clock, digests, workVars, flushVars, faults,
                 disturbed, expired, redelivered>>

\* The ten minutes since the last event are over, whether flushes failed or none
\* was tried; the window of one minute ended before.
DataExpires(k) ==
  /\ LongOutage
  /\ Present(k) /\ due[k] # "waiting"
  /\ data' = [data EXCEPT ![k] = Absent]
  /\ expired' = expired \cup ToSet(data[k].events)
  /\ UNCHANGED <<queue, acked, due, lock, clock, digests, workVars, flushVars, faults,
                 disturbed, lapsed, redelivered>>

\* A process dies: the broker takes back the events in its workers' hands, and
\* the lock its flusher held stays until it expires.
Crash(p) ==
  LET died == {w \in Workers : Home[w] = p}
      held == {ev[w] : w \in {v \in died : pc[v] # "idle"}}
  IN  /\ Fault
      /\ queue' = queue \cup held
      /\ redelivered' = redelivered \cup held
      /\ pc' = [w \in Workers |-> IF w \in died THEN "idle" ELSE pc[w]]
      /\ ev' = [w \in Workers |-> IF w \in died THEN NoEvent ELSE ev[w]]
      /\ draft' = [w \in Workers |-> IF w \in died THEN Absent ELSE draft[w]]
      /\ disturbed' = IF fpc[p] = "delete" THEN disturbed \cup {at[p]} ELSE disturbed
      /\ fpc' = [fpc EXCEPT ![p] = "idle"]
      /\ batch' = [batch EXCEPT ![p] = {}]
      /\ at' = [at EXCEPT ![p] = NoKey]
      /\ got' = [got EXCEPT ![p] = Absent]
      /\ UNCHANGED <<acked, redisVars, digests, lapsed, expired>>

-----------------------------------------------------------------------------
Enqueue(w) ==
  \/ \E e \in Events : Receive(w, e)
  \/ EnqueueRead(w) \/ EnqueueWrite(w) \/ EnqueueFails(w) \/ Ack(w) \/ AckLost(w)

FlushDue(p) ==
  \/ Lookup(p) \/ \E k \in Keys : Lock(p, k)
  \/ FlushGet(p) \/ Forget(p) \/ Execute(p) \/ ExecuteFails(p) \/ RetryLater(p)
  \/ Delete(p) \/ Unlock(p) \/ FlushCallFails(p)

Next ==
  \/ \E w \in Workers : Enqueue(w)
  \/ \E p \in Processes : FlushDue(p) \/ Crash(p)
  \/ \E k \in Keys : Elapse(k) \/ LockExpires(k) \/ DataExpires(k)

Spec == Init /\ [][Next]_vars

\* Workers and flushers go on (every Redis call has a timeout), and windows and
\* locks end.
Fairness ==
  /\ \A w \in Workers : WF_vars(Enqueue(w))
  /\ \A p \in Processes : WF_vars(FlushDue(p))
  /\ \A k \in Keys : WF_vars(Elapse(k)) /\ WF_vars(LockExpires(k))

FairSpec == Spec /\ Fairness

-----------------------------------------------------------------------------
(* Properties. *)

InDigest(e) == \E d \in digests : e \in ToSet(d.pending.events)
Grouped(e)  == e \in ToSet(data[KeyOf[e]].events)

\* While no copy of a key's digest is read during the life of another copy, and
\* no flush of it is cut between its commit and its delete, every confirmed
\* event is in the digest or in a notification, unless it was in Redis when the
\* ten minutes of its key were over.
QuietKeysLoseNothing ==
  \A e \in acked : KeyOf[e] \notin disturbed =>
    Grouped(e) \/ InDigest(e) \/ e \in expired

\* A digest with events, of a key without such overlaps and cuts, has a date in
\* the due set: flushers do not pass it by until its TTL deletes it.
QuietKeysAreScheduled ==
  \A k \in Keys : Present(k) /\ k \notin disturbed => due[k] # "none"

\* The lock keeps a key to one flusher, unless it expired under one.
LockExcludes ==
  \A p, q \in Processes :
    at[p] = at[q] /\ at[p] # NoKey /\ at[p] \notin lapsed => p = q

\* Races between workers and flushers lose events and never multiply them: one
\* that was delivered once is counted at most once.
CountedOnce ==
  \A e \in Events \ redelivered :
    \A c, d \in digests :
      \A i \in DOMAIN c.pending.events, j \in DOMAIN d.pending.events :
        c.pending.events[i] = e /\ d.pending.events[j] = e => c = d /\ i = j

\* Unless an outage outlasts its TTL, a digest of an undisturbed key leaves
\* Redis only once it is a notification.
PendingLeavesAsDigest ==
  [][\A k \in Keys :
       Present(k) /\ ~Present(k)' /\ k \notin disturbed
         => IsStored(k, data[k].started)]_vars

\* Every digest is flushed in the end, through failed calls, crashes and locks
\* left behind.
EveryPendingLeaves == \A k \in Keys : Present(k) ~> ~Present(k)

\* "Un evento, una notificacion", read as a promise to every confirmed event.
NothingIsLost == \A e \in acked : Grouped(e) \/ InDigest(e)

\* An event waits in Redis for a window of inactivity and no longer.  With one
\* process: two of them leave a digest without a date when one forgets a key
\* that another has just written.
PendingIsScheduled == \A k \in Keys : Present(k) => due[k] # "none"
=============================================================================
