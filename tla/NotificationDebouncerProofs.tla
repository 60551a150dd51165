--------------------- MODULE NotificationDebouncerProofs ---------------------
(***************************************************************************)
(* Theorems about NotificationDebouncer, for every set of events, keys,    *)
(* workers and processes.  They rest on one inductive invariant, IInv.     *)
(***************************************************************************)
EXTENDS NotificationDebouncer, TLAPS

-----------------------------------------------------------------------------
(* The inductive invariant. *)

\* A busy worker has an event in hand, and no event is in
\* two hands, nor in a hand and in the queue.
HandInv ==
  /\ \A w \in Workers : pc[w] # "idle" => ev[w] \in Events \ queue
  /\ \A v, w \in Workers : pc[v] # "idle" /\ pc[w] # "idle" /\ ev[v] = ev[w] => v = w

\* A flusher has a key in hand exactly while it is busy; the lock of a key in
\* hand exists, and is of one flusher, unless it lapsed.
LockInv ==
  /\ \A p \in Processes : at[p] = NoKey <=> fpc[p] = "idle"
  /\ \A p \in Processes : at[p] # NoKey => at[p] \in lock \cup lapsed
  /\ LockExcludes
GotInv ==
  /\ \A p \in Processes : fpc[p] \in {"idle", "get"} => got[p] = Absent
  /\ \A p \in Processes : fpc[p] = "execute" => got[p].events # <<>>
  /\ \A d \in digests : d.pending.events # <<>>

\* StartedAt is behind the clock in every copy of a digest.
Copies ==
  {data[k] : k \in Keys} \cup {draft[w] : w \in Workers}
  \cup {got[p] : p \in Processes} \cup {d.pending : d \in digests}
ClockInv == \A c \in Copies : c.events # <<>> => c.started < clock

\* A digest holds events of its own key.
OfKey(events, k) == \A i \in DOMAIN events : KeyOf[events[i]] = k
KeyInv ==
  /\ \A k \in Keys : OfKey(data[k].events, k)
  /\ \A w \in Workers : pc[w] = "write" => OfKey(draft[w].events, KeyAt(w))
  /\ \A p \in Processes : at[p] # NoKey => OfKey(got[p].events, at[p])
  /\ \A d \in digests : OfKey(d.pending.events, d.key)

\* An event delivered once is in no copy until it is read, and every copy has
\* it at the same place of the same digest.
Fresh(e) == e \in queue \/ \E w \in Workers : pc[w] = "read" /\ ev[w] = e
CopyInv ==
  /\ \A c, d \in Copies :
       \A i \in DOMAIN c.events, j \in DOMAIN d.events :
         c.events[i] = d.events[j] /\ c.events[i] \notin redelivered
           => c.started = d.started /\ i = j
  /\ \A c \in Copies : \A i \in DOMAIN c.events :
       c.events[i] \notin redelivered => ~Fresh(c.events[i])
  /\ \A c, d \in digests :
       c.key = d.key /\ c.pending.started = d.pending.started => c = d

\* An undisturbed key has one copy out at most, that copy is up to date unless
\* the TTL ran out meanwhile, and what left its digest is stored or expired.
Safe(e) == Grouped(e) \/ InDigest(e) \/ e \in expired
QuietInv(k) ==
  /\ \A v, w \in Workers : Writing(v, k) /\ Writing(w, k) => v = w
  /\ \A p, q \in Processes : Flushing(p, k) /\ Flushing(q, k) => p = q
  /\ \A w \in Workers, p \in Processes : ~(Writing(w, k) /\ Flushing(p, k))
  /\ \A w \in Workers : Writing(w, k) =>
       /\ ToSet(data[k].events) \cup {ev[w]} \subseteq ToSet(draft[w].events)
       /\ ~IsStored(k, draft[w].started)
  /\ \A p \in Processes : Flushing(p, k) =>
       /\ Present(k) => got[p] = data[k] /\ fpc[p] # "forget"
       /\ fpc[p] = "execute" => ~IsStored(k, got[p].started)
       /\ fpc[p] = "delete" => Digest(p) \in digests
  /\ Present(k) /\ IsStored(k, data[k].started) =>
       \E p \in Processes : Flushing(p, k) /\ fpc[p] = "delete"
  /\ Present(k) => due[k] # "none"
  /\ \A e \in acked : KeyOf[e] = k => Safe(e)
  /\ \A w \in Workers : pc[w] = "ack" /\ KeyAt(w) = k => Safe(ev[w])

IInv ==
  /\ TypeOK
  /\ HandInv
  /\ LockInv
  /\ GotInv
  /\ ClockInv
  /\ KeyInv
  /\ CopyInv
  /\ \A k \in Keys \ disturbed : QuietInv(k)

-----------------------------------------------------------------------------
(* Type correctness, hands and locks. *)

LEMMA MergeTyped ==
  ASSUME NEW pending \in Pending, NEW e \in Events, clock \in Nat
  PROVE  /\ Merge(pending, e) \in Pending
         /\ Merge(pending, e).events = Append(pending.events, e)
         /\ Merge(pending, e).started
              = IF pending.events = <<>> THEN clock ELSE pending.started
<1>1. CASE pending.events = <<>>
  BY <1>1 DEF Merge, Pending
<1>2. CASE pending.events # <<>>
  BY <1>2 DEF Merge, Pending
<1> QED BY <1>1, <1>2

LEMMA AbsentTyped == Absent \in Pending /\ Absent.events = <<>>
BY DEF Absent, Pending

LEMMA TypeStep ==
  ASSUME IInv, [Next]_vars
  PROVE  TypeOK'
<1> TypeOK /\ HandInv /\ LockInv BY DEF IInv
<1> Absent \in Pending BY AbsentTyped
<1> USE DEF TypeOK
<1>1. ASSUME NEW w \in Workers, Enqueue(w) PROVE TypeOK'
  <2> USE DEF WorkerStep, Release, GiveBack, Fault, redisVars, flushVars
  <2>1. pc[w] # "idle" => ev[w] \in Events /\ KeyAt(w) \in Keys
    BY DebouncerAssumption DEF HandInv, KeyAt
  <2>2. CASE \E e \in Events : Receive(w, e) BY <2>2 DEF Receive
  <2>3. CASE EnqueueRead(w)
    <3>1. Merge(data[KeyAt(w)], ev[w]) \in Pending
      BY <2>1, <2>3, MergeTyped DEF EnqueueRead
    <3>2. disturbed' \subseteq Keys
      BY <2>1, <2>3 DEF EnqueueRead, MarkIfContended
    <3> QED BY <2>1, <2>3, <3>1, <3>2 DEF EnqueueRead
  <2>4. CASE EnqueueWrite(w)
    BY <2>1, <2>4 DEF EnqueueWrite, Store
  <2>5. CASE EnqueueFails(w)
    BY <2>1, <2>5 DEF EnqueueFails, Store
  <2>6. CASE Ack(w) BY <2>1, <2>6 DEF Ack
  <2>7. CASE AckLost(w) BY <2>1, <2>7 DEF AckLost
  <2> HIDE DEF TypeOK
  <2> QED BY <1>1, <2>2, <2>3, <2>4, <2>5, <2>6, <2>7 DEF Enqueue
<1>2. ASSUME NEW p \in Processes, FlushDue(p) PROVE TypeOK'
  <2> USE DEF FlusherStep, Fault, workVars
  <2>1. fpc[p] # "idle" => at[p] \in Keys BY DEF LockInv
  <2>2. CASE Lookup(p) BY <2>2 DEF Lookup
  <2>3. ASSUME NEW k \in Keys, Lock(p, k) PROVE TypeOK' BY <2>3 DEF Lock
  <2>4. CASE FlushGet(p)
    BY <2>1, <2>4 DEF FlushGet, MarkIfContended
  <2>5. CASE Forget(p) BY <2>1, <2>5 DEF Forget
  <2>6. CASE Execute(p) BY <2>1, <2>6 DEF Execute, Save, Digest
  <2>7. CASE ExecuteFails(p) BY <2>1, <2>7 DEF ExecuteFails, Save, Digest
  <2>8. CASE RetryLater(p) BY <2>1, <2>8 DEF RetryLater
  <2>9. CASE Delete(p) BY <2>1, <2>9 DEF Delete
  <2>10. CASE Unlock(p) BY <2>1, <2>10 DEF Unlock
  <2>11. CASE FlushCallFails(p) BY <2>1, <2>11 DEF FlushCallFails
  <2> HIDE DEF TypeOK
  <2> QED BY <1>2, <2>2, <2>3, <2>4, <2>5, <2>6, <2>7, <2>8, <2>9, <2>10, <2>11
          DEF FlushDue
<1>3. ASSUME NEW k \in Keys, Elapse(k) \/ LockExpires(k) \/ DataExpires(k) PROVE TypeOK'
  <2>1. ToSet(data[k].events) \subseteq Events BY DEF Pending, ToSet
  <2> QED BY <1>3, <2>1 DEF Elapse, LockExpires, DataExpires, redisVars, workVars, flushVars
<1>4. ASSUME NEW p \in Processes, Crash(p) PROVE TypeOK'
  <2> DEFINE held == {ev[w] : w \in {v \in {u \in Workers : Home[u] = p} : pc[v] # "idle"}}
  <2>1. held \subseteq Events BY DEF HandInv
  <2>2. fpc[p] = "delete" => at[p] \in Keys BY DEF LockInv
  <2>3. queue' = queue \cup held /\ redelivered' = redelivered \cup held
    BY <1>4 DEF Crash
  <2> HIDE DEF held
  <2> QED BY <1>4, <2>1, <2>2, <2>3 DEF Crash, Fault, redisVars
<1>5. CASE UNCHANGED vars
  BY <1>5 DEF vars, redisVars, workVars, flushVars
<1> QED BY <1>1, <1>2, <1>3, <1>4, <1>5 DEF Next

LEMMA HandStep ==
  ASSUME IInv, [Next]_vars
  PROVE  HandInv'
<1> TypeOK /\ HandInv BY DEF IInv
<1> USE DEF HandInv, TypeOK
<1>1. ASSUME NEW w \in Workers, Enqueue(w) PROVE HandInv'
  <2>1. ASSUME NEW e \in Events, Receive(w, e) PROVE HandInv'
    BY <2>1 DEF Receive, WorkerStep
  <2>2. CASE EnqueueRead(w) BY <2>2 DEF EnqueueRead, WorkerStep
  <2>3. CASE EnqueueWrite(w) BY <2>3 DEF EnqueueWrite, WorkerStep
  <2>4. CASE EnqueueFails(w) BY <2>4 DEF EnqueueFails, GiveBack, Release, WorkerStep
  <2>5. CASE Ack(w) BY <2>5 DEF Ack, Release, WorkerStep
  <2>6. CASE AckLost(w) BY <2>6 DEF AckLost, GiveBack, Release, WorkerStep
  <2> QED BY <1>1, <2>1, <2>2, <2>3, <2>4, <2>5, <2>6 DEF Enqueue
<1>2. ASSUME NEW p \in Processes, FlushDue(p) PROVE HandInv'
  BY <1>2 DEF FlushDue, Lookup, Lock, FlushGet, Forget, Execute, ExecuteFails,
              RetryLater, Delete, Unlock, FlushCallFails, FlusherStep, workVars
<1>3. ASSUME NEW k \in Keys, Elapse(k) \/ LockExpires(k) \/ DataExpires(k) PROVE HandInv'
  BY <1>3 DEF Elapse, LockExpires, DataExpires, workVars
<1>4. ASSUME NEW p \in Processes, Crash(p) PROVE HandInv'
  BY <1>4 DEF Crash
<1>5. CASE UNCHANGED vars
  BY <1>5 DEF vars, workVars
<1> QED BY <1>1, <1>2, <1>3, <1>4, <1>5 DEF Next

LEMMA LockStep ==
  ASSUME IInv, [Next]_vars
  PROVE  LockInv'
<1> TypeOK /\ LockInv BY DEF IInv
<1> USE DEF LockInv, LockExcludes, TypeOK
<1>1. ASSUME NEW w \in Workers, Enqueue(w) PROVE LockInv'
  <2>1. UNCHANGED <<fpc, at, lock, lapsed>>
    BY <1>1 DEF Enqueue, Receive, EnqueueRead, EnqueueWrite, EnqueueFails, Ack, AckLost,
         GiveBack, Release, WorkerStep, Store, redisVars, flushVars
  <2> QED BY <2>1
<1>2. ASSUME NEW p \in Processes, FlushDue(p) PROVE LockInv'
  <2> USE DEF FlusherStep
  <2>1. CASE Lookup(p) BY <2>1 DEF Lookup
  <2>2. ASSUME NEW k \in Keys, Lock(p, k) PROVE LockInv'
    BY <2>2, DebouncerAssumption DEF Lock
  <2>3. CASE FlushGet(p) BY <2>3 DEF FlushGet
  <2>4. CASE Forget(p) BY <2>4 DEF Forget
  <2>5. CASE Execute(p) BY <2>5 DEF Execute
  <2>6. CASE ExecuteFails(p) BY <2>6 DEF ExecuteFails
  <2>7. CASE RetryLater(p) BY <2>7 DEF RetryLater
  <2>8. CASE Delete(p) BY <2>8 DEF Delete
  <2>9. CASE Unlock(p) BY <2>9 DEF Unlock
  <2>10. CASE FlushCallFails(p) BY <2>10 DEF FlushCallFails
  <2> QED BY <1>2, <2>1, <2>2, <2>3, <2>4, <2>5, <2>6, <2>7, <2>8, <2>9, <2>10
          DEF FlushDue
<1>3. ASSUME NEW k \in Keys, Elapse(k) \/ DataExpires(k) PROVE LockInv'
  BY <1>3 DEF Elapse, DataExpires, flushVars
<1>4. ASSUME NEW k \in Keys, LockExpires(k) PROVE LockInv'
  BY <1>4 DEF LockExpires, flushVars
<1>5. ASSUME NEW p \in Processes, Crash(p) PROVE LockInv'
  BY <1>5 DEF Crash, redisVars
<1>6. CASE UNCHANGED vars
  BY <1>6 DEF vars, redisVars, flushVars
<1> QED BY <1>1, <1>2, <1>3, <1>4, <1>5, <1>6 DEF Next

LEMMA GotStep ==
  ASSUME IInv, [Next]_vars
  PROVE  GotInv'
<1> TypeOK /\ GotInv BY DEF IInv
<1> USE DEF GotInv, TypeOK
<1>1. ASSUME NEW w \in Workers, Enqueue(w) PROVE GotInv'
  <2>1. UNCHANGED <<fpc, got, digests>>
    BY <1>1 DEF Enqueue, Receive, EnqueueRead, EnqueueWrite, EnqueueFails, Ack, AckLost,
         GiveBack, Release, WorkerStep, flushVars
  <2> QED BY <2>1
<1>2. ASSUME NEW p \in Processes, FlushDue(p) PROVE GotInv'
  <2>1. CASE Execute(p) \/ ExecuteFails(p)
    <3>1. /\ fpc[p] = "execute" /\ got' = got
          /\ fpc' \in {[fpc EXCEPT ![p] = "delete"], [fpc EXCEPT ![p] = "retry"]}
          /\ digests' \subseteq digests \cup {Digest(p)}
      BY <2>1 DEF Execute, ExecuteFails, Save, FlusherStep
    <3>2. Digest(p).pending = got[p] BY DEF Digest
    <3> QED BY <3>1, <3>2
  <2>2. CASE FlushGet(p) BY <2>2 DEF FlushGet, FlusherStep, Present
  <2>3. CASE Lookup(p) \/ \E k \in Keys : Lock(p, k)
    BY <2>3 DEF Lookup, Lock, FlusherStep
  <2>4. CASE Forget(p) \/ RetryLater(p) \/ Delete(p)
    BY <2>4 DEF Forget, RetryLater, Delete, FlusherStep
  <2>5. CASE Unlock(p) \/ FlushCallFails(p)
    BY <2>5 DEF Unlock, FlushCallFails, FlusherStep
  <2> QED BY <1>2, <2>1, <2>2, <2>3, <2>4, <2>5 DEF FlushDue
<1>3. ASSUME NEW k \in Keys, Elapse(k) \/ LockExpires(k) \/ DataExpires(k) PROVE GotInv'
  BY <1>3 DEF Elapse, LockExpires, DataExpires, flushVars
<1>4. ASSUME NEW p \in Processes, Crash(p) PROVE GotInv'
  BY <1>4 DEF Crash
<1>5. CASE UNCHANGED vars
  BY <1>5 DEF vars, flushVars
<1> QED BY <1>1, <1>2, <1>3, <1>4, <1>5 DEF Next

-----------------------------------------------------------------------------
(* Copies of a digest. *)

\* The steps that leave every copy and the clock where they are.
Still == UNCHANGED <<data, draft, got, digests, clock>>

\* No step makes a copy with new content, except the read of Enqueue, whose
\* draft is the merge of the digest it found with an event not yet counted.
LEMMA CopiesStep ==
  ASSUME IInv, [Next]_vars,
         \A w \in Workers : ~EnqueueRead(w)
  PROVE  /\ Copies' \subseteq Copies \cup {Absent}
         /\ clock' = clock
<1> TypeOK BY DEF IInv
<1> USE DEF TypeOK
<1>0. CASE Still BY <1>0 DEF Still, Copies
<1>1. ASSUME NEW w \in Workers, Enqueue(w)
      PROVE  Copies' \subseteq Copies \cup {Absent} /\ clock' = clock
  <2>1. /\ UNCHANGED <<got, digests, clock>>
        /\ data' = data \/ data' = [data EXCEPT ![KeyAt(w)] = draft[w]]
        /\ draft' = draft \/ draft' = [draft EXCEPT ![w] = Absent]
    BY <1>1 DEF Enqueue, Receive, EnqueueRead, EnqueueWrite, EnqueueFails, Ack, AckLost,
         GiveBack, Release, WorkerStep, Store, redisVars, flushVars
  <2>2. \A k \in Keys : data'[k] \in {data[k], draft[w]} BY <2>1
  <2>3. \A v \in Workers : draft'[v] \in {draft[v], Absent} BY <2>1
  <2> QED BY <2>1, <2>2, <2>3 DEF Copies
<1>2. ASSUME NEW p \in Processes, FlushDue(p)
      PROVE  Copies' \subseteq Copies \cup {Absent} /\ clock' = clock
  <2>1. CASE FlushGet(p)
    <3>1. at[p] \in Keys BY <2>1 DEF FlushGet, IInv, LockInv
    <3>2. UNCHANGED <<data, draft, digests, clock>>
      BY <2>1 DEF FlushGet, FlusherStep, workVars
    <3>3. \A q \in Processes : got'[q] \in {got[q], data[at[p]]} BY <2>1 DEF FlushGet
    <3> QED BY <3>1, <3>2, <3>3 DEF Copies
  <2>2. CASE Execute(p) \/ ExecuteFails(p)
    <3>1. UNCHANGED <<data, draft, got, clock>>
      BY <2>2 DEF Execute, ExecuteFails, FlusherStep, workVars
    <3>2. digests' \subseteq digests \cup {Digest(p)}
      BY <2>2 DEF Execute, ExecuteFails, Save
    <3>3. Digest(p).pending = got[p] BY DEF Digest
    <3>4. \A d \in digests' : d.pending = got[p] \/ d \in digests BY <3>2, <3>3
    <3> QED BY <3>1, <3>4 DEF Copies
  <2>3. CASE Delete(p)
    <3>1. UNCHANGED <<draft, got, digests, clock>>
      BY <2>3 DEF Delete, FlusherStep, workVars
    <3>2. \A k \in Keys : data'[k] \in {data[k], Absent} BY <2>3 DEF Delete
    <3> QED BY <3>1, <3>2 DEF Copies
  <2>4. CASE Unlock(p) \/ FlushCallFails(p)
    <3>1. UNCHANGED <<data, draft, digests, clock>>
      BY <2>4 DEF Unlock, FlushCallFails, FlusherStep, workVars
    <3>2. \A q \in Processes : got'[q] \in {got[q], Absent}
      BY <2>4 DEF Unlock, FlushCallFails
    <3> QED BY <3>1, <3>2 DEF Copies
  <2>5. CASE Lookup(p) \/ (\E k \in Keys : Lock(p, k)) \/ Forget(p) \/ RetryLater(p)
    BY <1>0, <2>5 DEF Lookup, Lock, Forget, RetryLater, FlusherStep, workVars, Still
  <2> QED BY <1>2, <2>1, <2>2, <2>3, <2>4, <2>5 DEF FlushDue
<1>3. ASSUME NEW k \in Keys, DataExpires(k)
      PROVE  Copies' \subseteq Copies \cup {Absent} /\ clock' = clock
  <2>1. UNCHANGED <<draft, got, digests, clock>>
    BY <1>3 DEF DataExpires, workVars, flushVars
  <2>2. \A l \in Keys : data'[l] \in {data[l], Absent} BY <1>3 DEF DataExpires
  <2> QED BY <2>1, <2>2 DEF Copies
<1>4. ASSUME NEW p \in Processes, Crash(p)
      PROVE  Copies' \subseteq Copies \cup {Absent} /\ clock' = clock
  <2>1. UNCHANGED <<data, digests, clock>> BY <1>4 DEF Crash, redisVars
  <2>2. \A w \in Workers : draft'[w] \in {draft[w], Absent} BY <1>4 DEF Crash
  <2>3. \A q \in Processes : got'[q] \in {got[q], Absent} BY <1>4 DEF Crash
  <2> QED BY <2>1, <2>2, <2>3 DEF Copies
<1>5. CASE \E k \in Keys : Elapse(k) \/ LockExpires(k)
  BY <1>0, <1>5 DEF Elapse, LockExpires, workVars, flushVars, Still
<1>6. CASE UNCHANGED vars
  BY <1>0, <1>6 DEF vars, redisVars, workVars, flushVars, Still
<1> QED BY <1>1, <1>2, <1>3, <1>4, <1>5, <1>6 DEF Next

\* What the read of Enqueue adds to the copies.
LEMMA ReadStep ==
  ASSUME IInv, NEW w \in Workers, EnqueueRead(w)
  PROVE  LET found == data[KeyAt(w)]
             new == Merge(found, ev[w])
         IN  /\ KeyAt(w) \in Keys /\ ev[w] \in Events /\ found \in Copies
             /\ new.events = Append(found.events, ev[w])
             /\ new.started = IF found.events = <<>> THEN clock ELSE found.started
             /\ clock' = IF found.events = <<>> THEN clock + 1 ELSE clock
             /\ draft' = [draft EXCEPT ![w] = new]
             /\ UNCHANGED <<data, due, lock, got, digests, queue, ev, at, fpc, redelivered>>
             /\ Copies' \subseteq Copies \cup {new}
<1> DEFINE found == data[KeyAt(w)]
           new == Merge(found, ev[w])
<1> TypeOK BY DEF IInv
<1>1. KeyAt(w) \in Keys /\ ev[w] \in Events
  BY DebouncerAssumption DEF IInv, HandInv, EnqueueRead, KeyAt
<1>2. found \in Pending /\ clock \in Nat BY <1>1 DEF TypeOK
<1>3. found \in Copies BY <1>1 DEF Copies
<1>4. /\ draft' = [draft EXCEPT ![w] = new]
      /\ clock' = IF found.events = <<>> THEN clock + 1 ELSE clock
      /\ UNCHANGED <<data, due, lock, got, digests, queue, ev, at, fpc, redelivered>>
  BY DEF EnqueueRead, WorkerStep, flushVars, Present
<1> HIDE DEF new
<1>5. \A v \in Workers : draft'[v] \in {draft[v], new} BY <1>4 DEF TypeOK
<1>6. Copies' \subseteq Copies \cup {new} BY <1>4, <1>5 DEF Copies
<1>7. /\ new.events = Append(found.events, ev[w])
      /\ new.started = IF found.events = <<>> THEN clock ELSE found.started
  BY <1>1, <1>2, MergeTyped DEF new
<1> QED BY <1>1, <1>3, <1>4, <1>6, <1>7 DEF new

LEMMA ClockStep ==
  ASSUME IInv, [Next]_vars
  PROVE  ClockInv'
<1> TypeOK /\ ClockInv BY DEF IInv
<1>0. \A c \in Copies : c.started \in Nat
  BY DEF Copies, TypeOK, Pending
<1>1. CASE \A w \in Workers : ~EnqueueRead(w)
  <2>1. Copies' \subseteq Copies \cup {Absent} /\ clock' = clock BY <1>1, CopiesStep
  <2> QED BY <2>1, AbsentTyped DEF ClockInv
<1>2. ASSUME NEW w \in Workers, EnqueueRead(w) PROVE ClockInv'
  <2> DEFINE found == data[KeyAt(w)]
             new == Merge(found, ev[w])
  <2>1. /\ found \in Copies /\ Copies' \subseteq Copies \cup {new}
        /\ new.started = IF found.events = <<>> THEN clock ELSE found.started
        /\ clock' = IF found.events = <<>> THEN clock + 1 ELSE clock
    BY <1>2, ReadStep
  <2> HIDE DEF found, new
  <2>2. clock \in Nat /\ clock <= clock' BY <2>1 DEF TypeOK
  <2>3. new.started < clock' BY <1>0, <2>1, <2>2 DEF ClockInv
  <2> QED BY <1>0, <2>1, <2>2, <2>3 DEF ClockInv
<1> QED BY <1>1, <1>2

LEMMA KeyStep ==
  ASSUME IInv, [Next]_vars
  PROVE  KeyInv'
<1> TypeOK /\ KeyInv /\ HandInv /\ LockInv BY DEF IInv
<1> Absent.events = <<>> BY AbsentTyped
<1> USE DEF KeyInv, OfKey, KeyAt, TypeOK
<1>1. ASSUME NEW w \in Workers, Enqueue(w) PROVE KeyInv'
  <2> USE DEF WorkerStep, Release, GiveBack, Store, redisVars, flushVars
  <2>1. CASE \E e \in Events : Receive(w, e) BY <2>1 DEF Receive
  <2>2. CASE EnqueueRead(w)
    <3> DEFINE k == KeyAt(w)
               new == Merge(data[k], ev[w])
    <3>1. /\ k \in Keys /\ ev[w] \in Events
          /\ new.events = Append(data[k].events, ev[w])
          /\ draft' = [draft EXCEPT ![w] = new]
          /\ UNCHANGED <<data, got, digests, ev, at>>
      BY <2>2, ReadStep
    <3>2. data[k].events \in Seq(Events) BY <3>1 DEF Pending
    <3>3. OfKey(new.events, KeyOf[ev[w]])
      BY <3>1, <3>2
    <3>4. \A v \in Workers : v # w => pc'[v] = pc[v]
      BY <2>2 DEF EnqueueRead
    <3> HIDE DEF new
    <3>5. ASSUME NEW v \in Workers, pc'[v] = "write"
          PROVE  OfKey(draft'[v].events, KeyOf[ev'[v]])
      <4>1. CASE v = w BY <4>1, <3>1, <3>3
      <4>2. CASE v # w BY <4>2, <3>1, <3>4, <3>5
      <4> QED BY <4>1, <4>2
    <3> QED BY <3>1, <3>5
  <2>3. CASE EnqueueWrite(w) BY <2>3 DEF EnqueueWrite
  <2>4. CASE EnqueueFails(w) BY <2>4 DEF EnqueueFails
  <2>5. CASE Ack(w) BY <2>5 DEF Ack
  <2>6. CASE AckLost(w) BY <2>6 DEF AckLost
  <2> QED BY <1>1, <2>1, <2>2, <2>3, <2>4, <2>5, <2>6 DEF Enqueue
<1>2. ASSUME NEW p \in Processes, FlushDue(p) PROVE KeyInv'
  <2> USE DEF FlusherStep, workVars, LockInv
  <2>1. CASE Lookup(p) BY <2>1 DEF Lookup
  <2>2. ASSUME NEW k \in Keys, Lock(p, k) PROVE KeyInv'
    <3>1. got[p].events = <<>>
      BY <2>2 DEF Lock, IInv, GotInv
    <3> QED BY <2>2, <3>1 DEF Lock
  <2>3. CASE FlushGet(p) BY <2>3 DEF FlushGet
  <2>4. CASE Forget(p) BY <2>4 DEF Forget
  <2>5. CASE Execute(p) \/ ExecuteFails(p)
    <3>1. /\ Digest(p).key = at[p] /\ Digest(p).pending = got[p]
          /\ OfKey(got[p].events, at[p])
      BY <2>5 DEF Execute, ExecuteFails, Digest
    <3>2. digests' \subseteq digests \cup {Digest(p)}
      BY <2>5 DEF Execute, ExecuteFails, Save
    <3> QED BY <2>5, <3>1, <3>2 DEF Execute, ExecuteFails
  <2>6. CASE RetryLater(p) BY <2>6 DEF RetryLater
  <2>7. CASE Delete(p) BY <2>7 DEF Delete
  <2>8. CASE Unlock(p) BY <2>8 DEF Unlock
  <2>9. CASE FlushCallFails(p) BY <2>9 DEF FlushCallFails
  <2> QED BY <1>2, <2>1, <2>2, <2>3, <2>4, <2>5, <2>6, <2>7, <2>8, <2>9 DEF FlushDue
<1>3. ASSUME NEW k \in Keys, Elapse(k) \/ LockExpires(k) \/ DataExpires(k) PROVE KeyInv'
  BY <1>3 DEF Elapse, LockExpires, DataExpires, workVars, flushVars
<1>4. ASSUME NEW p \in Processes, Crash(p) PROVE KeyInv'
  BY <1>4 DEF Crash, redisVars
<1>5. CASE UNCHANGED vars
  BY <1>5 DEF vars, redisVars, workVars, flushVars
<1> QED BY <1>1, <1>2, <1>3, <1>4, <1>5 DEF Next

\* An event becomes fresh again only when it is delivered again.
LEMMA FreshStep ==
  ASSUME IInv, [Next]_vars
  PROVE  /\ redelivered \subseteq redelivered'
         /\ \A e : Fresh(e)' /\ e \notin redelivered' => Fresh(e)
<1> TypeOK BY DEF IInv
<1> USE DEF Fresh, TypeOK
<1> DEFINE Goal == /\ redelivered \subseteq redelivered'
                   /\ \A e : Fresh(e)' /\ e \notin redelivered' => Fresh(e)
<1>1. ASSUME NEW w \in Workers, Enqueue(w) PROVE Goal
  <2> USE DEF WorkerStep, Release, GiveBack
  <2>1. CASE \E e \in Events : Receive(w, e) BY <2>1 DEF Receive
  <2>2. CASE EnqueueRead(w) BY <2>2 DEF EnqueueRead
  <2>3. CASE EnqueueWrite(w) BY <2>3 DEF EnqueueWrite
  <2>4. CASE EnqueueFails(w) BY <2>4 DEF EnqueueFails
  <2>5. CASE Ack(w) BY <2>5 DEF Ack
  <2>6. CASE AckLost(w) BY <2>6 DEF AckLost
  <2> QED BY <1>1, <2>1, <2>2, <2>3, <2>4, <2>5, <2>6 DEF Enqueue
<1>2. ASSUME NEW p \in Processes, FlushDue(p) PROVE Goal
  BY <1>2 DEF FlushDue, Lookup, Lock, FlushGet, Forget, Execute, ExecuteFails,
              RetryLater, Delete, Unlock, FlushCallFails, FlusherStep, workVars
<1>3. ASSUME NEW k \in Keys, Elapse(k) \/ LockExpires(k) \/ DataExpires(k) PROVE Goal
  BY <1>3 DEF Elapse, LockExpires, DataExpires, workVars
<1>4. ASSUME NEW p \in Processes, Crash(p) PROVE Goal
  BY <1>4 DEF Crash
<1>5. CASE UNCHANGED vars
  BY <1>5 DEF vars, workVars
<1> QED BY <1>1, <1>2, <1>3, <1>4, <1>5 DEF Next

\* A digest is stored only where its id is free.
LEMMA DigestStep ==
  ASSUME IInv, [Next]_vars
  PROVE  \/ digests' = digests
         \/ \E p \in Processes :
              /\ digests' = digests \cup {Digest(p)}
              /\ ~IsStored(at[p], got[p].started)
              /\ fpc[p] = "execute" /\ (Execute(p) \/ ExecuteFails(p))
<1>1. ASSUME NEW w \in Workers, Enqueue(w) PROVE digests' = digests
  BY <1>1 DEF Enqueue, Receive, EnqueueRead, EnqueueWrite, EnqueueFails, Ack, AckLost,
         GiveBack, Release, WorkerStep
<1>2. ASSUME NEW p \in Processes, FlushDue(p)
      PROVE  \/ digests' = digests
             \/ /\ digests' = digests \cup {Digest(p)}
                /\ ~IsStored(at[p], got[p].started)
                /\ fpc[p] = "execute" /\ (Execute(p) \/ ExecuteFails(p))
  BY <1>2 DEF FlushDue, Lookup, Lock, FlushGet, Forget, Execute, ExecuteFails, Save,
              RetryLater, Delete, Unlock, FlushCallFails
<1> QED BY <1>1, <1>2
    DEF Next, Elapse, LockExpires, DataExpires, Crash, vars

LEMMA CopyStep ==
  ASSUME IInv, [Next]_vars
  PROVE  CopyInv'
<1> TypeOK /\ CopyInv /\ HandInv BY DEF IInv
<1>1. \A c, d \in digests' :
        c.key = d.key /\ c.pending.started = d.pending.started => c = d
  <2>1. CASE digests' = digests BY <2>1 DEF CopyInv
  <2>2. ASSUME NEW p \in Processes, digests' = digests \cup {Digest(p)},
               ~IsStored(at[p], got[p].started)
        PROVE  \A c, d \in digests' :
                 c.key = d.key /\ c.pending.started = d.pending.started => c = d
    <3>1. Digest(p).key = at[p] /\ Digest(p).pending = got[p] BY DEF Digest
    <3> QED BY <2>2, <3>1 DEF CopyInv, IsStored
  <2> QED BY <2>1, <2>2, DigestStep
<1>2. /\ redelivered \subseteq redelivered'
      /\ \A e : Fresh(e)' /\ e \notin redelivered' => Fresh(e)
  BY FreshStep
<1>3. CASE \A w \in Workers : ~EnqueueRead(w)
  <2>1. Copies' \subseteq Copies \cup {Absent} BY <1>3, CopiesStep
  <2>2. DOMAIN Absent.events = {} BY AbsentTyped
  <2> QED BY <1>1, <1>2, <2>1, <2>2 DEF CopyInv
<1>4. ASSUME NEW w \in Workers, EnqueueRead(w) PROVE CopyInv'
  <2>0. PICK e \in Events : e = ev[w] BY <1>4, ReadStep
  <2> DEFINE found == data[KeyAt(w)]
             new == Merge(found, e)
  <2>1. /\ KeyAt(w) \in Keys
        /\ found \in Copies /\ Copies' \subseteq Copies \cup {new}
        /\ new.events = Append(found.events, e)
        /\ new.started = IF found.events = <<>> THEN clock ELSE found.started
        /\ UNCHANGED <<queue, ev, redelivered>>
    BY <1>4, <2>0, ReadStep
  <2>2. found.events \in Seq(Events) BY <2>1 DEF TypeOK, Pending
  <2> HIDE DEF found, new
  <2>3. \A i \in DOMAIN new.events :
          \/ /\ i \in DOMAIN found.events /\ new.events[i] = found.events[i]
             /\ new.started = found.started
          \/ i = Len(found.events) + 1 /\ new.events[i] = e
    BY <2>1, <2>2
  <2>4. Fresh(e) BY <1>4, <2>0 DEF Fresh, EnqueueRead
  <2>5. ~Fresh(e)'
    <3>1. \A v \in Workers : pc'[v] = "read" => v # w /\ pc[v] = "read"
      BY <1>4 DEF EnqueueRead, WorkerStep, TypeOK
    <3>2. \A v \in Workers : pc[v] = "read" /\ v # w => ev[v] # e
      BY <1>4, <2>0 DEF HandInv, EnqueueRead
    <3>3. e \notin queue BY <1>4, <2>0 DEF HandInv, EnqueueRead
    <3> QED BY <2>1, <3>1, <3>2, <3>3 DEF Fresh
  <2>6. \A c \in Copies : \A i \in DOMAIN c.events :
          c.events[i] = e => e \in redelivered
    BY <2>4 DEF CopyInv
  <2>7. \A c, d \in Copies \cup {new} :
          \A i \in DOMAIN c.events, j \in DOMAIN d.events :
            c.events[i] = d.events[j] /\ c.events[i] \notin redelivered
              => c.started = d.started /\ i = j
    <3>1. ASSUME NEW d \in Copies, NEW i \in DOMAIN new.events, NEW j \in DOMAIN d.events,
                 new.events[i] = d.events[j], new.events[i] \notin redelivered
          PROVE  new.started = d.started /\ i = j
      BY <2>1, <2>3, <2>6, <3>1 DEF CopyInv
    <3>2. ASSUME NEW i \in DOMAIN new.events, NEW j \in DOMAIN new.events,
                 new.events[i] = new.events[j], new.events[i] \notin redelivered
          PROVE  i = j
      BY <2>1, <2>3, <2>6, <3>2 DEF CopyInv
    <3> QED BY <3>1, <3>2 DEF CopyInv
  <2>8. ASSUME NEW c \in Copies \cup {new}, NEW i \in DOMAIN c.events,
               c.events[i] \notin redelivered
        PROVE  ~Fresh(c.events[i])'
    <3>1. PICK f : f = c.events[i] OBVIOUS
    <3>2. CASE f = e BY <2>5, <3>1, <3>2
    <3>3. CASE f # e
      <4>1. ~Fresh(f) BY <2>1, <2>3, <2>8, <3>1, <3>3 DEF CopyInv
      <4>2. ~Fresh(f)' BY <1>2, <2>1, <2>8, <3>1, <4>1
      <4> QED BY <3>1, <4>2
    <3> QED BY <3>2, <3>3
  <2> QED BY <1>1, <2>1, <2>7, <2>8 DEF CopyInv
<1> QED BY <1>3, <1>4

-----------------------------------------------------------------------------
(* Undisturbed keys. *)

\* What a step may do to a key it does not work on: copies may be given up, but
\* none is taken, and a flusher about to delete stays.
LEMMA QuietFrame ==
  ASSUME NEW k \in Keys, QuietInv(k),
         \/ data'[k] = data[k]
         \/ data'[k] = Absent /\ ToSet(data[k].events) \subseteq expired',
         due'[k] = due[k] \/ due'[k] # "none",
         digests \subseteq digests', \A d \in digests' : d.key = k => d \in digests,
         expired \subseteq expired',
         \A w \in Workers :
           Writing(w, k)' => Writing(w, k) /\ draft'[w] = draft[w] /\ ev'[w] = ev[w],
         \A p \in Processes :
           Flushing(p, k)' => Flushing(p, k) /\ got'[p] = got[p] /\ fpc'[p] = fpc[p],
         \A p \in Processes :
           Flushing(p, k) /\ fpc[p] = "delete" => Flushing(p, k)' /\ fpc'[p] = "delete",
         \A e \in acked' : KeyOf[e] = k =>
           e \in acked \/ \E w \in Workers : pc[w] = "ack" /\ ev[w] = e,
         \A w \in Workers : pc'[w] = "ack" /\ KeyOf[ev'[w]] = k =>
           pc[w] = "ack" /\ ev'[w] = ev[w]
  PROVE  QuietInv(k)'
<1>1. Present(k)' => data'[k] = data[k]
  BY AbsentTyped DEF Present
<1>2. \A e : KeyOf[e] = k /\ Safe(e) => Safe(e)'
  BY DEF Safe, Grouped, InDigest
<1>3. \A w \in Workers : Writing(w, k)' =>
        /\ Writing(w, k)
        /\ ToSet(data'[k].events) \cup {ev'[w]} \subseteq ToSet(draft'[w].events)
        /\ ~IsStored(k, draft[w].started)'
  <2>1. ToSet(data'[k].events) \subseteq ToSet(data[k].events)
    BY AbsentTyped DEF ToSet, Absent
  <2> QED BY <2>1 DEF QuietInv, IsStored
<1>4. ASSUME NEW p \in Processes, Flushing(p, k)'
      PROVE  /\ Flushing(p, k)
             /\ Present(k)' => got'[p] = data'[k] /\ fpc'[p] # "forget"
             /\ fpc'[p] = "execute" => ~IsStored(k, got[p].started)'
             /\ fpc'[p] = "delete" => Digest(p)' \in digests'
  <2>1. at'[p] = k /\ at[p] = k BY <1>4 DEF Flushing
  <2> QED BY <1>1, <1>4, <2>1 DEF QuietInv, Present, Digest, IsStored
<1>5. Present(k)' /\ IsStored(k, data[k].started)' =>
        \E p \in Processes : Flushing(p, k)' /\ fpc'[p] = "delete"
  BY <1>1 DEF QuietInv, Present, IsStored
<1>6. \A e \in acked' : KeyOf[e] = k => Safe(e)'
  BY <1>2 DEF QuietInv, KeyAt
<1>7. \A w \in Workers : pc'[w] = "ack" /\ KeyAt(w)' = k => Safe(ev[w])'
  <2> SUFFICES ASSUME NEW w \in Workers, pc'[w] = "ack", KeyAt(w)' = k
               PROVE  Safe(ev[w])'
    OBVIOUS
  <2>1. PICK e : e = ev[w] OBVIOUS
  <2>2. pc[w] = "ack" /\ ev'[w] = e /\ KeyOf[e] = k BY <2>1 DEF KeyAt
  <2>3. Safe(e) BY <2>1, <2>2 DEF QuietInv, KeyAt
  <2>4. Safe(e)' BY <1>2, <2>2, <2>3
  <2> QED BY <2>2, <2>4 DEF Safe, Grouped, InDigest
<1>8. (Present(k) => due[k] # "none")' BY <1>1 DEF QuietInv, Present
<1> QED BY <1>3, <1>4, <1>5, <1>6, <1>7, <1>8 DEF QuietInv

LEMMA AppendElements ==
  ASSUME NEW S, NEW s \in Seq(S), NEW x \in S
  PROVE  ToSet(s) \cup {x} \subseteq ToSet(Append(s, x))
<1>1. \A i \in DOMAIN s : i \in DOMAIN Append(s, x) /\ Append(s, x)[i] = s[i]
  OBVIOUS
<1>2. Len(s) + 1 \in DOMAIN Append(s, x) /\ Append(s, x)[Len(s) + 1] = x
  OBVIOUS
<1> QED BY <1>1, <1>2 DEF ToSet

\* A disturbed key stays disturbed.
LEMMA DisturbedGrows == [Next]_vars => disturbed \subseteq disturbed'
<1> SUFFICES ASSUME [Next]_vars PROVE disturbed \subseteq disturbed' OBVIOUS
<1>1. ASSUME NEW w \in Workers, Enqueue(w) PROVE disturbed \subseteq disturbed'
  BY <1>1 DEF Enqueue, Receive, EnqueueRead, EnqueueWrite, EnqueueFails, Ack, AckLost,
         MarkIfContended
<1>2. ASSUME NEW p \in Processes, FlushDue(p) PROVE disturbed \subseteq disturbed'
  BY <1>2 DEF FlushDue, Lookup, Lock, FlushGet, Forget, Execute, ExecuteFails,
              RetryLater, Delete, Unlock, FlushCallFails, MarkIfContended
<1> QED BY <1>1, <1>2 DEF Next, Elapse, LockExpires, DataExpires, Crash, vars

LEMMA QuietEnqueue ==
  ASSUME IInv, NEW k \in Keys, QuietInv(k), k \notin disturbed', NEW w \in Workers, Enqueue(w)
  PROVE  QuietInv(k)'
<1> TypeOK /\ HandInv /\ ClockInv /\ GotInv BY DEF IInv
<1> USE DEF TypeOK
<1>1. UNCHANGED <<digests, fpc, batch, at, got, expired>>
  BY DEF Enqueue, Receive, EnqueueRead, EnqueueWrite, EnqueueFails, Ack, AckLost,
         GiveBack, Release, WorkerStep, flushVars
<1>2. \A p \in Processes : Flushing(p, k)' <=> Flushing(p, k)
  BY <1>1 DEF Flushing
<1>3. pc[w] # "idle" => ev[w] \in Events /\ KeyAt(w) \in Keys
  BY DebouncerAssumption DEF HandInv, KeyAt
<1>4. ASSUME UNCHANGED <<data, due>>,
             pc'[w] \in {"idle", "read"},
             \A v \in Workers : v # w =>
               pc'[v] = pc[v] /\ ev'[v] = ev[v] /\ draft'[v] = draft[v],
             \A e \in acked' : e \in acked \/ (pc[w] = "ack" /\ e = ev[w])
      PROVE  QuietInv(k)'
  BY <1>1, <1>2, <1>4, QuietFrame DEF Writing, KeyAt
<1>5. CASE (\E e \in Events : Receive(w, e)) \/ Ack(w) \/ AckLost(w)
  <2> USE DEF Release, WorkerStep, redisVars
  <2>1. UNCHANGED <<data, due>> /\ pc'[w] \in {"idle", "read"}
    BY <1>5 DEF Receive, Ack, AckLost, GiveBack
  <2>2. \A v \in Workers : v # w =>
          pc'[v] = pc[v] /\ ev'[v] = ev[v] /\ draft'[v] = draft[v]
    BY <1>5 DEF Receive, Ack, AckLost, GiveBack
  <2>3. \A e \in acked' : e \in acked \/ (pc[w] = "ack" /\ e = ev[w])
    BY <1>5 DEF Receive, Ack, AckLost
  <2> QED BY <1>4, <2>1, <2>2, <2>3
<1>6. CASE EnqueueRead(w)
  <2> DEFINE found == data[KeyAt(w)]
             new == Merge(found, ev[w])
  <2>1. /\ KeyAt(w) \in Keys /\ ev[w] \in Events
        /\ new.events = Append(found.events, ev[w])
        /\ new.started = IF found.events = <<>> THEN clock ELSE found.started
        /\ draft' = [draft EXCEPT ![w] = new]
        /\ UNCHANGED <<data, due, ev>>
    BY <1>6, ReadStep
  <2>2. pc' = [pc EXCEPT ![w] = "write"] /\ acked' = acked
    BY <1>6 DEF EnqueueRead, WorkerStep
  <2> HIDE DEF new
  <2>3. CASE KeyAt(w) # k
    BY <1>1, <1>2, <2>1, <2>2, <2>3, QuietFrame DEF Writing, KeyAt
  <2>4. CASE KeyAt(w) = k
    <3>1. ~Contended(k)
      BY <1>6, <2>4 DEF EnqueueRead, MarkIfContended
    <3>2. \A v \in Workers : Writing(v, k)' <=> v = w
      BY <2>1, <2>2, <2>4, <3>1 DEF Writing, Contended, KeyAt
    <3>3. ~IsStored(k, new.started)
      <4>1. CASE found.events = <<>>
        <5>1. \A d \in digests : d.pending.started < clock /\ d.pending.started \in Nat
          BY DEF ClockInv, Copies, GotInv, Pending
        <5> QED BY <2>1, <4>1, <5>1 DEF IsStored
      <4>2. CASE found.events # <<>>
        BY <2>1, <2>4, <3>1, <4>2 DEF QuietInv, Present, Contended
      <4> QED BY <4>1, <4>2
    <3>4. \A v \in Workers : Writing(v, k)' =>
            /\ ToSet(data'[k].events) \cup {ev'[v]} \subseteq ToSet(draft'[v].events)
            /\ ~IsStored(k, draft[v].started)'
      <4>1. found.events \in Seq(Events) BY <2>1 DEF Pending
      <4>2. ToSet(found.events) \cup {ev[w]} \subseteq ToSet(new.events)
        BY <2>1, <4>1, AppendElements
      <4> QED BY <1>1, <2>1, <2>4, <3>2, <3>3, <4>2 DEF IsStored
    <3>5. \A p \in Processes : ~Flushing(p, k)'
      BY <1>2, <3>1 DEF Contended
    <3>6. ~(Present(k) /\ IsStored(k, data[k].started))'
      BY <1>1, <2>1, <3>1 DEF QuietInv, Present, IsStored, Contended
    <3>7. (Present(k) => due[k] # "none")'
      BY <2>1 DEF QuietInv, Present
    <3>8. \A e \in acked' : KeyOf[e] = k => Safe(e)'
      BY <1>1, <2>1, <2>2 DEF QuietInv, Safe, Grouped, InDigest
    <3>9. \A v \in Workers : pc'[v] = "ack" /\ KeyAt(v)' = k => Safe(ev[v])'
      BY <1>1, <2>1, <2>2 DEF QuietInv, Safe, Grouped, InDigest, KeyAt
    <3> QED BY <3>2, <3>4, <3>5, <3>6, <3>7, <3>8, <3>9 DEF QuietInv
  <2> QED BY <2>3, <2>4
<1>7. ASSUME pc[w] = "write", Store(w), acked' = acked,
             \/ /\ pc' = [pc EXCEPT ![w] = "ack"] /\ ev' = ev
             \/ /\ pc' = [pc EXCEPT ![w] = "idle"] /\ ev' = [ev EXCEPT ![w] = NoEvent],
             draft' = [draft EXCEPT ![w] = Absent]
      PROVE  QuietInv(k)'
  <2>1. /\ data' = [data EXCEPT ![KeyAt(w)] = draft[w]]
        /\ due' = [due EXCEPT ![KeyAt(w)] = "waiting"]
    BY <1>7 DEF Store
  <2>2. CASE KeyAt(w) # k
    BY <1>1, <1>2, <1>3, <1>7, <2>1, <2>2, QuietFrame DEF Writing, KeyAt
  <2>3. CASE KeyAt(w) = k
    <3>1. Writing(w, k) BY <1>7, <2>3 DEF Writing
    <3>2. \A v \in Workers : ~Writing(v, k)'
      BY <1>7, <3>1 DEF QuietInv, Writing, KeyAt
    <3>3. \A p \in Processes : ~Flushing(p, k)'
      BY <1>2, <3>1 DEF QuietInv
    <3>4. /\ data'[k] = draft[w] /\ due'[k] = "waiting"
          /\ ToSet(data[k].events) \cup {ev[w]} \subseteq ToSet(draft[w].events)
          /\ ~IsStored(k, draft[w].started)
      BY <2>1, <2>3, <3>1 DEF QuietInv
    <3>5. ~IsStored(k, data[k].started)'
      BY <1>1, <3>4 DEF IsStored
    <3>8. \A e : KeyOf[e] = k /\ (Safe(e) \/ e = ev[w]) => Safe(e)'
      BY <1>1, <3>4 DEF Safe, Grouped, InDigest
    <3>9. \A e \in acked' : KeyOf[e] = k => Safe(e)'
      BY <1>7, <3>8 DEF QuietInv
    <3>10. \A v \in Workers : pc'[v] = "ack" /\ KeyAt(v)' = k => Safe(ev[v])'
      <4> SUFFICES ASSUME NEW v \in Workers, pc'[v] = "ack", KeyAt(v)' = k
                   PROVE  Safe(ev[v])'
        OBVIOUS
      <4>1. PICK e : e = ev[v] OBVIOUS
      <4>2. ev'[v] = e /\ KeyOf[e] = k BY <1>7, <4>1 DEF KeyAt
      <4>3. e = ev[w] \/ Safe(e) BY <1>7, <4>1, <4>2 DEF QuietInv, KeyAt
      <4>4. Safe(e)' BY <3>8, <4>2, <4>3
      <4> QED BY <4>2, <4>4 DEF Safe, Grouped, InDigest
    <3>11. due'[k] # "none" BY <3>4
    <3> QED BY <3>2, <3>3, <3>5, <3>9, <3>10, <3>11 DEF QuietInv
  <2> QED BY <2>2, <2>3
<1>8. CASE EnqueueWrite(w)
  BY <1>7, <1>8 DEF EnqueueWrite, WorkerStep
<1>9. CASE EnqueueFails(w)
  <2>1. CASE UNCHANGED redisVars
    <3>1. UNCHANGED <<data, due, acked>> /\ pc'[w] = "idle"
      BY <1>9, <2>1 DEF EnqueueFails, GiveBack, Release, WorkerStep, redisVars
    <3>2. \A v \in Workers : v # w =>
            pc'[v] = pc[v] /\ ev'[v] = ev[v] /\ draft'[v] = draft[v]
      BY <1>9 DEF EnqueueFails, GiveBack, Release, WorkerStep
    <3> QED BY <1>4, <3>1, <3>2
  <2>2. CASE pc[w] = "write" /\ Store(w)
    BY <1>7, <1>9, <2>2 DEF EnqueueFails, GiveBack, Release, WorkerStep
  <2> QED BY <1>9, <2>1, <2>2 DEF EnqueueFails
<1> QED BY <1>5, <1>6, <1>8, <1>9 DEF Enqueue

LEMMA QuietFlush ==
  ASSUME IInv, NEW k \in Keys, QuietInv(k), k \notin disturbed',
         NEW p \in Processes, FlushDue(p)
  PROVE  QuietInv(k)'
<1> TypeOK /\ LockInv /\ GotInv BY DEF IInv
<1> USE DEF TypeOK
<1>1. UNCHANGED <<acked, pc, ev, draft, expired>>
  BY DEF FlushDue, Lookup, Lock, FlushGet, Forget, Execute, ExecuteFails,
         RetryLater, Delete, Unlock, FlushCallFails, FlusherStep, workVars
<1>2. \A w \in Workers : Writing(w, k)' <=> Writing(w, k)
  BY <1>1 DEF Writing, KeyAt
<1>3. fpc[p] # "idle" => at[p] \in Keys BY DEF LockInv
\* A call that takes no copy of this key, stores nothing under it, and is not the
\* end of its flush.
<1>4. ASSUME data'[k] = data[k], due'[k] = due[k] \/ due'[k] # "none",
             digests \subseteq digests', \A d \in digests' : d.key = k => d \in digests,
             at[p] = k => fpc[p] # "delete",
             at'[p] = k => fpc'[p] \notin {"execute", "delete", "forget"},
             \A q \in Processes : q # p =>
               fpc'[q] = fpc[q] /\ at'[q] = at[q] /\ got'[q] = got[q]
      PROVE  QuietInv(k)'
  <2>1. \A q \in Processes : Flushing(q, k)' =>
          Flushing(q, k) /\ got'[q] = got[q] /\ fpc'[q] = fpc[q]
    BY <1>4 DEF Flushing
  <2>2. \A q \in Processes : Flushing(q, k) /\ fpc[q] = "delete" =>
          Flushing(q, k)' /\ fpc'[q] = "delete"
    BY <1>4 DEF Flushing
  <2> QED BY <1>1, <1>2, <1>4, <2>1, <2>2, QuietFrame DEF KeyAt
<1>5. CASE Lookup(p) \/ \E l \in Keys : Lock(p, l)
  <2>1. UNCHANGED <<data, due, digests>> /\ fpc[p] = "idle"
    BY <1>5 DEF Lookup, Lock
  <2>2. fpc' = [fpc EXCEPT ![p] = "idle"] \/ fpc' = [fpc EXCEPT ![p] = "get"]
    BY <1>5 DEF Lookup, Lock, FlusherStep
  <2>3. \A q \in Processes : q # p => at'[q] = at[q] /\ got'[q] = got[q]
    BY <1>5 DEF Lookup, Lock
  <2> QED BY <1>4, <2>1, <2>2, <2>3
<1>6. CASE FlushGet(p)
  <2>1. /\ fpc[p] = "get" /\ at' = at
        /\ got' = [got EXCEPT ![p] = data[at[p]]]
        /\ fpc' = [fpc EXCEPT ![p] = IF Present(at[p]) THEN "execute" ELSE "forget"]
        /\ UNCHANGED <<data, due, digests>>
    BY <1>6 DEF FlushGet, FlusherStep
  <2>2. CASE at[p] # k
    BY <1>4, <2>1, <2>2
  <2>3. CASE at[p] = k
    <3>1. ~Contended(k)
      BY <1>6, <2>3 DEF FlushGet, MarkIfContended
    <3>2. \A q \in Processes : Flushing(q, k)' <=> q = p
      BY <2>1, <2>3, <3>1 DEF Flushing, Contended
    <3>3. \A w \in Workers : ~Writing(w, k)' BY <1>2, <3>1 DEF Contended
    <3>4. \A q \in Processes : Flushing(q, k)' =>
            /\ Present(k)' => got'[q] = data'[k] /\ fpc'[q] # "forget"
            /\ fpc'[q] = "execute" => ~IsStored(k, got[q].started)'
            /\ fpc'[q] # "delete"
      BY <2>1, <2>3, <3>1, <3>2 DEF Present, IsStored, QuietInv, Contended
    <3>5. ~(Present(k) /\ IsStored(k, data[k].started))'
      BY <2>1, <3>1 DEF QuietInv, Present, IsStored, Contended
    <3>6. (Present(k) => due[k] # "none")' BY <2>1 DEF QuietInv, Present
    <3>7. \A e \in acked' : KeyOf[e] = k => Safe(e)'
      BY <1>1, <2>1 DEF QuietInv, Safe, Grouped, InDigest
    <3>8. \A v \in Workers : pc'[v] = "ack" /\ KeyAt(v)' = k => Safe(ev[v])'
      BY <1>1, <2>1 DEF QuietInv, Safe, Grouped, InDigest, KeyAt
    <3> QED BY <3>2, <3>3, <3>4, <3>5, <3>6, <3>7, <3>8 DEF QuietInv
  <2> QED BY <2>2, <2>3
<1>7. CASE Forget(p)
  <2>1. /\ fpc[p] = "forget" /\ UNCHANGED <<data, digests, at, got>>
        /\ due' = [due EXCEPT ![at[p]] = "none"]
        /\ fpc' = [fpc EXCEPT ![p] = "unlock"]
    BY <1>7 DEF Forget, FlusherStep
  <2>2. CASE at[p] # k BY <1>4, <2>1, <2>2
  <2>3. CASE at[p] = k
    <3>1. ~Present(k) /\ \A q \in Processes : Flushing(q, k) => q = p
      BY <2>1, <2>3 DEF QuietInv, Flushing
    <3>2. ~Present(k)' BY <2>1, <3>1 DEF Present
    <3>3. \A q \in Processes : ~Flushing(q, k)'
      BY <2>1, <3>1 DEF Flushing
    <3>4. \A w \in Workers : Writing(w, k)' =>
            /\ ToSet(data'[k].events) \cup {ev'[w]} \subseteq ToSet(draft'[w].events)
            /\ ~IsStored(k, draft[w].started)'
      BY <1>1, <1>2, <2>1 DEF QuietInv, IsStored
    <3>5. \A v, w \in Workers : Writing(v, k)' /\ Writing(w, k)' => v = w
      BY <1>2 DEF QuietInv
    <3>6. \A e \in acked' : KeyOf[e] = k => Safe(e)'
      BY <1>1, <2>1 DEF QuietInv, Safe, Grouped, InDigest
    <3>7. \A v \in Workers : pc'[v] = "ack" /\ KeyAt(v)' = k => Safe(ev[v])'
      BY <1>1, <2>1 DEF QuietInv, Safe, Grouped, InDigest, KeyAt
    <3> QED BY <3>2, <3>3, <3>4, <3>5, <3>6, <3>7 DEF QuietInv
  <2> QED BY <2>2, <2>3
<1>8. CASE Execute(p)
  <2>1. /\ fpc[p] = "execute" /\ UNCHANGED <<data, due, at, got>>
        /\ fpc' = [fpc EXCEPT ![p] = "delete"]
        /\ digests' = IF IsStored(at[p], got[p].started) THEN digests
                      ELSE digests \cup {Digest(p)}
    BY <1>8 DEF Execute, FlusherStep, Save
  <2>2. Digest(p).key = at[p] /\ Digest(p).pending = got[p] BY DEF Digest
  <2>3. CASE at[p] # k BY <1>4, <2>1, <2>2, <2>3
  <2>4. CASE at[p] = k
    <3>1. /\ Flushing(p, k) /\ (Present(k) => got[p] = data[k])
          /\ \A q \in Processes : Flushing(q, k) => q = p
          /\ \A w \in Workers : ~Writing(w, k)
      BY <2>1, <2>4 DEF QuietInv, Flushing
    <3>2. ~IsStored(k, got[p].started)
      BY <2>1, <3>1 DEF QuietInv
    <3>3. digests' = digests \cup {Digest(p)} BY <2>1, <2>4, <3>2
    <3>4. \A q \in Processes : Flushing(q, k)' <=> q = p
      BY <2>1, <2>4, <3>1 DEF Flushing
    <3>5. \A q \in Processes : Flushing(q, k)' =>
            /\ Present(k)' => got'[q] = data'[k]
            /\ fpc'[q] = "delete" /\ Digest(q)' \in digests'
      BY <2>1, <3>1, <3>3, <3>4 DEF Present, Digest
    <3>6. \E q \in Processes : Flushing(q, k)' /\ fpc'[q] = "delete"
      BY <2>1, <3>4
    <3>7. (Present(k) => due[k] # "none")' BY <2>1 DEF QuietInv, Present
    <3>8. \A e \in acked' : KeyOf[e] = k => Safe(e)'
      BY <1>1, <2>1, <3>3 DEF QuietInv, Safe, Grouped, InDigest
    <3>9. \A v \in Workers : pc'[v] = "ack" /\ KeyAt(v)' = k => Safe(ev[v])'
      BY <1>1, <2>1, <3>3 DEF QuietInv, Safe, Grouped, InDigest, KeyAt
    <3>10. \A w \in Workers : ~Writing(w, k)' BY <1>2, <3>1
    <3> QED BY <3>4, <3>5, <3>6, <3>7, <3>8, <3>9, <3>10 DEF QuietInv
  <2> QED BY <2>3, <2>4
<1>9. CASE ExecuteFails(p)
  <2>1. /\ fpc[p] = "execute" /\ UNCHANGED <<data, due, at, got>>
        /\ fpc' = [fpc EXCEPT ![p] = "retry"]
        /\ digests' \subseteq digests \cup {Digest(p)} /\ digests \subseteq digests'
        /\ at[p] = k => digests' = digests
    BY <1>9 DEF ExecuteFails, FlusherStep, Save
  <2>2. Digest(p).key = at[p] BY DEF Digest
  <2> QED BY <1>4, <2>1, <2>2
<1>10. CASE RetryLater(p)
  <2>1. /\ fpc[p] = "retry" /\ UNCHANGED <<data, digests, at, got>>
        /\ due' = [due EXCEPT ![at[p]] = "late"]
        /\ fpc' = [fpc EXCEPT ![p] = "unlock"]
    BY <1>10 DEF RetryLater, FlusherStep
  <2> QED BY <1>3, <1>4, <2>1
<1>11. CASE Delete(p)
  <2>1. /\ fpc[p] = "delete" /\ UNCHANGED <<digests, at, got>>
        /\ data' = [data EXCEPT ![at[p]] = Absent]
        /\ due' = [due EXCEPT ![at[p]] = "none"]
        /\ fpc' = [fpc EXCEPT ![p] = "unlock"]
    BY <1>11 DEF Delete, FlusherStep
  <2>2. CASE at[p] # k BY <1>4, <2>1, <2>2
  <2>3. CASE at[p] = k
    <3>1. /\ Flushing(p, k) /\ Digest(p) \in digests
          /\ Present(k) => got[p] = data[k]
          /\ \A q \in Processes : Flushing(q, k) => q = p
          /\ \A w \in Workers : ~Writing(w, k)
      BY <2>1, <2>3 DEF QuietInv, Flushing
    <3>2. ~Present(k)' BY <2>1, <2>3, AbsentTyped DEF Present
    <3>3. \A q \in Processes : ~Flushing(q, k)'
      BY <2>1, <3>1 DEF Flushing
    <3>4. \A w \in Workers : ~Writing(w, k)' BY <1>2, <3>1
    <3>5. \/ Digest(p).pending = data[k]
          \/ data[k].events = <<>>
      BY <3>1 DEF Digest, Present
    <3>6. \A e : KeyOf[e] = k /\ Safe(e) => Safe(e)'
      BY <1>1, <2>1, <3>1, <3>5 DEF Safe, Grouped, InDigest, ToSet
    <3>7. \A e \in acked' : KeyOf[e] = k => Safe(e)'
      BY <1>1, <3>6 DEF QuietInv
    <3>8. \A v \in Workers : pc'[v] = "ack" /\ KeyAt(v)' = k => Safe(ev[v])'
      <4> SUFFICES ASSUME NEW v \in Workers, pc'[v] = "ack", KeyAt(v)' = k
                   PROVE  Safe(ev[v])'
        OBVIOUS
      <4>1. PICK e : e = ev[v] OBVIOUS
      <4>2. ev'[v] = e /\ KeyOf[e] = k BY <1>1, <4>1 DEF KeyAt
      <4>3. Safe(e) BY <1>1, <4>1, <4>2 DEF QuietInv, KeyAt
      <4>4. Safe(e)' BY <3>6, <4>2, <4>3
      <4> QED BY <4>2, <4>4 DEF Safe, Grouped, InDigest
    <3> QED BY <3>2, <3>3, <3>4, <3>7, <3>8 DEF QuietInv
  <2> QED BY <2>2, <2>3
<1>12. CASE Unlock(p) \/ FlushCallFails(p)
  <2>1. /\ UNCHANGED <<data, due, digests>> /\ fpc[p] # "idle"
        /\ at[p] = k => fpc[p] # "delete"
    BY <1>12 DEF Unlock, FlushCallFails
  <2>2. fpc' = [fpc EXCEPT ![p] = "idle"] \/ fpc' = [fpc EXCEPT ![p] = "unlock"]
    BY <1>12 DEF Unlock, FlushCallFails, FlusherStep
  <2>3. \A q \in Processes : q # p => at'[q] = at[q] /\ got'[q] = got[q]
    BY <1>12 DEF Unlock, FlushCallFails
  <2> QED BY <1>4, <2>1, <2>2, <2>3
<1> QED
  BY <1>5, <1>6, <1>7, <1>8, <1>9, <1>10, <1>11, <1>12 DEF FlushDue

LEMMA QuietStep ==
  ASSUME IInv, [Next]_vars, NEW k \in Keys, k \notin disturbed'
  PROVE  QuietInv(k)'
<1> TypeOK /\ k \notin disturbed /\ QuietInv(k)
  BY DisturbedGrows DEF IInv
<1>1. ASSUME NEW w \in Workers, Enqueue(w) PROVE QuietInv(k)'
  BY <1>1, QuietEnqueue
<1>2. ASSUME NEW p \in Processes, FlushDue(p) PROVE QuietInv(k)'
  BY <1>2, QuietFlush
<1>3. ASSUME NEW l \in Keys, Elapse(l) \/ LockExpires(l) \/ DataExpires(l)
      PROVE  QuietInv(k)'
  <2>1. /\ due'[k] = due[k] \/ due'[k] # "none"
        /\ expired \subseteq expired'
        /\ UNCHANGED <<acked, digests, workVars, flushVars>>
        /\ \/ data'[k] = data[k]
           \/ data'[k] = Absent /\ ToSet(data[k].events) \subseteq expired'
    BY <1>3 DEF Elapse, LockExpires, DataExpires, TypeOK
  <2> QED BY <2>1, QuietFrame DEF Writing, Flushing, KeyAt, workVars, flushVars
<1>4. ASSUME NEW p \in Processes, Crash(p) PROVE QuietInv(k)'
  <2>1. /\ UNCHANGED <<data, due, digests, acked, expired>>
        /\ at[p] = k => fpc[p] # "delete"
    BY <1>4 DEF Crash, redisVars
  <2>2. \A w \in Workers :
          pc'[w] = "idle" \/ (pc'[w] = pc[w] /\ ev'[w] = ev[w] /\ draft'[w] = draft[w])
    BY <1>4 DEF Crash
  <2>3. /\ fpc'[p] = "idle"
        /\ \A q \in Processes : q # p =>
             fpc'[q] = fpc[q] /\ at'[q] = at[q] /\ got'[q] = got[q]
    BY <1>4 DEF Crash, TypeOK
  <2>4. \A q \in Processes : Flushing(q, k)' =>
          Flushing(q, k) /\ got'[q] = got[q] /\ fpc'[q] = fpc[q]
    BY <2>3 DEF Flushing
  <2>5. \A q \in Processes : Flushing(q, k) /\ fpc[q] = "delete" =>
          Flushing(q, k)' /\ fpc'[q] = "delete"
    BY <2>1, <2>3 DEF Flushing
  <2> QED BY <2>1, <2>2, <2>4, <2>5, QuietFrame DEF Writing, KeyAt
<1>5. CASE UNCHANGED vars
  BY <1>5, QuietFrame DEF vars, redisVars, workVars, flushVars, Writing, Flushing, KeyAt
<1> QED BY <1>1, <1>2, <1>3, <1>4, <1>5 DEF Next

-----------------------------------------------------------------------------
(* The theorems. *)

LEMMA InitIInv == Init => IInv
<1> SUFFICES ASSUME Init PROVE IInv OBVIOUS
<1> USE DEF Init
<1> Absent \in Pending /\ Absent.events = <<>> BY AbsentTyped
<1>1. TypeOK BY DEF TypeOK
<1>2. HandInv BY DEF HandInv
<1>3. LockInv BY DEF LockInv, LockExcludes
<1>4. GotInv BY DEF GotInv
<1>5. \A c \in Copies : c = Absent BY DEF Copies
<1>6. DOMAIN Absent.events = {} BY DEF Absent
<1>7. ClockInv BY <1>5 DEF ClockInv
<1>8. KeyInv BY <1>6 DEF KeyInv, OfKey
<1>9. CopyInv BY <1>5, <1>6 DEF CopyInv
<1>10. \A k \in Keys : QuietInv(k)
  <2>1. \A k \in Keys : ~Present(k) BY DEF Present
  <2>2. \A k \in Keys : \A w \in Workers : ~Writing(w, k) BY DEF Writing
  <2>3. \A k \in Keys : \A p \in Processes : ~Flushing(p, k) BY DEF Flushing
  <2> QED BY <2>1, <2>2, <2>3 DEF QuietInv
<1> QED BY <1>1, <1>2, <1>3, <1>4, <1>7, <1>8, <1>9, <1>10 DEF IInv

LEMMA StepIInv == IInv /\ [Next]_vars => IInv'
<1> SUFFICES ASSUME IInv, [Next]_vars PROVE IInv' OBVIOUS
<1>1. \A k \in Keys \ disturbed' : QuietInv(k)' BY QuietStep
<1> QED BY <1>1, TypeStep, HandStep, LockStep, GotStep, ClockStep, KeyStep, CopyStep
        DEF IInv

LEMMA Invariance == Spec => []IInv
BY InitIInv, StepIInv, PTL DEF Spec

\* Every state of the debouncer has its type (pendingNotification, the due set,
\* the locks and the rows of the digests).
THEOREM TypeCorrect == Spec => []TypeOK
BY Invariance, PTL DEF IInv

\* SetNX keeps a key to one flusher as long as no lock expires under its owner,
\* whatever the number of processes.
THEOREM OneFlusherPerKey == Spec => []LockExcludes
BY Invariance, PTL DEF IInv, LockInv

\* Enqueue and flushOne lose a confirmed event of a key only where a second copy
\* of its digest was read while one was out, where a flush was cut between its
\* commit and its delete, or where the event was in Redis when the TTL ran out.
THEOREM OnlyDisturbedKeysLose == Spec => []QuietKeysLoseNothing
<1>1. IInv => QuietKeysLoseNothing
  <2> SUFFICES ASSUME IInv, NEW e \in acked, KeyOf[e] \notin disturbed
               PROVE  Grouped(e) \/ InDigest(e) \/ e \in expired
    BY DEF QuietKeysLoseNothing
  <2>1. KeyOf[e] \in Keys BY DebouncerAssumption DEF IInv, TypeOK
  <2> QED BY <2>1 DEF IInv, QuietInv, Safe
<1> QED BY <1>1, Invariance, PTL

\* A digest with events of an undisturbed key is always in the due set, so some
\* flusher will find it.
THEOREM QuietDigestsAreScheduled == Spec => []QuietKeysAreScheduled
<1>1. IInv => QuietKeysAreScheduled
  BY DEF IInv, QuietInv, QuietKeysAreScheduled
<1> QED BY <1>1, Invariance, PTL

\* No interleaving of Enqueue and flushOne counts twice an event that the broker
\* delivered once.
THEOREM RacesNeverMultiply == Spec => []CountedOnce
<1>1. IInv => CountedOnce
  <2> SUFFICES ASSUME IInv, NEW e \in Events \ redelivered,
                      NEW c \in digests, NEW d \in digests,
                      NEW i \in DOMAIN c.pending.events, NEW j \in DOMAIN d.pending.events,
                      c.pending.events[i] = e, d.pending.events[j] = e
               PROVE  c = d /\ i = j
    BY DEF CountedOnce
  <2>1. c.pending \in Copies /\ d.pending \in Copies BY DEF Copies
  <2>2. c.pending.started = d.pending.started /\ i = j
    BY <2>1 DEF IInv, CopyInv
  <2>3. c.key = KeyOf[e] /\ d.key = KeyOf[e]
    BY DEF IInv, KeyInv, OfKey
  <2> QED BY <2>2, <2>3 DEF IInv, CopyInv
<1> QED BY <1>1, Invariance, PTL

\* Unless an outage outlasts the ten minutes of its TTL, the digest of an
\* undisturbed key leaves Redis only once it is a notification.
THEOREM DigestsLeaveStored == Spec /\ ~LongOutage => PendingLeavesAsDigest
<1>1. ASSUME IInv, [Next]_vars, ~LongOutage, NEW k \in Keys, k \notin disturbed,
             Present(k), ~Present(k)'
      PROVE  IsStored(k, data[k].started)
  <2> TypeOK /\ QuietInv(k) BY <1>1 DEF IInv
  <2>1. data' # data BY <1>1 DEF Present
  <2>2. ASSUME NEW w \in Workers, Enqueue(w) PROVE FALSE
    <3>1. pc[w] = "write" /\ data' = [data EXCEPT ![KeyAt(w)] = draft[w]]
      BY <2>1, <2>2 DEF Enqueue, Receive, EnqueueRead, EnqueueWrite, EnqueueFails, Ack,
           AckLost, Store, redisVars
    <3>2. KeyAt(w) = k
      BY <1>1, <3>1 DEF Present, TypeOK
    <3>3. ev[w] \in ToSet(draft[w].events)
      BY <3>1, <3>2 DEF QuietInv, Writing
    <3>5. draft[w].events # <<>> BY <3>3 DEF ToSet
    <3> QED BY <1>1, <3>1, <3>2, <3>5 DEF Present, TypeOK
  <2>3. ASSUME NEW p \in Processes, FlushDue(p) PROVE IsStored(k, data[k].started)
    <3>1. fpc[p] = "delete" /\ data' = [data EXCEPT ![at[p]] = Absent]
      BY <2>1, <2>3 DEF FlushDue, Lookup, Lock, FlushGet, Forget, Execute, ExecuteFails,
           RetryLater, Delete, Unlock, FlushCallFails
    <3>2. at[p] = k BY <1>1, <3>1 DEF Present, TypeOK
    <3>3. Digest(p) \in digests /\ got[p] = data[k]
      BY <1>1, <3>1, <3>2 DEF QuietInv, Flushing
    <3>4. Digest(p).key = k /\ Digest(p).pending = data[k] BY <3>2, <3>3 DEF Digest
    <3> QED BY <3>3, <3>4 DEF IsStored
  <2>4. \A l \in Keys : ~(Elapse(l) \/ LockExpires(l) \/ DataExpires(l))
    BY <1>1, <2>1 DEF Elapse, LockExpires, DataExpires
  <2>5. \A p \in Processes : ~Crash(p)
    BY <2>1 DEF Crash, redisVars
  <2>6. ~UNCHANGED vars BY <2>1 DEF vars, redisVars
  <2> QED BY <1>1, <2>2, <2>3, <2>4, <2>5, <2>6 DEF Next
<1>2. IInv /\ [Next]_vars /\ ~LongOutage =>
        [\A k \in Keys : Present(k) /\ ~Present(k)' /\ k \notin disturbed
           => IsStored(k, data[k].started)]_vars
  BY <1>1
<1>3. CASE LongOutage BY <1>3
<1>4. CASE ~LongOutage
  BY <1>2, <1>4, Invariance, PTL DEF Spec, PendingLeavesAsDigest
<1> QED BY <1>3, <1>4

-----------------------------------------------------------------------------
(* One process, and outages shorter than the TTL. *)

Sole == ~LongOutage /\ \A p, q \in Processes : p = q

\* Nobody but the one flusher takes a digest away, so that what it looked up is
\* there when it comes to it, and it never forgets a key.
SoleInv ==
  /\ \A k \in Keys : Present(k) <=> due[k] # "none"
  /\ \A w \in Workers : pc[w] = "write" => draft[w].events # <<>>
  /\ \A p \in Processes :
       /\ \A k \in batch[p] : Present(k)
       /\ at[p] \notin batch[p] /\ fpc[p] # "forget"
       /\ fpc[p] \in {"get", "execute", "retry", "delete"} => Present(at[p])

LEMMA SoleEnqueue ==
  ASSUME IInv, SoleInv, NEW w \in Workers, Enqueue(w)
  PROVE  SoleInv'
<1> TypeOK /\ HandInv BY DEF IInv
<1> USE DEF TypeOK
<1>1. UNCHANGED <<fpc, batch, at>>
  BY DEF Enqueue, Receive, EnqueueRead, EnqueueWrite, EnqueueFails, Ack, AckLost,
       GiveBack, Release, WorkerStep, flushVars
<1>2. pc[w] # "idle" => ev[w] \in Events /\ KeyAt(w) \in Keys
  BY DebouncerAssumption DEF HandInv, KeyAt
<1>3. \/ UNCHANGED <<data, due>>
      \/ /\ pc[w] = "write"
         /\ data' = [data EXCEPT ![KeyAt(w)] = draft[w]]
         /\ due' = [due EXCEPT ![KeyAt(w)] = "waiting"]
  BY DEF Enqueue, Receive, EnqueueRead, EnqueueWrite, EnqueueFails, Ack, AckLost,
       Store, redisVars
<1>4. \A k \in Keys : (Present(k)' <=> due'[k] # "none") /\ (Present(k) => Present(k)')
  BY <1>2, <1>3 DEF SoleInv, Present
<1>5. \A v \in Workers : pc'[v] = "write" => draft'[v].events # <<>>
  <2>1. CASE EnqueueRead(w)
    <3>1. /\ draft' = [draft EXCEPT ![w] = Merge(data[KeyAt(w)], ev[w])]
          /\ pc' = [pc EXCEPT ![w] = "write"] /\ pc[w] = "read"
      BY <2>1 DEF EnqueueRead, WorkerStep
    <3>2. /\ Merge(data[KeyAt(w)], ev[w]).events
               = Append(data[KeyAt(w)].events, ev[w])
          /\ data[KeyAt(w)].events \in Seq(Events)
      BY <1>2, <3>1, MergeTyped DEF Pending
    <3>3. Merge(data[KeyAt(w)], ev[w]).events # <<>>
      <4>1. \A s \in Seq(Events), e \in Events : Append(s, e) # <<>>
        OBVIOUS
      <4> QED BY <1>2, <3>1, <3>2, <4>1
    <3> QED BY <3>1, <3>3 DEF SoleInv
  <2>2. CASE \E e \in Events : Receive(w, e)
    BY <2>2 DEF Receive, WorkerStep, SoleInv
  <2>3. CASE EnqueueWrite(w) BY <2>3 DEF EnqueueWrite, WorkerStep, SoleInv
  <2>4. CASE EnqueueFails(w) \/ Ack(w) \/ AckLost(w)
    BY <2>4 DEF EnqueueFails, Ack, AckLost, GiveBack, Release, WorkerStep, SoleInv
  <2> QED BY <2>1, <2>2, <2>3, <2>4 DEF Enqueue
<1>6. \A p \in Processes : fpc[p] \in {"get", "execute", "retry", "delete"} =>
        at[p] \in Keys
  BY DEF IInv, LockInv
<1>7. \A p \in Processes : batch[p] \subseteq Keys OBVIOUS
<1> QED BY <1>1, <1>4, <1>5, <1>6, <1>7 DEF SoleInv

LEMMA SoleFlush ==
  ASSUME Sole, IInv, SoleInv, NEW p \in Processes, FlushDue(p)
  PROVE  SoleInv'
<1> TypeOK /\ LockInv BY DEF IInv
<1> USE DEF TypeOK, FlusherStep, workVars
<1>1. \A q \in Processes : q = p BY DEF Sole
<1>2. /\ fpc[p] # "idle" => at[p] \in Keys
      /\ fpc[p] = "idle" => at[p] = NoKey
      /\ batch[p] \subseteq Keys /\ NoKey \notin Keys
  BY DebouncerAssumption DEF LockInv
<1>3. SUFFICES
        /\ \A k \in Keys : Present(k)' <=> due'[k] # "none"
        /\ \A k \in batch'[p] : Present(k)'
        /\ at'[p] \notin batch'[p] /\ fpc'[p] # "forget"
        /\ fpc'[p] \in {"get", "execute", "retry", "delete"} => Present(at[p])'
  <2>1. UNCHANGED workVars
    BY DEF FlushDue, Lookup, Lock, FlushGet, Forget, Execute, ExecuteFails, RetryLater,
         Delete, Unlock, FlushCallFails
  <2> QED BY <1>1, <2>1 DEF SoleInv
<1> USE DEF SoleInv, Present
<1>4. CASE Lookup(p) BY <1>2, <1>4 DEF Lookup
<1>5. ASSUME NEW k \in Keys, Lock(p, k)
      PROVE  /\ \A l \in Keys : Present(l)' <=> due'[l] # "none"
             /\ \A l \in batch'[p] : Present(l)'
             /\ at'[p] \notin batch'[p] /\ fpc'[p] # "forget"
             /\ fpc'[p] \in {"get", "execute", "retry", "delete"} => Present(at[p])'
  BY <1>2, <1>5 DEF Lock
<1>6. CASE FlushGet(p) BY <1>2, <1>6 DEF FlushGet
<1>7. CASE Execute(p) \/ ExecuteFails(p) BY <1>2, <1>7 DEF Execute, ExecuteFails
<1>8. CASE RetryLater(p) BY <1>2, <1>8 DEF RetryLater
<1>9. CASE Delete(p) BY <1>2, <1>9, AbsentTyped DEF Delete
<1>10. CASE Unlock(p) \/ FlushCallFails(p) BY <1>2, <1>10 DEF Unlock, FlushCallFails
<1>11. ~Forget(p) BY DEF Forget
<1> QED
  BY <1>4, <1>5, <1>6, <1>7, <1>8, <1>9, <1>10, <1>11 DEF FlushDue

LEMMA SoleStep == Sole /\ IInv /\ SoleInv /\ [Next]_vars => SoleInv'
<1> SUFFICES ASSUME Sole, IInv, SoleInv, [Next]_vars PROVE SoleInv'
    OBVIOUS
<1> TypeOK BY DEF IInv
<1>1. ASSUME NEW w \in Workers, Enqueue(w) PROVE SoleInv' BY <1>1, SoleEnqueue
<1>2. ASSUME NEW p \in Processes, FlushDue(p) PROVE SoleInv' BY <1>2, SoleFlush
<1>3. ASSUME NEW k \in Keys, Elapse(k) \/ LockExpires(k) PROVE SoleInv'
  <2>1. UNCHANGED <<data, workVars, flushVars>> BY <1>3 DEF Elapse, LockExpires
  <2>2. \A l \in Keys : due'[l] # "none" <=> due[l] # "none"
    BY <1>3 DEF Elapse, LockExpires, TypeOK
  <2> QED BY <2>1, <2>2 DEF SoleInv, Present, workVars, flushVars
<1>4. \A k \in Keys : ~DataExpires(k) BY DEF DataExpires, Sole
<1>5. ASSUME NEW p \in Processes, Crash(p) PROVE SoleInv'
  <2>1. UNCHANGED <<data, due>> BY <1>5 DEF Crash, redisVars
  <2>2. /\ fpc'[p] = "idle" /\ batch'[p] = {}
        /\ \A q \in Processes : q # p =>
             fpc'[q] = fpc[q] /\ batch'[q] = batch[q] /\ at'[q] = at[q]
    BY <1>5 DEF Crash, TypeOK
  <2>3. \A w \in Workers :
          pc'[w] = "idle" \/ (pc'[w] = pc[w] /\ draft'[w] = draft[w])
    BY <1>5 DEF Crash
  <2> QED BY <2>1, <2>2, <2>3 DEF SoleInv, Present
<1>6. CASE UNCHANGED vars
  BY <1>6 DEF vars, redisVars, workVars, flushVars, SoleInv, Present
<1> QED BY <1>1, <1>2, <1>3, <1>4, <1>5, <1>6 DEF Next

\* With one process, and outages shorter than the TTL, an event that waits in
\* Redis has a date at which flushDue finds it: no worker writes a digest that
\* flushOne is about to forget.
THEOREM OneProcessSchedules ==
  ASSUME ~LongOutage, \A p, q \in Processes : p = q
  PROVE  Spec => []PendingIsScheduled
<1>1. Sole BY DEF Sole
<1>2. Init => SoleInv
  BY AbsentTyped DEF Init, SoleInv, Present
<1>3. IInv /\ SoleInv /\ [Next]_vars => SoleInv' BY <1>1, SoleStep
<1>4. SoleInv => PendingIsScheduled BY DEF SoleInv, PendingIsScheduled
<1> QED BY <1>2, <1>3, <1>4, Invariance, PTL DEF Spec
=============================================================================
