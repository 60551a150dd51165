# Verification of streamingNotifyHub

TLA+ specifications of the notification hub under `src/`, their TLC runs and
their TLAPS proofs. The Go code is the reference: every definition listed under
`map` in `PROJECT.json` names the lines it stands for. Paths below are relative
to `src/internal/`.

## The system

One Go process, wired by `fx` (`cmd/main.go`, `modules/module.*.go`), consumes
two RabbitMQ queues, keeps notifications in Postgres and pending digests in
Redis, and serves browsers over WebSocket and HTTP.

| component | code | state it keeps | operations | talks to |
|---|---|---|---|---|
| channel policy | `domains/entities/notification/notification.go` | none | `ResolveChannels`, `terminalFor` | the use case |
| notification consumer | `events/rabbitmq/notification_consumer.go` | deliveries in hand, one per worker | `Start`, `consume`, `runWorkers`, `handle`, `discard` | RabbitMQ, debouncer, use case |
| use case and store | `core/notifications/ProcessNotificationUseCase.go`, `out/database/notification_repository.go` | rows of `notifications`, `notification_deliveries` | `Execute`, `FindCategory`, `FindUserSettings`, `Save` | Postgres, hub |
| debouncer | `core/notifications/notification_debouncer.go` | Redis: digest per key, due set, lock per key | `Enqueue`, `flushDue`, `flushOne` | Redis, use case |
| hub | `infrastructure/realtime/notification_hub.go` | clients per account, subscriptions per client | `Handle`, `Publish*`, `writeStream`, `add`, `remove` | browsers |
| realtime consumer | `events/rabbitmq/realtime_consumer.go` | deliveries buffered | `consumirMensajes`, the loop around it | RabbitMQ, hub |
| auth consumer | `events/rabbitmq/auth_consumer.go`, `NotificationServices.go` | `isPaused`, sleeping timers; codes in Redis | `runWorkers`, `SendOtpService` | RabbitMQ (the same queue as the notification consumer), e-mail provider, Redis |
| one-time code routes | `in/handlers/emails`, `core/emails`, `out/services/emails` | codes in Redis (the same keys) | `POST /emailotp`, `POST /emailotpRegister` | provider, Redis, HTTP clients |
| inbox | `inbox_handler.go`, `ListInbox`, `ListCategories`, `UnreadCount` | none; the cursor is the client's | `GetInbox`, `GetCategories` | Postgres, browsers |
| broker connection | `infrastructure/brokers/*.go` | the shared connection, the first channel | `NewRabbitMQChannel`, `Channel`, `Close` | RabbitMQ, all consumers |
| life cycle | `fx` hooks in `server.go`, `postgres.go`, `rabbitmq.go` | - | start and stop order | all |

Messages are delivered at least once: what is not confirmed when a channel
closes returns to the queue. The workers of a consumer share a Go channel;
workers, flusher, realtime goroutine and the goroutine of each socket share the
hub; the three consumers share the connection manager; the processes share
Redis, Postgres and the queues. The hard behaviours follow: redelivery while a
worker still holds the old delivery, a crash between a write and its ack, a
commit whose answer is lost, a read and a write of Redis without a lock around
them, locks and keys that expire under their user, sockets that change while a
publisher walks through its copy, three loops that redial at once, a mail and a
key of Redis that nothing ties together, and a list that is read page by page
while transactions commit out of order. `hazards`
in `PROJECT.json` lists them by line.

What makes each component correct:

- consumer and store: a confirmed message is kept, no event has two rows or two
  pushes, a row is never visible without the deliveries its category allows,
  every message settles;
- debouncer: no confirmed event is lost, counted twice or left without a date,
  and every digest leaves;
- hub: subscribers that stay are served once, nothing follows a `complete`, one
  writer per socket, the map follows the open sockets, order of the feed;
- shared queue: a message is confirmed only by the consumer it is for, each
  delivery is in one hand, pauses end;
- connection: one connection, everyone comes back, a stop completes;
- codes: what Redis accepts was mailed for that purpose, the last mail is the
  valid one, the client is told whether there is a mail;
- inbox: pages show each row once, a filter holds what it promises, and the list
  makes up for what was not pushed.

## Modules

| module | models | used by |
|---|---|---|
| `ChannelPolicy` | the pure part of `Execute`: which deliveries a notification gets | `NotificationConsumer` |
| `IntakeContract` | abstract: what the intake promises a publisher | refined by `NotificationConsumer` |
| `NotificationConsumer` | consumer, `Execute` and `Save`, call by call | `MCNotificationConsumer`, `NotificationConsumerProofs` |
| `NotificationDebouncer` | `Enqueue`, `flushDue`, `flushOne` against Redis | `MCNotificationDebouncer`, `NotificationDebouncerProofs` |
| `Gateway` | abstract: who gets which event, at most once | refined by `NotificationHub` |
| `NotificationHub` | sockets, publishers, realtime consumer | `MCNotificationHub`, `NotificationHubProofs`, `NotificationHubRefinement` |
| `SharedQueue` | both consumers of the main queue | `MCSharedQueue`, `SharedQueueProofs` |
| `OneTimeCodes` | the three ways a code is mailed and kept, call by call | `MCOneTimeCodes`, `OneTimeCodesProofs` |
| `BrokerConnection` | topology, connection manager, the three loops, the users of the pool, start and stop | `MCBrokerConnection`, `BrokerConnectionProofs` |
| `Inbox` | the pages and counts of one account next to the writers of its rows | `MCInbox`, `InboxProofs` |

`MC*` modules only give values to constants. Definitions whose comment begins
with *Mutant* are altered copies of an action that the runs must reject; no
specification uses them.

### NotificationConsumer

State: the broker's places for a message (`queue`, `unacked`, `acked`, `dlq`,
`dropped`), the client's buffer (`buffered`), and per worker the next call
(`pc`), the delivery (`msg`) and the planned deliveries (`plan`); then the rows
(`notifications`, `deliveries`, `nextId`), the pushes (`published`) and the
events handed to the debouncer (`grouped`).

`handle` is `Receive` followed by one action per call: `EnqueueOk/Error`,
`FindCategory`, `FindUserSettings`, `InsertNotification`, `InsertDeliveries`,
`Commit`, `Publish`, and an exit: `Ack`, `NackRequeue`, `Discard`, `Retry`,
`GiveUp`. `CallFails` is an error of any of the calls; for `Commit` the
transaction may have been applied. `InsertNotification` blocks while another
transaction holds the same event, as the unique index does. `LoseConnection`
hands unconfirmed messages back at once while workers go on, and `Reconnect`
waits for them, as `wg.Wait` does. `Crash` forgets the process, `Reinject` is an
operator who republishes from `notify.dlq`. The debouncer is one call here; its
inside is the next module's, so an event in `grouped` counts as kept here, and
`debouncer_race` shows how Redis may still lose it. A queue has its dead letter
exchange or, when it is an old one, has none (`DeadLettering`): a rejected
message is set aside or gone. One process is modelled.

### NotificationDebouncer

State: `data` (the digest under a key: its events in order and `StartedAt`),
`due`, `lock`, `digests` (stored), per worker `pc`, `ev`, `draft` (what it
read), per process a flusher with `fpc`, `batch`, `at`, `got`. `Enqueue` is
`EnqueueRead` (the `Get`) and `EnqueueWrite` (the `TxPipeline`); `flushDue` is
`Lookup`, `Lock`, then `FlushGet`, `Execute`, `Delete` (or `Forget`,
`RetryLater`), `Unlock`. Time is not counted: `Elapse`, `LockExpires`,
`DataExpires` may happen whenever the period they end is running.
`LongOutage` says whether an outage may outlast the ten minutes of the data:
`DataExpires` then hits any digest whose minute window is over, whether its
flushes failed or no process was there to try one.

Abstractions: `count`, last event and actors are functions of the event
sequence; one `source_service` per key; `StartedAt` is unique; the digest's
`Execute` is one step (its inside is `NotificationConsumer`); JSON the program
wrote itself decodes.

`disturbed` is a history variable: keys of which a copy was read while another
copy was out, or whose flush was cut between commit and delete. `expired` is
another: the events that were in Redis when the TTL of their key ran out, which
disturbs nothing. No action reads either. They separate what the code guarantees
from the race and the expiry it has.

### NotificationHub

State: per socket the step of `Handle` (`phase`), `account`, `current` client,
`inits`; the hub's map (`registered`) and `subs`; per publisher the event, the
copied recipients (`todo`), the client it holds the lock of (`at`), the ids
still to write (`left`); the realtime queue (`link`, `ready`, `buffer`,
`unacked`, `settled`). A client is a pair of a socket and the number of its
`connection_init`, since each one makes a new client; `Remove` takes the last
one only, as the code does. `Snapshot` is the copy
under `h.mu`, `Enter`/`Write`/`Exit` is `writeStream`. A publisher is a socket
(`typing`), a worker or flusher that stored a notification (`Bells`), or the
realtime goroutine. `owed` and `seen` are history. The library's pool of
connection objects is not modelled: a write after `Handle` is over fails.

`Gateway` says the same without copies, locks and sockets: a publication has
subscriptions it must reach (`due`, those that ask for the event when it starts
and stay) and some it may still reach (`may`); each is written at most once,
only while it asks, and a notification only to its user. A publication ends when
nothing is due. The refinement mapping takes the subscriptions of clients whose
socket `Handle` serves for `asks`, what is left of the copied recipients for
`may`, and the history `owed` for `due`. A client that breaks, or whose write
fails, is forgiven in both.

### SharedQueue

`module.email.go` and `module.notifications.go` give both consumers the same
queue. The auth consumer is modelled action by action (`Receive`, `Send`, `Pause`,
`GiveBack`, `Paused`, `Wake`, `EndPause` for each sleeping goroutine), the
notification consumer a message at a time (`Process`, `ProcessFails`,
`DiscardForeign`). What the latter sets aside goes to `notify.dlq`, or is
`dropped` when the queue has no dead letter exchange (`DeadLettering`). A message
has a kind: a code, an object without a code, a notification, a notification
that misfits `AuthEventDTO` (a field of another type), or no JSON. The auth
consumer confirms the last two unread. A crash clears the pause and its timers.

### OneTimeCodes

A job is a message (`SendOtpService`) or a request of one of the two routes, and
has a code of its own. Its steps are the calls of the code in their order:
`Decode`, `Validate` (requests only), `ParseTemplate`, `Send`, `Cache`, the
answer or the ack. Each may fail, with the status its constructor in `errors.go`
carries, which `sendEmailsOtpHandler.go` turns into a 422. `SendUnreported` is a
mail that went out although the call failed, `CacheFails` the error of
`SetCache` that no caller reads, `Expire` the five minutes of a key. The keys
are those of `KeyOf`; `PurposeOf` says what a code is for, and so under which
key the auth service will look: a login is for its challenge, also when its
message names none (`Nameless`), although `SendOtpService` then keeps the code
under the address, where it stands for a registration. The properties name that
case. `/emailotpRegister` demands a code of six characters and mails another
one: `Validate` is the same for both. `disturbed` (history) names the purposes
of which two codes were between mail and Redis at once, or one of them was cut
off there.

### Inbox

One account. A row goes from `Begin` (its `created_at` is the time the
transaction began) to `Commit` or `Rollback`, then to `Publish`, or to
`NotPushed` when its process died or is not the one the browser is connected to.
Another service sets `read_at`, time passes `expires_at`. The browser subscribes,
asks for the filters with their counts of rows and of unread ones
(`ListCategories`), opens a list and scrolls. `GetInbox` is
two queries of different moments, `ListInbox` and `UnreadCount`; `RequestFails`
stands for either error and for the five seconds. `Newest` is the page as a set,
`NextCursor` the key of its last row. A time is one of a few moments, so that
equal ones happen. `there` and `live` are history; `promised` is forgotten when
the table changes. A request without an account, or with a cursor the program
did not write, gets an error and changes nothing.

### BrokerConnection

`phase` goes through the declarations (`Declare`, and on an old queue the 406
path `Reopen`, `DeclarePlain`; `Bind`), the `Start` of each consumer in the
order of the Invokes, service, and the `OnStop` hooks in reverse order of the
constructors (`StopHttp`, `ClosePool`, `CloseBroker`). A connection may be dead
before anyone notices (`Notice`). `Lock`, `Dial`/`DialFails`, `OpenChannel` are
`rabbitConnectionManager.Channel`; `ChannelFails` is a live connection that
opens no channel, which the manager forgets without closing it; `StreamEnds`,
`Register`, `Wake` the loop around it. A `Start` that fails leaves its consumer
"given up": the code logs and never tries it again. The growing sleep is a step.
`held` are the users of Postgres with an open transaction: `pool.Close` waits
for them (`PoolCloses`).

## Runs

| run | instance | shows |
|---|---|---|
| `consumer` | 2 workers, an event twice in the mandatory category and a debounced one, queue with and without dead letter exchange; prefetch 2, 1 fault | `AckedIsKept`, `OnePlace`, `OneHandler`, `OneRowPerEvent`, `DeliveriesMatchCategory`, `PushOnceAfterStore`, `EveryMessageSettles`, `ImplementsContract` |
| `consumer_retry` | as `consumer`, with an unreadable message | **violated**: `AsideAfterMaxAttempts` |
| `debouncer` | 2 processes with worker and flusher, 2 events of one key, locks and data expire, 1 fault | `QuietKeysLoseNothing`, `QuietKeysAreScheduled`, `LockExcludes`, `CountedOnce` |
| `debouncer_live` | 1 process, 2 workers, short outages | `PendingIsScheduled`, `PendingLeavesAsDigest`, `EveryPendingLeaves` |
| `debouncer_race` | 1 process, 2 workers, no fault | **violated**: `NothingIsLost` |
| `hub` | 2 sockets of any of 2 accounts, a notification to each, typing | `ImplementsGateway`, `OneWriter` |
| `hub_live` | 1 socket with 2 inits under any of 2 accounts, 3 messages, 1 lost link | `HubKnowsOpenSockets`, `FeedInOrder`, `EveryMessageIsSettled` |
| `shared` | a code, an object without one, a notification, one that misfits `AuthEventDTO`, old queue, 2 timers, 1 fault | `ConfirmedByItsOwner`, `EachDeliveryIsHeldOnce`, `PauseEnds`, `EveryMessageLeaves` |
| `shared_otp` | a code, an object without one, no JSON, queue with dead letter exchange, no fault | **violated**: `OtpIsNotSetAside` |
| `broker` | 3 consumers, one refused, old queue, 2 outages, 1 channel that a live connection does not open, 1 user of the pool | `OneConnection`, `ConsumersReturn`, `StopCompletes` |
| `codes` | a registration, a login and a login without challenge from the queue, a request of each route, one address, 1 fault | `AcceptedCodeWasMailed`, `LastMailIsValid`, `AnswerTellsMail` |
| `inbox` | 3 rows at 2 times, one expires, one is read, one of a withdrawn category; pages of 1 and 2 | `TraversalIsExact`, `FilterKeepsPromise`, `BellOrInbox` |

Each module's `TypeOK` is checked by one of its runs. Deadlock is not checked:
every system here may come to rest, with an empty queue or a stopped process.

Bounds. Two workers, two publishers or two processes are enough for every pair
of steps of the code to interleave: no action looks at more than one other actor
(except `Reconnect`, which waits for all). One fault at any point (`MaxFaults`)
gives every crash and every failed call together with the redelivery that
follows; `MaxAttempts = 1` lets a message use up its attempts, `Reinject` is
bounded by `deaths`. `MaxOutages = 2` lets the second outage hit a redial.
`MaxFailures = 1` gives a forgotten connection while others consume on it.
`MaxInits = 2` gives a replaced client; `MaxTimers` bounds sleeping goroutines,
`MaxLosses` lost links. `shared` runs on an old queue, whose deleted messages no
property tells from those set aside; the proofs are about both. In `hub_live` no
notification is published and in `hub` no comment: each has the events its
properties are about. `consumer` and `debouncer` are as small as the
combinations of their cases allow; their invariants are proved for instances of
any size. Three rows are the least for a page, a cursor between two rows and one
committed late; `MaxClock = 2` gives equal and different times. In `codes` each
pair of routes meets, and one address for all is the worst case. The third
consumer of `broker` is refused, so that two loops redial and the closing of the
shared channel happens. Its user of the pool is a worker that also consumes; the
flusher, whose steps are those of a user without a stream, is left out there.
Worker, socket and message symmetry is used only in runs without liveness.

Fairness. `Fairness` in each module gives: weak fairness to goroutines that can
go on and to the reconnection loops, which have no exit; strong fairness to
taking the head of a FIFO queue or Go channel and to mutexes (`sync.Mutex` hands
over to a waiter after a millisecond, so nobody starves); weak fairness to
tickers and expiries. Nothing is assumed of crashes, outages, browsers or of
when the process is stopped. An assumption the code does not enforce is marked
in the module: the broker comes back (`ComeBack`). In `SharedQueue`, RabbitMQ is
assumed to take turns between the consumers of a queue; in `BrokerConnection`,
Postgres to answer an open transaction; in `NotificationConsumer`, a push to
return. That a WebSocket write returns is not assumed in `NotificationHub`,
since the code sets no write deadline: `WritesReturn` is the hypothesis of
`EveryMessageIsSettled`. `Inbox` and `OneTimeCodes` state no fairness; the mail
of a route is sent without a deadline, and nothing here says that its client
gets an answer.

## What the violated runs show

- `consumer_retry`: the comment in `notification_consumer.go:174` promises that a
  passing failure is retried up to a limit. `Nack(false, false)` sends it to
  `notify.dlq`, and no queue leads back: the first failure is final.
- `debouncer_race`: `Enqueue` reads and writes the digest in two calls. Two
  workers that hold an event of one key each write their own merge; the second
  one erases the first event, which is confirmed.
- `shared_otp`: the two consumers share a queue, and the notification consumer
  sets aside every code RabbitMQ hands it; the mail is never sent.

Other behaviours the models contain, which the properties leave out on purpose:
a redelivered event is counted again in its digest (`CountedOnce` is about
events delivered once); with `LongOutage` the TTL deletes a digest that was not
flushed for ten minutes; with two processes `Forget` may remove the date of an
event written in between; an earlier timer ends the pause of a later failure;
the auth consumer confirms what `AuthEventDTO` does not decode, and nothing is
made of it, where `agents/specs/SSD_001_notifications_hub.md:275` says of an
invalid JSON that it ends in the DLQ (`auth_consumer.go:113-114`): also a valid
notification with a field of another type (`ConfirmedByItsOwner` exempts both);
a mail that failed is requeued at once, where the comment speaks of a waiting
queue; a request whose code Redis did not take gets a 200; a login that names no
challenge overwrites the code of a registration; a consumer whose `Start` failed
stays out; the pool closes while the consumers work, whose calls fail from then
on; a connection the manager forgot stays open behind it; the service starts on
a queue without dead letter exchange, where
`agents/specs/SSD_001_notifications_hub.md:267` says it does not; and a second
`connection_init` leaves the first client in the hub's map, which
`HubKnowsOpenSockets` states, and writes its answer while a publisher may be
writing to it.

## What is proved

For every value of the constants that satisfies the module's assumption
(`ConsumerAssumption` with `ChannelPolicy`'s definitions, `DebouncerAssumption`,
`HubAssumption` and so on). Only `Inbox` assumes a finite set.

`NotificationConsumerProofs`: `TypeCorrect`, `ConfirmedIsKept`,
`NothingVanishes`, `OneHandlerAlways`, `Idempotent`, `BellRingsOnce`,
`DeliveriesComplete` and `Refinement` (`Spec => ImplementsContract`). The
properties are not inductive alone: that an ack answers for a kept event depends
on what its worker knew at each call, and that in turn on no one else inserting
the same event. `IInv` adds `PlacesInv` (the broker's places partition the
messages, and what the consumer buffers is unsettled), `HandInv` (a delivery in
hand is unsettled and in one hand), `CallInv` (what a worker knows at each
call), `AloneInv` (one uncommitted and one unpublished row per event) and
`RowsInv`. Each part has a step lemma with one step per action; `Refinement`
uses `IInv` in both states and maps each action to a step of the contract or to
a stutter.

`NotificationDebouncerProofs`: `TypeCorrect`, `OneFlusherPerKey`,
`OnlyDisturbedKeysLose`, `QuietDigestsAreScheduled`, `RacesNeverMultiply`,
`DigestsLeaveStored` (under `~LongOutage`). `CopyInv` says that every copy of an
event, in Redis, in a draft, in a flusher or in a stored digest, has the same
place in the same digest; `QuietInv` that an undisturbed key has at most one
copy out, which is up to date. So an event is lost only with a disturbed key or
by the TTL (`expired`). `OneProcessSchedules` holds under two hypotheses,
those of `debouncer_live`: one process, and outages shorter than the TTL.
Without either the code does leave a digest without a date. `SoleInv` says that
nobody but the one flusher takes a digest away, so it never reaches `Forget`.

`NotificationHubProofs`: `TypeCorrect`, `HubIsExact`, `OneWriterAlways`,
`FeedIsInOrder`, `SettledInOrder`, `FeedVanishesNever`, for every set of
sockets, accounts, ids, topics and publishers, every feed, and any bound on
inits and lost links. `HubInv` is about the map: `HandleInv` ties the current
client of a socket to its entry, `LastInv` the entries that stay behind to the
inits before it, `ClientInv` says that a client is registered once and asks for
nothing before its ack is written. `PubInv` is about publishers: `VisitInv` (a
lock has one holder, who writes only to ids that still ask), `AddressInv` (a
notification is on its way to clients of its user), `OwedInv` (what is owed is
still in `todo` or in `left`). A publisher disturbs none of `HubInv`
(`OthersHub`), so the two parts are proved apart. `FeedInv` says that without a
lost link what waits at the broker and in the buffer is in order and behind all
that was written. `LineInv` needs no such condition: what is not settled stands
in one line, delivered before waiting, and is the rest of the feed in its order;
on an open channel the delivered part is the message being published and the
buffer behind it. So what the consumer settles is always the head of the line
(`SettlesFirst`).

`NotificationHubRefinement`: `Refinement` (`Spec => ImplementsGateway`). One
lemma per action maps it to a step of `Gateway` or to a stutter, from `IInv` in
both states. `UserIs` turns the user a client has under the mapping into an entry
of the map; `OwedInv` gives that nothing due is passed over, `AddressInv` that
what is written goes to its user. Every write to a socket that `Handle` no
longer serves is a `Pass`.

`OneTimeCodesProofs`: `TypeCorrect`, `AcceptedWasMailed`, `LastMailValid`,
`ClientIsTold`. `OneTimeCodesAssumption` states what each code is for;
`NobodysKey` says that the key of a login without challenge is never set.
`StepInv` says what the step of a job tells of its mail; `RaceInv` that an
undisturbed purpose has at most one code between template and Redis, and that it
is the one mailed last.

`SharedQueueProofs`: `TypeCorrect`, `ConfirmedByOwner`, `PauseHasItsEnd`,
`DeliveriesAreHeldOnce`. `HandInv` says what a worker of the auth consumer knows
at each call: it sends only codes, and confirms one only after the provider took
it. `PauseIsTimed` and `EachDeliveryIsHeldOnce` are inductive, both with
`TypeOK`: the second says nothing of hands while the channel is closed, and
`ReconnectAuth` finds them empty because `runWorkers` has returned.

`BrokerConnectionProofs`: `TypeCorrect`, `OneConnectionAlways`,
`OneDialPerOutage`, `BoundNeverBlocks`. `MutexInv` says that whoever is past
`Lock` holds the mutex alone, `DialInv` that who dials has seen that no
connection is open. `DialsInv` counts the connections: while none is open, there
are no more than outages and channels that failed (and one for the manager's
`Close`). `BoundNeverBlocks` follows from it: `Connections` is large enough that
`Dial` is never held up by the model, which is what makes `ConsumersReturn` say
something.

`InboxProofs`: `TypeCorrect`, `PagesAreExact`, `PromiseIsKept`, `NoGap`, for
every finite set of rows and every distribution of timestamps. The keys
`(created_at, notification_id)` are a strict order (`BeforeIsOrder`), and
`PageFits` says what `ORDER BY ... LIMIT` leaves. `SeenInv` puts what was read
on its side of the cursor, `LeftInv` what was not read below the cursor or below
the page under way; `PromiseInv` says that a promise is about the table as it
still is, `BellInv` that a pushed row was there at the first page or came by the
socket. `TableKeepsList` shows once that no writer disturbs a list.

Only model-checked: liveness and everything that needs fairness
(`EveryMessageSettles`, `EveryPendingLeaves`, `EveryMessageIsSettled`,
`PauseEnds`, `EveryMessageLeaves`, `ConsumersReturn`,
`StopCompletes`), which is out of the prover's reach. Every invariant and every
action property of a passing run is stated by a theorem. Four theorems are about
formulas that no run lists: `SettledInOrder`, `FeedVanishesNever`,
`PauseHasItsEnd` and `BoundNeverBlocks`, each stated beside its proof.

## Not modelled

The registration of routes and the middleware, templates and wording, the fields
of a body that only decide between valid and invalid, JSON conversion of
payloads, the size of the Postgres pool, real time. `GetRedisClient` panics when
Redis does not answer its first use: in `NewNotificationDebouncer` the process
does not start; in a `SetCache` of an auth worker, which may come first, a
running process dies; in one of a route the `recover` middleware answers with an
error. `GetCache`, `DeleteCacheByPrefix`, `BuildRedisKey` and `CloseAll` of
`redis.go` have no caller. The websocket library's pool of connection objects is
outside of `src/`.

## Plan

Done: inventory; every component of the table above is modelled and checked, the
life cycle and the configuration as far as they keep state. Every module with a
system in it is proved: types, each invariant and action property of a run, and
the refinements `ImplementsContract` and `ImplementsGateway`.

Left, in this order:

1. `NotificationHub`: the sockets that send `connection_init` twice. Which of
   their clients stay in the map is stated and proved; what such a socket still
   gets, and when its first client is forgiven, is a property of its own.
2. `NotificationDebouncer`: an abstract specification of a digest (open, grow,
   leave once) that undisturbed keys implement, with `CopyInv` and `QuietInv` as
   the invariant of the mapping.
3. `SharedQueue`: what `ConfirmedByItsOwner` leaves open, that a code the
   provider took is mailed again only after a lost confirmation.
