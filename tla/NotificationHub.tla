--------------------------- MODULE NotificationHub ---------------------------
(***************************************************************************)
(* The WebSocket gateway (notification_hub.go) and the consumer that feeds *)
(* it comments, likes, follows and live chat (realtime_consumer.go).       *)
(*                                                                         *)
(* Each socket has a goroutine that runs Handle.  Who publishes is the     *)
(* goroutine of the realtime consumer, a worker or flusher that stored a   *)
(* notification, and Handle itself for "typing".  A publisher copies its   *)
(* recipients under the lock of the hub, then visits them one at a time    *)
(* under the lock of each client, while sockets come, go and change their  *)
(* subscriptions.                                                          *)
(***************************************************************************)
EXTENDS Naturals, Sequences, FiniteSets

Seqs == INSTANCE SequencesExt

CONSTANTS
  Sockets, Accounts, SubIds,
  Topics,       \* a video's comments, a creator's follows, a live chat
  Bell,         \* the stream "notification"
  NoStream, NoAccount, NoClient,
  Feed,         \* messages of realtime_websocket_queue: the topic of each, or
                \* NoStream when its body does not decode
  Bells,        \* workers and flushers, each with a notification to push
  BellTo,       \* the user of that notification
  Realtime,     \* the goroutine of the realtime consumer
  MaxInits,     \* bound: connection_init messages on a socket
  MaxLosses     \* bound: lost broker connections

Streams    == Topics \cup {Bell}
Publishers == Sockets \cup Bells \cup {Realtime}
Clients    == Sockets \X (1 .. MaxInits)
Owner(c)   == c[1]
Subscriptions == Clients \X SubIds

ASSUME HubAssumption ==
  /\ Bell \notin Topics /\ NoStream \notin Streams
  /\ NoAccount \notin Accounts /\ NoClient \notin Clients
  /\ Feed \in Seq(Topics \cup {NoStream})
  /\ BellTo \in [Bells -> Accounts]
  /\ Realtime \notin Sockets \cup Bells /\ Sockets \cap Bells = {}
  /\ MaxInits \in Nat /\ MaxLosses \in Nat

VARIABLES
  \* Handle, one per socket
  phase,       \* "reading", "acking", "typing", "returned" or "gone"
  account,     \* accountID
  current,     \* the client of the last connection_init
  inits,       \* connection_init messages handled
  broken,      \* sockets whose network connection failed
  \* the hub
  registered,  \* h.clients, as pairs of an account and a client
  subs,        \* c.subscriptions
  \* writeStream, per publisher
  event,       \* what it is publishing
  todo,        \* recipients still to visit
  at,          \* the client whose lock it holds
  left,        \* subscription ids of that client still to write
  rung,        \* notifications published
  \* the realtime queue
  link, ready, buffer, unacked, settled,
  \* history: subscriptions a publisher owes a message, feed messages each
  \* subscription id of a socket was sent, lost broker connections
  owed, seen, losses

handleVars == <<phase, account, current, inits>>
hubVars    == <<registered, subs>>
pubVars    == <<event, todo, at, left, rung>>
feedVars   == <<link, ready, buffer, unacked, settled, losses>>
history    == <<owed, seen>>
vars == <<handleVars, broken, hubVars, pubVars, feedVars, history>>

Messages == DOMAIN Feed
Event    == [stream: Streams, to: Accounts \cup {NoAccount}, seq: Messages \cup {0}]
NoEvent  == [stream |-> NoStream, to |-> NoAccount, seq |-> 0]
Idle(p)  == event[p] = NoEvent

TypeOK ==
  /\ phase \in [Sockets -> {"reading", "acking", "typing", "returned", "gone"}]
  /\ account \in [Sockets -> Accounts \cup {NoAccount}]
  /\ current \in [Sockets -> Clients \cup {NoClient}]
  /\ inits \in [Sockets -> 0 .. MaxInits]
  /\ broken \subseteq Sockets
  /\ registered \subseteq [account: Accounts, client: Clients]
  /\ subs \in [Clients -> [SubIds -> Streams \cup {NoStream}]]
  /\ event \in [Publishers -> Event \cup {NoEvent}]
  /\ todo \in [Publishers -> SUBSET Clients]
  /\ at \in [Publishers -> Clients \cup {NoClient}]
  /\ left \in [Publishers -> SUBSET SubIds]
  /\ rung \subseteq Bells
  /\ link \in {"up", "down"}
  /\ ready \in Seq(Messages) /\ buffer \in Seq(Messages) /\ unacked \in Seq(Messages)
  /\ settled \subseteq Messages /\ losses \in 0 .. MaxLosses
  /\ owed \in [Publishers -> SUBSET Subscriptions]
  /\ seen \in [Sockets \X SubIds -> SUBSET Messages]

Init ==
  /\ phase = [s \in Sockets |-> "reading"]
  /\ account = [s \in Sockets |-> NoAccount]
  /\ current = [s \in Sockets |-> NoClient]
  /\ inits = [s \in Sockets |-> 0]
  /\ broken = {} /\ registered = {}
  /\ subs = [c \in Clients |-> [id \in SubIds |-> NoStream]]
  /\ event = [p \in Publishers |-> NoEvent]
  /\ todo = [p \in Publishers |-> {}]
  /\ at = [p \in Publishers |-> NoClient]
  /\ left = [p \in Publishers |-> {}]
  /\ rung = {}
  /\ link = "up" /\ ready = [m \in Messages |-> m]
  /\ buffer = <<>> /\ unacked = <<>> /\ settled = {} /\ losses = 0
  /\ owed = [p \in Publishers |-> {}]
  /\ seen = [x \in Sockets \X SubIds |-> {}]

\* Mutant: writeStream, subscribe and complete without the lock.
NeverLocked(c) == TRUE

\* c.mu: nobody is inside writeStream for this client.
Unlocked(c) == \A p \in Publishers : at[p] # c

\* History only: what ends with a subscription, or with its socket.
Forgive(ended) ==
  /\ owed' = [p \in Publishers |-> owed[p] \ ended]
  /\ UNCHANGED seen
ForgiveSocket(s) == Forgive({x \in Subscriptions : Owner(x[1]) = s})
Goto(s, next) == phase' = [phase EXCEPT ![s] = next]

-----------------------------------------------------------------------------
(* Handle: one message of the browser at a time. *)

\* connection_init: the client is in the hub before its answer is written, and
\* the client of an earlier connection_init stays there.
ConnectionInit(s, a) ==
  /\ phase[s] = "reading" /\ s \notin broken /\ inits[s] < MaxInits
  /\ inits' = [inits EXCEPT ![s] = @ + 1]
  /\ account' = [account EXCEPT ![s] = a]
  /\ current' = [current EXCEPT ![s] = <<s, inits[s] + 1>>]
  /\ registered' = registered \cup {[account |-> a, client |-> <<s, inits[s] + 1>>]}
  /\ Goto(s, "acking")
  /\ UNCHANGED <<broken, subs, pubVars, feedVars, history>>

\* Mutant: no test of x-account-id.
AnonymousAccepted(s) ==
  /\ phase[s] = "reading" /\ s \notin broken /\ inits[s] < MaxInits
  /\ inits' = [inits EXCEPT ![s] = @ + 1]
  /\ account' = [account EXCEPT ![s] = NoAccount]
  /\ current' = [current EXCEPT ![s] = <<s, inits[s] + 1>>]
  /\ registered' = registered \cup {[account |-> NoAccount, client |-> <<s, inits[s] + 1>>]}
  /\ Goto(s, "acking")
  /\ UNCHANGED <<broken, subs, pubVars, feedVars, history>>

\* connection_init without x-account-id: an error is written and the loop ends.
Anonymous(s) ==
  /\ phase[s] = "reading" /\ s \notin broken /\ inits[s] < MaxInits
  /\ inits' = [inits EXCEPT ![s] = @ + 1]
  /\ account' = [account EXCEPT ![s] = NoAccount]
  /\ Goto(s, "returned")
  /\ ForgiveSocket(s)
  /\ UNCHANGED <<current, broken, hubVars, pubVars, feedVars>>

\* connection_ack is written without the lock of the client.
AckInit(s) ==
  /\ phase[s] = "acking"
  /\ Goto(s, IF s \in broken THEN "returned" ELSE "reading")
  /\ UNCHANGED <<account, current, inits, broken, hubVars, pubVars, feedVars, history>>

Subscribe(s, id, stream) ==
  /\ phase[s] = "reading" /\ s \notin broken
  /\ current[s] # NoClient /\ Unlocked(current[s])
  /\ subs' = [subs EXCEPT ![current[s]][id] = stream]
  /\ Forgive({<<current[s], id>>})
  /\ UNCHANGED <<handleVars, broken, registered, pubVars, feedVars>>

Complete(s, id) ==
  /\ phase[s] = "reading" /\ s \notin broken
  /\ current[s] # NoClient /\ Unlocked(current[s])
  /\ subs' = [subs EXCEPT ![current[s]][id] = NoStream]
  /\ Forgive({<<current[s], id>>})
  /\ UNCHANGED <<handleVars, broken, registered, pubVars, feedVars>>

\* The connection breaks: every write fails from now on, and so does the read.
Break(s) ==
  /\ phase[s] # "gone" /\ s \notin broken
  /\ broken' = broken \cup {s}
  /\ ForgiveSocket(s)
  /\ UNCHANGED <<handleVars, hubVars, pubVars, feedVars>>

\* ReadJSON fails, or the message is one Handle does not go on after: a payload
\* that does not decode, a subscribe too early, without id or without variables.
Leave(s) ==
  /\ phase[s] = "reading"
  /\ Goto(s, "returned")
  /\ ForgiveSocket(s)
  /\ UNCHANGED <<account, current, inits, broken, hubVars, pubVars, feedVars>>

\* Mutant: the whole account is forgotten with one of its sockets.
RemoveAccount(s) ==
  /\ phase[s] = "returned"
  /\ registered' = {r \in registered : r.account # account[s]}
  /\ Goto(s, "gone")
  /\ UNCHANGED <<account, current, inits, broken, subs, pubVars, feedVars, history>>

\* The deferred remove: this client, under the account of the last init.  The
\* library closes the connection when Handle is over.
Remove(s) ==
  /\ phase[s] = "returned"
  /\ registered' = registered \ {[account |-> account[s], client |-> current[s]]}
  /\ Goto(s, "gone")
  /\ UNCHANGED <<account, current, inits, broken, subs, pubVars, feedVars, history>>

-----------------------------------------------------------------------------
(* Publish, PublishComment, PublishCreatorFollow, PublishLiveChat. *)

Matching(c, e) == {id \in SubIds : subs[c][id] = e.stream}

\* A notification goes to the sockets of its user, the rest to every socket.
Recipients(e) ==
  {r.client : r \in {x \in registered : e.stream = Bell => x.account = e.to}}

\* Handle still runs and the network is there.
Served(s) == phase[s] \notin {"returned", "gone"} /\ s \notin broken

\* The copy under h.mu.
Snapshot(p, e) ==
  /\ Idle(p)
  /\ event' = [event EXCEPT ![p] = e]
  /\ todo' = [todo EXCEPT ![p] = Recipients(e)]
  /\ owed' = [owed EXCEPT ![p] =
       {x \in Recipients(e) \X SubIds :
          x[2] \in Matching(x[1], e) /\ Served(Owner(x[1]))}]
  /\ UNCHANGED <<broken, hubVars, at, left, seen>>

\* Mutant: TryLock, a client that is busy is passed over.
EnterIfFree(p, c) ==
  /\ ~Idle(p) /\ at[p] = NoClient /\ c \in todo[p]
  /\ todo' = [todo EXCEPT ![p] = @ \ {c}]
  /\ IF Unlocked(c)
     THEN /\ at' = [at EXCEPT ![p] = c]
          /\ left' = [left EXCEPT ![p] = Matching(c, event[p])]
     ELSE UNCHANGED <<at, left>>
  /\ UNCHANGED <<handleVars, broken, hubVars, event, rung, feedVars, history>>

\* writeStream takes the lock of the next client and looks for its matches.
Enter(p, c) ==
  /\ ~Idle(p) /\ at[p] = NoClient /\ c \in todo[p] /\ Unlocked(c)
  /\ todo' = [todo EXCEPT ![p] = @ \ {c}]
  /\ at' = [at EXCEPT ![p] = c]
  /\ left' = [left EXCEPT ![p] = Matching(c, event[p])]
  /\ UNCHANGED <<handleVars, broken, hubVars, event, rung, feedVars, history>>

Writable(c) == Owner(c) \notin broken /\ phase[Owner(c)] # "gone"

\* WriteJSON returns: the browser is sent "next" for one of its ids.
Write(p, id) ==
  /\ id \in left[p] /\ Writable(at[p])
  /\ left' = [left EXCEPT ![p] = @ \ {id}]
  /\ owed' = [owed EXCEPT ![p] = @ \ {<<at[p], id>>}]
  /\ seen' = IF event[p].seq = 0 THEN seen
             ELSE [seen EXCEPT ![<<Owner(at[p]), id>>] = @ \cup {event[p].seq}]
  /\ UNCHANGED <<handleVars, broken, hubVars, event, todo, at, rung, feedVars>>

\* WriteJSON fails: the ids that are left are given up.
WriteFails(p) ==
  /\ left[p] # {} /\ ~Writable(at[p])
  /\ left' = [left EXCEPT ![p] = {}]
  /\ UNCHANGED <<handleVars, broken, hubVars, event, todo, at, rung, feedVars, history>>

Exit(p) ==
  /\ at[p] # NoClient /\ left[p] = {}
  /\ at' = [at EXCEPT ![p] = NoClient]
  /\ UNCHANGED <<handleVars, broken, hubVars, event, todo, left, rung, feedVars, history>>

Published(p) == ~Idle(p) /\ at[p] = NoClient /\ todo[p] = {}
Finish(p) ==
  /\ event' = [event EXCEPT ![p] = NoEvent]
  /\ UNCHANGED <<account, current, inits, broken, hubVars, todo, at, left, owed, seen>>

\* A notification was stored: Execute pushes it.
Ring(b) ==
  /\ b \notin rung
  /\ Snapshot(b, [stream |-> Bell, to |-> BellTo[b], seq |-> 0])
  /\ rung' = rung \cup {b}
  /\ UNCHANGED <<handleVars, feedVars>>

RingDone(b) == Published(b) /\ Finish(b) /\ UNCHANGED <<phase, rung, feedVars>>

\* typing: Handle publishes before it reads again.
Typing(s, topic) ==
  /\ phase[s] = "reading" /\ s \notin broken /\ current[s] # NoClient
  /\ Snapshot(s, [stream |-> topic, to |-> NoAccount, seq |-> 0])
  /\ Goto(s, "typing")
  /\ UNCHANGED <<account, current, inits, rung, feedVars>>

TypingDone(s) ==
  /\ phase[s] = "typing" /\ Published(s) /\ Finish(s)
  /\ Goto(s, "reading")
  /\ UNCHANGED <<rung, feedVars>>

-----------------------------------------------------------------------------
(* consumirMensajes and the reconnection loop around it. *)

\* Without Qos the broker sends whatever it has.
Deliver ==
  /\ link = "up" /\ ready # <<>>
  /\ buffer' = Append(buffer, Head(ready))
  /\ unacked' = Append(unacked, Head(ready))
  /\ ready' = Tail(ready)
  /\ UNCHANGED <<handleVars, broken, hubVars, pubVars, link, settled, losses, history>>

\* Mutant: a goroutine per message, so that any of them may be first.
TakeAny(m) ==
  /\ \E i \in DOMAIN buffer :
       /\ buffer[i] = m
       /\ buffer' = SubSeq(buffer, 1, i - 1) \o SubSeq(buffer, i + 1, Len(buffer))
  /\ Feed[m] # NoStream
  /\ Snapshot(Realtime, [stream |-> Feed[m], to |-> NoAccount, seq |-> m])
  /\ UNCHANGED <<handleVars, rung, link, ready, unacked, settled, losses>>

Take(m) ==
  /\ buffer # <<>> /\ m = Head(buffer) /\ Feed[m] # NoStream
  /\ buffer' = Tail(buffer)
  /\ Snapshot(Realtime, [stream |-> Feed[m], to |-> NoAccount, seq |-> m])
  /\ UNCHANGED <<handleVars, rung, link, ready, unacked, settled, losses>>

\* Ack or Nack(false, false) of a message, which has a delivery tag; without
\* effect on a closed channel.  The queue has no dead letter exchange.
Settle(m) ==
  IF link = "up"
  THEN /\ settled' = settled \cup {m}
       /\ \E i \in DOMAIN unacked :
            unacked[i] = m /\ unacked' = Seqs!RemoveAt(unacked, i)
  ELSE UNCHANGED <<settled, unacked>>

TakeDone ==
  /\ Published(Realtime)
  /\ Settle(event[Realtime].seq)
  /\ Finish(Realtime)
  /\ UNCHANGED <<phase, rung, link, ready, buffer, losses>>

\* Mutant: Nack with requeue.
TakeBadRequeued(m) ==
  /\ Idle(Realtime) /\ buffer # <<>> /\ m = Head(buffer) /\ Feed[m] = NoStream
  /\ buffer' = Tail(buffer)
  /\ IF link = "up"
     THEN unacked' = Tail(unacked) /\ ready' = <<m>> \o ready
     ELSE UNCHANGED <<unacked, ready>>
  /\ UNCHANGED <<handleVars, broken, hubVars, pubVars, settled, link, losses, history>>

TakeBad(m) ==
  /\ Idle(Realtime) /\ buffer # <<>> /\ m = Head(buffer) /\ Feed[m] = NoStream
  /\ buffer' = Tail(buffer)
  /\ Settle(m)
  /\ UNCHANGED <<handleVars, broken, hubVars, pubVars, link, ready, losses, history>>

\* The broker takes back, in order, what was not settled; the client may still
\* hand out what it had buffered.
LoseLink ==
  /\ link = "up" /\ losses < MaxLosses
  /\ link' = "down" /\ losses' = losses + 1
  /\ ready' = unacked \o ready
  /\ unacked' = <<>>
  /\ UNCHANGED <<handleVars, broken, hubVars, pubVars, buffer, settled, history>>

\* The range is over, a new channel consumes the queue.
Resume ==
  /\ link = "down" /\ Idle(Realtime)
  /\ link' = "up" /\ buffer' = <<>>
  /\ UNCHANGED <<handleVars, broken, hubVars, pubVars, ready, unacked, settled, losses, history>>

-----------------------------------------------------------------------------
Handle(s) ==
  \/ \E a \in Accounts : ConnectionInit(s, a)
  \/ Anonymous(s) \/ AckInit(s)
  \/ \E id \in SubIds : Complete(s, id) \/ \E st \in Streams : Subscribe(s, id, st)
  \/ \E topic \in Topics : Typing(s, topic)
  \/ TypingDone(s) \/ Leave(s) \/ Remove(s)

WriteStream(p) ==
  \/ \E c \in Clients : Enter(p, c)
  \/ \E id \in SubIds : Write(p, id)
  \/ WriteFails(p) \/ Exit(p)

Consume == Deliver \/ TakeDone \/ Resume \/ \E m \in Messages : Take(m) \/ TakeBad(m)

Next ==
  \/ \E s \in Sockets : Handle(s) \/ Break(s)
  \/ \E p \in Publishers : WriteStream(p)
  \/ \E b \in Bells : Ring(b) \/ RingDone(b)
  \/ Consume \/ LoseLink

Spec == Init /\ [][Next]_vars

\* The goroutines go on and sync.Mutex starves nobody.  That a call of WriteJSON
\* returns is no part of it: writeStream sets no write deadline.
Fairness ==
  /\ WF_vars(Consume)
  /\ \A p \in Publishers :
       WF_vars(Exit(p)) /\ \A c \in Clients : SF_vars(Enter(p, c))
  /\ \A s \in Sockets : WF_vars(TypingDone(s))

FairSpec == Spec /\ Fairness

-----------------------------------------------------------------------------
(* Properties. *)

Writing(p, s) == at[p] # NoClient /\ Owner(at[p]) = s /\ left[p] # {}

\* The promise of Gateway, as the hub keeps it: clients are those of a socket
\* that Handle still serves, under the account of their connection_init.
UserOf(c) ==
  LET accounts == {r.account : r \in {x \in registered : x.client = c}}
  IN  IF Served(Owner(c)) /\ accounts # {} THEN CHOOSE a \in accounts : TRUE
      ELSE NoAccount

Promise == INSTANCE Gateway WITH
  Events <- Event,
  user <- [c \in Clients |-> UserOf(c)],
  asks <- [x \in Subscriptions |-> IF Served(Owner(x[1])) THEN subs[x[1]][x[2]] ELSE NoStream],
  due  <- owed,
  may  <- [p \in Publishers |-> (todo[p] \X SubIds) \cup ({at[p]} \X left[p])]

\* Sockets that subscribe, complete, break and leave while publishers walk
\* through their copies: no subscription that stays misses an event, gets it
\* twice, gets another's notification or anything after its complete.
ImplementsGateway == Promise!Spec

\* WriteJSON allows one writer at a time.  Publishers exclude each other with
\* the lock of the client, and the connection_ack that is written without it
\* meets none of them, for a socket that sends connection_init once.
OneWriter ==
  \A s \in Sockets : inits[s] <= 1 =>
    /\ \A p, q \in Publishers : Writing(p, s) /\ Writing(q, s) => p = q
    /\ phase[s] = "acking" => \A p \in Publishers : ~Writing(p, s)

\* The hub knows the client of a socket's last connection_init, under the account
\* it gave, until Handle is over and no longer.  The clients of the earlier ones
\* are there whatever becomes of the socket: remove takes current, and a second
\* connection_init replaced them in it (notification_hub.go:164).
HubKnowsOpenSockets ==
  \A s \in Sockets :
    /\ {r \in registered : r.client = <<s, inits[s]>>} =
         IF account[s] = NoAccount \/ phase[s] = "gone" THEN {}
         ELSE {[account |-> account[s], client |-> <<s, inits[s]>>]}
    /\ {r.client[2] : r \in {x \in registered : Owner(x.client) = s}} \ {inits[s]} =
         1 .. (inits[s] - 1)

\* Comments, likes and chat reach a subscription in the order of the queue, as
\* long as the broker's connection holds.
FeedInOrder ==
  [][losses = 0 =>
       \A x \in Sockets \X SubIds :
         \A m \in seen'[x] \ seen[x], n \in seen[x] : n < m]_vars

\* What the code leaves to the browsers: each reads, or its connection breaks.
WritesReturn ==
  \A p \in Publishers : WF_vars(WriteFails(p) \/ \E id \in SubIds : Write(p, id))

\* While every write returns, each message of the realtime queue is published and
\* settled in the end, through sockets that come and go, a lost connection and
\* unreadable bodies.  One browser that does not read and stays connected stops
\* the queue for all (notification_hub.go:308).
EveryMessageIsSettled == WritesReturn => \A m \in Messages : <>(m \in settled)
=============================================================================
