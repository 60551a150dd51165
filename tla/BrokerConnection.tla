--------------------------- MODULE BrokerConnection ---------------------------
(***************************************************************************)
(* The life of the process around RabbitMQ: the topology it declares when  *)
(* it starts (rabbitmq.go), the connection its three consumers share and   *)
(* redial (rabbitmq_connection_manager.go and the loops of the consumers), *)
(* and the order in which fx stops it, with the Postgres pool that closes  *)
(* under those who still use it (postgres.go).                             *)
(*                                                                         *)
(* Time is not counted: the growing sleep between attempts is a step.      *)
(***************************************************************************)
EXTENDS Naturals, Sequences, FiniteSets

CONSTANTS
  Order,       \* the consumers, in the order their Start is invoked
  Refused,     \* consumers whose queue the broker refuses: it exists with
               \* other arguments, or may not be consumed
  OldQueue,    \* the main queue exists without a dead letter exchange
  PoolUsers,   \* who takes connections of the pool: a consumer, the flusher
  Nobody,
  MaxOutages,  \* bound: times the broker goes down
  MaxFailures  \* bound: channels that a live connection does not open

Consumers   == {Order[i] : i \in DOMAIN Order}
Connections == 1 .. (MaxOutages + MaxFailures + 2)

ASSUME BrokerAssumption ==
  /\ Order \in Seq(Consumers) /\ Refused \subseteq Consumers
  /\ OldQueue \in BOOLEAN
  /\ Nobody \notin Consumers /\ MaxOutages \in Nat /\ MaxFailures \in Nat

VARIABLES
  phase,     \* of the process: see Phases
  server,    \* RabbitMQ is up
  conns,     \* "unused", "open", "dead" (nobody noticed yet), "closed", or
             \* "forgotten": alive, and out of the manager's hands
  current,   \* the connection the manager keeps, or 0 for nil
  mu,        \* who holds the mutex of the manager
  shared,    \* the channel of NewRabbitMQChannel is open
  onShared,  \* consumers that still use it
  chan,      \* the connection of a consumer's channel
  pc,        \* of a consumer
  held,      \* users that hold a connection of the pool
  outages, failures

managerVars == <<conns, current, mu>>
vars == <<phase, server, managerVars, shared, onShared, chan, pc, held, outages, failures>>

Phases == {"declare", "reopen", "plain", "bind", "consumers", "running",
           "http_stopped", "pool_closing", "pool_closed", "broker_closed", "exited", "aborted"}

\* Types; a consumer that consumes has a channel to consume from.
TypeOK ==
  /\ phase \in Phases
  /\ server \in BOOLEAN /\ shared \in BOOLEAN
  /\ conns \in [Connections -> {"unused", "open", "forgotten", "dead", "closed"}]
  /\ current \in {0} \cup Connections
  /\ mu \in Consumers \cup {Nobody}
  /\ onShared \subseteq Consumers
  /\ chan \in [Consumers -> {0} \cup Connections]
  /\ pc \in [Consumers -> {"new", "consuming", "asking", "dial", "open", "register",
                           "sleep", "given up"}]
  /\ \A c \in Consumers : pc[c] \in {"consuming", "register"} => chan[c] # 0
  /\ held \subseteq PoolUsers
  /\ outages \in 0 .. MaxOutages /\ failures \in 0 .. MaxFailures

\* Dial has worked: otherwise the process does not start.
Init ==
  /\ phase = "declare" /\ server = TRUE
  /\ conns = [k \in Connections |-> IF k = 1 THEN "open" ELSE "unused"]
  /\ current = 1 /\ mu = Nobody
  /\ shared = TRUE /\ onShared = {}
  /\ chan = [c \in Consumers |-> 0]
  /\ pc = [c \in Consumers |-> "new"]
  /\ held = {} /\ outages = 0 /\ failures = 0

Alive == phase \notin {"exited", "aborted"}
InService == phase \in {"declare", "reopen", "plain", "bind", "consumers", "running"}
Goto(c, next) == pc' = [pc EXCEPT ![c] = next]
Works(k) == k \in Connections /\ conns[k] \in {"open", "forgotten"}
\* The manager can tell that there is no connection.
IsClosed == current = 0 \/ conns[current] = "closed"

-----------------------------------------------------------------------------
(* The broker. *)

GoDown ==
  /\ Alive /\ server /\ outages < MaxOutages
  /\ server' = FALSE /\ outages' = outages + 1
  /\ conns' = [k \in Connections |-> IF Works(k) THEN "dead" ELSE conns[k]]
  /\ UNCHANGED <<phase, current, mu, shared, onShared, chan, pc, held, failures>>

ComeBack ==
  /\ ~server /\ server' = TRUE
  /\ UNCHANGED <<phase, managerVars, shared, onShared, chan, pc, held, outages, failures>>

\* A read, a write or a missing heartbeat shows that a connection is dead.
Notice(k) ==
  /\ Alive /\ conns[k] = "dead"
  /\ conns' = [conns EXCEPT ![k] = "closed"]
  /\ UNCHANGED <<phase, server, current, mu, shared, onShared, chan, pc, held, outages, failures>>

-----------------------------------------------------------------------------
(* NewRabbitMQChannel: any error aborts the start, with one exception. *)

Step(next) ==
  /\ phase' = IF Works(1) THEN next ELSE "aborted"
  /\ UNCHANGED <<server, managerVars, onShared, chan, pc, held, outages, failures>>

\* The queue with its dead letter exchange.  On an older queue the broker
\* answers 406 and closes the channel.
Declare ==
  /\ phase = "declare"
  /\ Step(IF OldQueue THEN "reopen" ELSE "bind")
  /\ shared' = ~OldQueue

Reopen ==
  /\ phase = "reopen" /\ Step("plain")
  /\ shared' = Works(1)

\* The queue as it is: what is rejected is deleted from now on.
DeclarePlain == phase = "plain" /\ Step("bind") /\ UNCHANGED shared
Bind         == phase = "bind" /\ Step("consumers") /\ UNCHANGED shared

\* Start of each consumer, on the shared channel.  An error is logged and the
\* consumer is never tried again; one the broker refuses closes the channel.
StartConsumer(i) ==
  LET c == Order[i]
  IN  /\ phase = "consumers" /\ pc[c] = "new"
      /\ \A j \in 1 .. (i - 1) : pc[Order[j]] # "new"
      /\ IF Works(1) /\ shared /\ c \notin Refused
         THEN /\ Goto(c, "consuming")
              /\ chan' = [chan EXCEPT ![c] = 1]
              /\ onShared' = onShared \cup {c}
              /\ UNCHANGED shared
         ELSE /\ Goto(c, "given up")
              /\ shared' = FALSE
              /\ UNCHANGED <<chan, onShared>>
      /\ UNCHANGED <<phase, server, managerVars, held, outages, failures>>

Started ==
  /\ phase = "consumers" /\ \A c \in Consumers : pc[c] # "new"
  /\ phase' = "running"
  /\ UNCHANGED <<server, managerVars, shared, onShared, chan, pc, held, outages, failures>>

-----------------------------------------------------------------------------
(* The loop of a consumer around runWorkers, and the manager's Channel. *)

StreamClosed(c) == conns[chan[c]] = "closed" \/ (c \in onShared /\ ~shared)
Consuming(c)    == pc[c] = "consuming" /\ Works(chan[c]) /\ ~StreamClosed(c)

\* The range is over and every worker has finished.
StreamEnds(c) ==
  /\ Alive /\ pc[c] = "consuming" /\ StreamClosed(c) /\ c \notin held
  /\ Goto(c, "asking")
  /\ onShared' = onShared \ {c}
  /\ UNCHANGED <<phase, server, managerVars, shared, chan, held, outages, failures>>

\* Mutant: Channel without its mutex.
LockNothing(c) ==
  /\ Alive /\ pc[c] = "asking"
  /\ Goto(c, IF IsClosed THEN "dial" ELSE "open")
  /\ UNCHANGED <<phase, server, managerVars, shared, onShared, chan, held, outages, failures>>

Lock(c) ==
  /\ Alive /\ pc[c] = "asking" /\ mu = Nobody
  /\ mu' = c
  /\ Goto(c, IF IsClosed THEN "dial" ELSE "open")
  /\ UNCHANGED <<phase, server, conns, current, shared, onShared, chan, held, outages, failures>>

Dial(c) ==
  /\ Alive /\ pc[c] = "dial" /\ server
  /\ \E k \in Connections :
       /\ conns[k] = "unused" /\ \A j \in 1 .. (k - 1) : conns[j] # "unused"
       /\ conns' = [conns EXCEPT ![k] = "open"]
       /\ current' = k
  /\ Goto(c, "open")
  /\ UNCHANGED <<phase, server, mu, shared, onShared, chan, held, outages, failures>>

\* Mutant: a return without Unlock.
DialFailsLocked(c) ==
  /\ Alive /\ pc[c] = "dial" /\ ~server
  /\ Goto(c, "sleep")
  /\ UNCHANGED <<phase, server, conns, current, mu, shared, onShared, chan, held, outages, failures>>

DialFails(c) ==
  /\ Alive /\ pc[c] = "dial" /\ ~server
  /\ mu' = Nobody
  /\ Goto(c, "sleep")
  /\ UNCHANGED <<phase, server, conns, current, shared, onShared, chan, held, outages, failures>>

\* Mutant: the error of Channel is not looked at, and the nil channel is used.
OpenChannelUnchecked(c) ==
  /\ Alive /\ pc[c] = "open"
  /\ mu' = Nobody
  /\ current' = IF Works(current) THEN current ELSE 0
  /\ chan' = [chan EXCEPT ![c] = current']
  /\ Goto(c, "register")
  /\ UNCHANGED <<phase, server, conns, shared, onShared, held, outages, failures>>

\* conn.Channel(); a connection that turns out dead is forgotten.
OpenChannel(c) ==
  /\ Alive /\ pc[c] = "open"
  /\ mu' = Nobody
  /\ IF Works(current)
     THEN /\ chan' = [chan EXCEPT ![c] = current]
          /\ Goto(c, "register")
          /\ UNCHANGED current
     ELSE /\ current' = 0
          /\ Goto(c, "sleep")
          /\ UNCHANGED chan
  /\ UNCHANGED <<phase, server, conns, shared, onShared, held, outages, failures>>

\* conn.Channel() fails on a connection that lives: it is forgotten as well, and
\* not closed, with the channels that others have on it.
ChannelFails(c) ==
  /\ Alive /\ pc[c] = "open" /\ Works(current)
  /\ failures < MaxFailures /\ failures' = failures + 1
  /\ mu' = Nobody
  /\ current' = 0 /\ conns' = [conns EXCEPT ![current] = "forgotten"]
  /\ Goto(c, "sleep")
  /\ UNCHANGED <<phase, server, shared, onShared, chan, held, outages>>

\* Mutant: Consume once more on the channel that died.
RegisterOld(c) ==
  /\ Alive /\ pc[c] = "register"
  /\ Goto(c, "sleep")
  /\ UNCHANGED <<phase, server, managerVars, shared, onShared, chan, held, outages, failures>>

\* Qos, setupTopology and Consume on the new channel.
Register(c) ==
  /\ Alive /\ pc[c] = "register"
  /\ Goto(c, IF Works(chan[c]) /\ c \notin Refused THEN "consuming" ELSE "sleep")
  /\ UNCHANGED <<phase, server, managerVars, shared, onShared, chan, held, outages, failures>>

Wake(c) ==
  /\ Alive /\ pc[c] = "sleep" /\ Goto(c, "asking")
  /\ UNCHANGED <<phase, server, managerVars, shared, onShared, chan, held, outages, failures>>

-----------------------------------------------------------------------------
(* The pool: a transaction holds a connection until it commits or rolls back. *)

\* What a stream leaves behind in memory when it ends is handled under the last
\* connection here.
Acquire(u) ==
  /\ InService \/ phase = "http_stopped"
  /\ u \in Consumers => pc[u] = "consuming" /\ ~StreamClosed(u)
  /\ u \in PoolUsers \ held /\ held' = held \cup {u}
  /\ UNCHANGED <<phase, server, managerVars, shared, onShared, chan, pc, outages, failures>>

Release(u) ==
  /\ Alive /\ u \in held /\ held' = held \ {u}
  /\ UNCHANGED <<phase, server, managerVars, shared, onShared, chan, pc, outages, failures>>

-----------------------------------------------------------------------------
(* The OnStop hooks, in the reverse order of their constructors. *)

StopHttp ==
  /\ phase = "running" /\ phase' = "http_stopped"
  /\ UNCHANGED <<server, managerVars, shared, onShared, chan, pc, held, outages, failures>>

\* pool.Close gives no connection any more and waits for those in use; the
\* consumers and the flusher go on, and each of their calls fails from now on.
ClosePool ==
  /\ phase = "http_stopped" /\ phase' = "pool_closing"
  /\ UNCHANGED <<server, managerVars, shared, onShared, chan, pc, held, outages, failures>>

PoolCloses ==
  /\ phase = "pool_closing" /\ held = {} /\ phase' = "pool_closed"
  /\ UNCHANGED <<server, managerVars, shared, onShared, chan, pc, held, outages, failures>>

\* ch.Close, then the manager's Close; the loops know nothing of it.
CloseBroker ==
  /\ phase = "pool_closed" /\ mu = Nobody
  /\ phase' = "broker_closed"
  /\ shared' = FALSE
  /\ conns' = IF current = 0 THEN conns ELSE [conns EXCEPT ![current] = "closed"]
  /\ UNCHANGED <<server, current, mu, onShared, chan, pc, held, outages, failures>>

Exit ==
  /\ phase = "broker_closed" /\ phase' = "exited"
  /\ UNCHANGED <<server, managerVars, shared, onShared, chan, pc, held, outages, failures>>

-----------------------------------------------------------------------------
Boot == Declare \/ Reopen \/ DeclarePlain \/ Bind \/ Started
          \/ \E i \in DOMAIN Order : StartConsumer(i)

Resume(c) ==
  \/ StreamEnds(c) \/ Lock(c) \/ Dial(c) \/ DialFails(c) \/ OpenChannel(c)
  \/ ChannelFails(c) \/ Register(c) \/ Wake(c)

Stop == ClosePool \/ PoolCloses \/ CloseBroker \/ Exit

Next ==
  \/ GoDown \/ ComeBack \/ \E k \in Connections : Notice(k)
  \/ Boot \/ \E c \in Consumers : Resume(c)
  \/ \E u \in PoolUsers : Acquire(u) \/ Release(u)
  \/ StopHttp \/ Stop

Spec == Init /\ [][Next]_vars

\* The broker comes back and heartbeats are on; the goroutines go on, Postgres
\* answers and sync.Mutex starves nobody.  Nothing says that the process is ever stopped.
Fairness ==
  /\ WF_vars(ComeBack) /\ WF_vars(Boot)
  /\ \A k \in Connections : WF_vars(Notice(k))
  /\ \A c \in Consumers : WF_vars(Resume(c)) /\ SF_vars(Lock(c))
  /\ \A u \in PoolUsers : WF_vars(Release(u))
  /\ WF_vars(ClosePool) /\ WF_vars(PoolCloses) /\ SF_vars(CloseBroker) /\ WF_vars(Exit)

FairSpec == Spec /\ Fairness

-----------------------------------------------------------------------------
(* Properties. *)

\* The process opens one connection when it starts, one per outage and one per
\* channel that a live connection did not open, however many consumers ask for a
\* channel at once; the loops, which nobody tells of the stop, may open one more
\* behind the manager's Close (rabbitmq_connection_manager.go: Channel).
Closings == IF phase \in {"broker_closed", "exited"} THEN 1 ELSE 0
DialsFollowOutages ==
  \A k \in Connections : conns[k] # "unused" => k <= outages + failures + 1 + Closings

\* "Un solo manejador, compartido por todos los consumidores": however many of
\* them ask for a channel at once, one redials and no second connection opens,
\* now or unnoticed before, and a consumer at work is on the connection the
\* manager knows and closes.  The one exception is a connection the manager
\* forgot because it opened no more channels: it stays open, and who had a
\* channel on it stays at work.
OneConnection ==
  /\ \A k \in Connections : conns[k] = "open" => k = current
  /\ \A c \in Consumers :
       Consuming(c) => chan[c] = current \/ conns[chan[c]] = "forgotten"
  /\ DialsFollowOutages

\* A consumer that has started consumes again after each outage, and after a
\* refused one closed the channel they share, until the process stops.
ConsumersReturn ==
  \A c \in Consumers : pc[c] \notin {"new", "given up"} ~> (Consuming(c) \/ ~InService)

\* A stop completes: it waits in vain neither for a consumer that redials nor
\* for the connections of those whom nobody told to stop.
StopCompletes == phase = "http_stopped" ~> phase = "exited"
=============================================================================
