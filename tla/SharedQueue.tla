----------------------------- MODULE SharedQueue -----------------------------
(***************************************************************************)
(* Two consumers on one queue.  module.email.go and module.notifications.go*)
(* hand the same channel and the same queue to AuthEventConsumer, which    *)
(* mails one-time codes (auth_consumer.go), and to                         *)
(* NotificationEventConsumer: RabbitMQ gives a message to either of them,  *)
(* whatever it carries.  The first is modelled call by call; the second,   *)
(* which NotificationConsumer models, is a step per message here.          *)
(***************************************************************************)
EXTENDS Naturals, FiniteSets

CONSTANTS
  Messages,
  KindOf,      \* "otp", "codeless" (an OTP without code), "notification", or a
               \* body that AuthEventDTO does not decode: "unreadable", or a
               \* valid notification with a field that "misfits" it, such as a
               \* number under "code" or "metadata" that holds one
  Workers,     \* the workers of AuthEventConsumer
  NoMessage,
  DeadLettering, \* whether the queue has its dead letter exchange: TRUE, FALSE
                 \* for one declared before it had, or both
  MaxTimers,   \* bound: sleeping goroutines of ten minutes
  MaxFaults    \* bound: failed calls, lost connections and crashes

Kinds == {"otp", "codeless", "notification", "misfit", "unreadable"}
IsNotification(m) == KindOf[m] \in {"notification", "misfit"}

ASSUME SharedQueueAssumption ==
  /\ KindOf \in [Messages -> Kinds]
  /\ NoMessage \notin Messages /\ DeadLettering \subseteq BOOLEAN
  /\ MaxTimers \in Nat /\ MaxFaults \in Nat

VARIABLES
  place,      \* where the broker has a message: "queue", unconfirmed at "auth"
              \* or at "notify", "acked", in the "dlq", or "dropped" by a queue
              \* without dead letter exchange
  authUp, notifyUp,  \* the channel of each consumer is open
  buffer,     \* delivered to AuthEventConsumer, waiting for a worker
  pc, msg,    \* its workers
  isPaused, timers,
  mailed,     \* the messages whose code the provider took
  stored,     \* notifications in Postgres, or in the debouncer
  faults

brokerVars == <<place, authUp, notifyUp, buffer>>
vars == <<brokerVars, pc, msg, isPaused, timers, mailed, stored, faults>>

Places == {"queue", "auth", "notify", "acked", "dlq", "dropped"}
Busy(w) == pc[w] \notin {"idle", "sleep"}

TypeOK ==
  /\ place \in [Messages -> Places]
  /\ authUp \in BOOLEAN /\ notifyUp \in BOOLEAN /\ isPaused \in BOOLEAN
  /\ buffer \subseteq Messages
  /\ pc \in [Workers -> {"idle", "send", "ack", "pause", "giveback",
                         "paused", "sleep"}]
  /\ msg \in [Workers -> Messages \cup {NoMessage}]
  /\ \A w \in Workers : Busy(w) => msg[w] \in Messages
  /\ timers \in 0 .. MaxTimers
  /\ mailed \subseteq Messages /\ stored \subseteq Messages
  /\ faults \in 0 .. MaxFaults

Init ==
  /\ place = [m \in Messages |-> "queue"]
  /\ authUp = TRUE /\ notifyUp = TRUE /\ buffer = {}
  /\ pc = [w \in Workers |-> "idle"]
  /\ msg = [w \in Workers |-> NoMessage]
  /\ isPaused = FALSE /\ timers = 0
  /\ mailed = {} /\ stored = {}
  /\ faults = 0

Fault == faults < MaxFaults /\ faults' = faults + 1
Goto(w, call) == pc' = [pc EXCEPT ![w] = call]

\* An answer of AuthEventConsumer; a closed channel does not carry it.
Answer(w, where) ==
  place' = IF authUp THEN [place EXCEPT ![msg[w]] = where] ELSE place
Free(w, call) ==
  /\ msg' = [msg EXCEPT ![w] = NoMessage]
  /\ Goto(w, call)

-----------------------------------------------------------------------------
(* The broker: one queue, two consumers. *)

\* AuthEventConsumer sets no prefetch: it is sent whatever there is.
DeliverAuth(m) ==
  /\ authUp /\ place[m] = "queue"
  /\ place' = [place EXCEPT ![m] = "auth"]
  /\ buffer' = buffer \cup {m}
  /\ UNCHANGED <<authUp, notifyUp, pc, msg, isPaused, timers, mailed, stored, faults>>

DeliverNotify(m) ==
  /\ notifyUp /\ place[m] = "queue"
  /\ place' = [place EXCEPT ![m] = "notify"]
  /\ UNCHANGED <<authUp, notifyUp, buffer, pc, msg, isPaused, timers, mailed, stored, faults>>

\* Both channels live on one connection: the broker takes back what was not
\* confirmed.
Disconnect ==
  /\ authUp' = FALSE /\ notifyUp' = FALSE
  /\ place' = [m \in Messages |-> IF place[m] \in {"auth", "notify"} THEN "queue"
                                  ELSE place[m]]

LoseConnection ==
  /\ Fault /\ Disconnect
  /\ UNCHANGED <<buffer, pc, msg, isPaused, timers, mailed, stored>>

\* The process dies, and its pause and its timers with it.
Crash ==
  /\ Fault /\ Disconnect
  /\ buffer' = {}
  /\ pc' = [w \in Workers |-> "idle"] /\ msg' = [w \in Workers |-> NoMessage]
  /\ isPaused' = FALSE /\ timers' = 0
  /\ UNCHANGED <<mailed, stored>>

\* Mutant: a new channel while workers of the old one are still busy.
ReconnectAtOnce ==
  /\ ~authUp
  /\ authUp' = TRUE /\ buffer' = {}
  /\ UNCHANGED <<place, notifyUp, pc, msg, isPaused, timers, mailed, stored, faults>>

\* runWorkers has returned: every worker left its range.
ReconnectAuth ==
  /\ ~authUp /\ \A w \in Workers : pc[w] = "idle"
  /\ authUp' = TRUE /\ buffer' = {}
  /\ UNCHANGED <<place, notifyUp, pc, msg, isPaused, timers, mailed, stored, faults>>

ReconnectNotify ==
  /\ ~notifyUp
  /\ notifyUp' = TRUE
  /\ UNCHANGED <<place, authUp, buffer, pc, msg, isPaused, timers, mailed, stored, faults>>

-----------------------------------------------------------------------------
(* AuthEventConsumer.runWorkers and SendOtpService. *)

\* isPaused is read under the mutex, then the body is decoded.  What does not
\* decode is confirmed; without a code SendOtpService returns an error.
NextCall(m) ==
  CASE isPaused -> "paused"
    [] ~isPaused /\ KindOf[m] \in {"unreadable", "misfit"} -> "ack"
    [] ~isPaused /\ KindOf[m] = "otp" -> "send"
    [] ~isPaused /\ KindOf[m] \in {"codeless", "notification"} -> "pause"

\* A worker takes a delivery and reads the pause: a pause that begins between
\* the two is one before the delivery is taken.
Receive(w, m) ==
  /\ pc[w] = "idle" /\ m \in buffer
  /\ buffer' = buffer \ {m}
  /\ msg' = [msg EXCEPT ![w] = m]
  /\ Goto(w, NextCall(m))
  /\ UNCHANGED <<place, authUp, notifyUp, isPaused, timers, mailed, stored, faults>>

\* SendOtpService, which OneTimeCodes models call by call.  It fails with the
\* provider, or when the answer of the provider is lost.
Send(w) ==
  /\ pc[w] = "send" /\ Goto(w, "ack")
  /\ mailed' = mailed \cup {msg[w]}
  /\ UNCHANGED <<brokerVars, msg, isPaused, timers, stored, faults>>

SendFails(w) ==
  /\ pc[w] = "send" /\ Fault /\ Goto(w, "pause")
  /\ mailed' \in {mailed, mailed \cup {msg[w]}}
  /\ UNCHANGED <<brokerVars, msg, isPaused, timers, stored>>

Ack(w) ==
  /\ pc[w] = "ack"
  /\ Answer(w, "acked") /\ Free(w, "idle")
  /\ UNCHANGED <<authUp, notifyUp, buffer, isPaused, timers, mailed, stored, faults>>

Pause(w) ==
  /\ pc[w] = "pause"
  /\ isPaused' = TRUE
  /\ Goto(w, "giveback")
  /\ UNCHANGED <<brokerVars, msg, timers, mailed, stored, faults>>

\* Mutant: no goroutine ends the pause.
GiveBackForGood(w) ==
  /\ pc[w] = "giveback" /\ timers < MaxTimers
  /\ Answer(w, "queue") /\ Free(w, "idle")
  /\ UNCHANGED <<authUp, notifyUp, buffer, isPaused, timers, mailed, stored, faults>>

\* Nack with requeue, and a goroutine of its own that sleeps ten minutes.
GiveBack(w) ==
  /\ pc[w] = "giveback" /\ timers < MaxTimers
  /\ Answer(w, "queue") /\ Free(w, "idle")
  /\ timers' = timers + 1
  /\ UNCHANGED <<authUp, notifyUp, buffer, isPaused, mailed, stored, faults>>

\* Mutant: what arrives during a pause is confirmed.
PausedAcked(w) ==
  /\ pc[w] = "paused"
  /\ Answer(w, "acked") /\ Free(w, "sleep")
  /\ UNCHANGED <<authUp, notifyUp, buffer, isPaused, timers, mailed, stored, faults>>

\* Nack with requeue, then five seconds of sleep.
Paused(w) ==
  /\ pc[w] = "paused"
  /\ Answer(w, "queue") /\ Free(w, "sleep")
  /\ UNCHANGED <<authUp, notifyUp, buffer, isPaused, timers, mailed, stored, faults>>

\* Mutant: the branch of the pause without its continue.
WakeGoesOn(w) ==
  /\ pc[w] = "sleep" /\ Goto(w, "send")
  /\ UNCHANGED <<brokerVars, msg, isPaused, timers, mailed, stored, faults>>

Wake(w) ==
  /\ pc[w] = "sleep" /\ Goto(w, "idle")
  /\ UNCHANGED <<brokerVars, msg, isPaused, timers, mailed, stored, faults>>

\* The ten minutes of one goroutine are over.
EndPause ==
  /\ timers > 0
  /\ timers' = timers - 1 /\ isPaused' = FALSE
  /\ UNCHANGED <<brokerVars, pc, msg, mailed, stored, faults>>

-----------------------------------------------------------------------------
(* NotificationEventConsumer.handle, a message at a time. *)

\* Execute or Enqueue kept it, then the ack.
Process(m) ==
  /\ place[m] = "notify" /\ IsNotification(m)
  /\ stored' = stored \cup {m}
  /\ place' = [place EXCEPT ![m] = "acked"]
  /\ UNCHANGED <<authUp, notifyUp, buffer, pc, msg, isPaused, timers, mailed, faults>>

\* Where Nack without requeue takes a message: a queue without dead letter
\* exchange deletes it.
Aside == {IF dlx THEN "dlq" ELSE "dropped" : dlx \in DeadLettering}

\* A failing call: back to the queue from Enqueue, set aside from Execute.
ProcessFails(m) ==
  /\ place[m] = "notify" /\ IsNotification(m) /\ Fault
  /\ \E where \in {"queue"} \cup Aside : place' = [place EXCEPT ![m] = where]
  /\ stored' \in {stored, stored \cup {m}}
  /\ UNCHANGED <<authUp, notifyUp, buffer, pc, msg, isPaused, timers, mailed>>

\* Mutant: what does not validate goes back to the queue.
DiscardRequeued(m) ==
  /\ place[m] = "notify" /\ ~IsNotification(m)
  /\ place' = [place EXCEPT ![m] = "queue"]
  /\ UNCHANGED <<authUp, notifyUp, buffer, pc, msg, isPaused, timers, mailed, stored, faults>>

\* A body that is not a notification: no JSON, or none of the fields Validate
\* asks for.
DiscardForeign(m) ==
  /\ place[m] = "notify" /\ ~IsNotification(m)
  /\ \E where \in Aside : place' = [place EXCEPT ![m] = where]
  /\ UNCHANGED <<authUp, notifyUp, buffer, pc, msg, isPaused, timers, mailed, stored, faults>>

-----------------------------------------------------------------------------
AuthWork(w) ==
  \/ Send(w) \/ SendFails(w) \/ Ack(w)
  \/ Pause(w) \/ GiveBack(w) \/ Paused(w) \/ Wake(w)

Handle(m) == Process(m) \/ ProcessFails(m) \/ DiscardForeign(m)

Next ==
  \/ \E m \in Messages : DeliverAuth(m) \/ DeliverNotify(m) \/ Handle(m)
  \/ \E w \in Workers : AuthWork(w) \/ \E m \in Messages : Receive(w, m)
  \/ EndPause \/ LoseConnection \/ Crash \/ ReconnectAuth \/ ReconnectNotify

Spec == Init /\ [][Next]_vars

\* RabbitMQ takes turns between the consumers of a queue, workers go on, sleeps
\* end and the reconnection loops do not give up.  Which message is next is left
\* open: what NotificationEventConsumer takes leaves the queue.
Fairness ==
  /\ SF_vars(\E m \in Messages : DeliverNotify(m))
  /\ WF_vars(\E m \in Messages : Handle(m))
  /\ WF_vars(\E m \in Messages, w \in Workers : Receive(w, m))
  /\ \A w \in Workers : WF_vars(AuthWork(w))
  /\ WF_vars(EndPause) /\ WF_vars(ReconnectAuth) /\ WF_vars(ReconnectNotify)

FairSpec == Spec /\ Fairness

-----------------------------------------------------------------------------
(* Properties. *)

\* Whichever consumer a message meets, and however often it moves between the
\* two, a code is confirmed only once it was mailed, a notification that
\* AuthEventDTO decodes only once it was stored, and a code without a code never.
\* What AuthEventDTO does not decode has no such guarantee: that consumer
\* confirms it unread (auth_consumer.go:113-114), where SSD_001:275 asks for the
\* dead letter queue.
ConfirmedByItsOwner ==
  \A m \in Messages : place[m] = "acked" =>
    /\ KindOf[m] = "otp" => m \in mailed
    /\ KindOf[m] = "notification" => m \in stored
    /\ KindOf[m] # "codeless"

\* Whatever RabbitMQ waits for on the open channel of AuthEventConsumer is in one
\* place, the buffer or the hand of one worker, and each of these answers once,
\* also after a lost connection with workers at work or asleep.
Holds(w, m) == Busy(w) /\ msg[w] = m
EachDeliveryIsHeldOnce ==
  /\ ~authUp => \A m \in Messages : place[m] # "auth"
  /\ authUp => \A m \in Messages :
       /\ place[m] = "auth" <=> m \in buffer \/ \E w \in Workers : Holds(w, m)
       /\ \A v, w \in Workers : Holds(v, m) => m \notin buffer /\ (Holds(w, m) => v = w)

\* A pause ends, and every message leaves the queue for good, confirmed, set
\* aside or deleted, through the pauses that messages of the other consumer
\* cause.
PauseEnds == isPaused ~> ~isPaused
EveryMessageLeaves ==
  <>(\A m \in Messages : place[m] \in {"acked", "dlq", "dropped"})

\* notification_consumer.go:27-28: AuthEventConsumer "sigue atendiendo los
\* correos de OTP"; the other consumer does not take them away.
OtpIsNotSetAside ==
  \A m \in Messages :
    KindOf[m] = "otp" /\ place[m] \in {"dlq", "dropped"} => m \in mailed
=============================================================================
