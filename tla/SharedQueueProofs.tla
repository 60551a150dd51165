-------------------------- MODULE SharedQueueProofs ---------------------------
(***************************************************************************)
(* Theorems about SharedQueue, for every set of messages and workers and   *)
(* any number of timers and faults.                                        *)
(***************************************************************************)
EXTENDS SharedQueue, TLAPS

\* What a worker of AuthEventConsumer knows at each call: it sends only codes,
\* and it confirms a code only after the provider took it, other messages only
\* when they did not decode.
HandInv ==
  \A w \in Workers :
    /\ pc[w] = "send" => KindOf[msg[w]] = "otp"
    /\ pc[w] = "ack" =>
         \/ KindOf[msg[w]] \in {"unreadable", "misfit"}
         \/ KindOf[msg[w]] = "otp" /\ msg[w] \in mailed

IInv == TypeOK /\ HandInv /\ ConfirmedByItsOwner

-----------------------------------------------------------------------------
LEMMA InitIInv == Init => IInv
<1> SUFFICES ASSUME Init PROVE IInv
  OBVIOUS
<1>1. TypeOK
  <2>1. timers \in 0 .. MaxTimers /\ faults \in 0 .. MaxFaults
    BY SharedQueueAssumption DEF Init
  <2> QED BY <2>1 DEF Init, TypeOK, Places, Busy
<1>2. HandInv /\ ConfirmedByItsOwner BY DEF Init, HandInv, ConfirmedByItsOwner
<1> QED BY <1>1, <1>2 DEF IInv

\* The broker's side moves no confirmed message and touches no worker, or stops
\* them all.
LEMMA BrokerStep ==
  ASSUME IInv,
         \/ \E m \in Messages : DeliverAuth(m) \/ DeliverNotify(m)
         \/ LoseConnection \/ Crash \/ ReconnectAuth \/ ReconnectNotify
  PROVE  IInv'
<1> USE SharedQueueAssumption
    DEF IInv, TypeOK, Places, Busy, HandInv, ConfirmedByItsOwner, Fault
<1>1. ASSUME NEW m \in Messages, DeliverAuth(m) PROVE IInv'
  BY <1>1 DEF DeliverAuth
<1>2. ASSUME NEW m \in Messages, DeliverNotify(m) PROVE IInv'
  BY <1>2 DEF DeliverNotify
<1>3. Fault => faults' \in 0 .. MaxFaults
  OBVIOUS
<1>4. ASSUME Disconnect
      PROVE  /\ place' \in [Messages -> Places]
             /\ authUp' \in BOOLEAN /\ notifyUp' \in BOOLEAN
             /\ \A m \in Messages : place'[m] = "acked" => place[m] = "acked"
  BY <1>4 DEF Disconnect
<1>5. CASE LoseConnection
  <2>1. TypeOK' BY <1>3, <1>4, <1>5 DEF LoseConnection
  <2>2. HandInv' /\ ConfirmedByItsOwner' BY <1>4, <1>5 DEF LoseConnection
  <2> QED BY <2>1, <2>2
<1>6. CASE Crash
  <2>1. timers' \in 0 .. MaxTimers BY <1>6 DEF Crash
  <2>2. TypeOK' BY <1>3, <1>4, <1>6, <2>1 DEF Crash
  <2>3. HandInv' /\ ConfirmedByItsOwner' BY <1>4, <1>6 DEF Crash
  <2> QED BY <2>2, <2>3
<1>7. CASE ReconnectAuth BY <1>7 DEF ReconnectAuth
<1>8. CASE ReconnectNotify BY <1>8 DEF ReconnectNotify
<1> QED BY <1>1, <1>2, <1>5, <1>6, <1>7, <1>8

\* NotificationEventConsumer: it confirms only what it stored.
LEMMA NotifyStep ==
  ASSUME IInv, NEW m \in Messages, Handle(m)
  PROVE  IInv'
<1> USE SharedQueueAssumption
    DEF IInv, TypeOK, Places, Busy, HandInv, ConfirmedByItsOwner, IsNotification
<1>1. CASE Process(m) BY <1>1 DEF Process
<1>2. CASE ProcessFails(m) BY <1>2 DEF ProcessFails, Aside, Fault
<1>3. CASE DiscardForeign(m) BY <1>3 DEF DiscardForeign, Aside
<1> QED BY <1>1, <1>2, <1>3 DEF Handle

\* What an answer of the auth consumer does, when it is an allowed one.
LEMMA AnswerKeeps ==
  ASSUME IInv, NEW w \in Workers, NEW where \in {"queue", "acked"},
         NEW next \in {"idle", "sleep"},
         msg[w] \in Messages, Answer(w, where), Free(w, next),
         mailed' = mailed, stored' = stored,
         where = "acked" => pc[w] = "ack"
  PROVE  HandInv' /\ ConfirmedByItsOwner' /\ place' \in [Messages -> Places]
BY DEF IInv, TypeOK, Places, HandInv, ConfirmedByItsOwner, Answer, Free, Goto

\* Where a delivery takes its worker: to the provider only with a code, to the
\* ack only when it does not decode.
LEMMA NextCalls ==
  ASSUME TypeOK, NEW m \in Messages
  PROVE  /\ NextCall(m) \in {"paused", "ack", "send", "pause"}
         /\ NextCall(m) = "send" => KindOf[m] = "otp"
         /\ NextCall(m) = "ack" => KindOf[m] \in {"unreadable", "misfit"}
BY SharedQueueAssumption DEF TypeOK, NextCall, Kinds

\* The workers of AuthEventConsumer, call by call.
LEMMA AuthStep ==
  ASSUME IInv, NEW w \in Workers,
         AuthWork(w) \/ \E m \in Messages : Receive(w, m)
  PROVE  IInv'
<1> USE SharedQueueAssumption DEF IInv, TypeOK, Busy, brokerVars
<1>1. ASSUME NEW m \in Messages, Receive(w, m) PROVE IInv'
  <2>1. msg' = [msg EXCEPT ![w] = m] /\ pc' = [pc EXCEPT ![w] = NextCall(m)]
    BY <1>1 DEF Receive, Goto
  <2>2. TypeOK' BY <1>1, <2>1, NextCalls DEF Receive
  <2>3. HandInv' BY <1>1, <2>1, NextCalls DEF Receive, HandInv
  <2>4. ConfirmedByItsOwner' BY <1>1 DEF Receive, ConfirmedByItsOwner
  <2> QED BY <2>2, <2>3, <2>4
<1>2. CASE Send(w) BY <1>2 DEF Send, HandInv, ConfirmedByItsOwner, Goto
<1>3. CASE SendFails(w)
  BY <1>3 DEF SendFails, HandInv, ConfirmedByItsOwner, Goto, Fault
<1>4. CASE Ack(w)
  BY <1>4, AnswerKeeps DEF Ack, HandInv, Free, Goto
<1>5. CASE Pause(w) BY <1>5 DEF Pause, HandInv, ConfirmedByItsOwner, Goto
<1>6. CASE GiveBack(w)
  <2>1. timers' \in 0 .. MaxTimers BY <1>6 DEF GiveBack
  <2> QED BY <1>6, <2>1, AnswerKeeps DEF GiveBack, HandInv, Free, Goto
<1>7. CASE Paused(w)
  BY <1>7, AnswerKeeps DEF Paused, HandInv, Free, Goto
<1>8. CASE Wake(w) BY <1>8 DEF Wake, HandInv, ConfirmedByItsOwner, Goto
<1> QED BY <1>1, <1>2, <1>3, <1>4, <1>5, <1>6, <1>7, <1>8 DEF AuthWork

LEMMA StepIInv == IInv /\ [Next]_vars => IInv'
<1> SUFFICES ASSUME IInv, [Next]_vars PROVE IInv'
  OBVIOUS
<1>1. CASE EndPause
  <2>1. timers' \in 0 .. MaxTimers
    BY <1>1, SharedQueueAssumption DEF EndPause, IInv, TypeOK
  <2> QED BY <1>1, <2>1
           DEF EndPause, IInv, TypeOK, Busy, HandInv, ConfirmedByItsOwner, brokerVars
<1>2. CASE UNCHANGED vars
  BY <1>2 DEF vars, brokerVars, IInv, TypeOK, Busy, HandInv, ConfirmedByItsOwner
<1> QED BY <1>1, <1>2, BrokerStep, NotifyStep, AuthStep DEF Next

\* The parts of the invariant hold together, at every step.
LEMMA Invariance == Spec => []IInv
BY InitIInv, StepIInv, PTL DEF Spec

-----------------------------------------------------------------------------
(* The properties. *)

\* The variables of the queue and of both consumers keep their types.
THEOREM TypeCorrect == Spec => []TypeOK
BY Invariance, PTL DEF IInv

\* A message that both consumers may meet is confirmed only by the one that did
\* its work, if AuthEventDTO decodes it at all (auth_consumer.go: runWorkers).
THEOREM ConfirmedByOwner == Spec => []ConfirmedByItsOwner
BY Invariance, PTL DEF IInv

-----------------------------------------------------------------------------
(* The pause and its goroutines. *)

\* A pause is never left to itself: some goroutine sleeps on it, or a worker is
\* about to start one (auth_consumer.go: runWorkers).
PauseIsTimed == isPaused => timers > 0 \/ \E w \in Workers : pc[w] = "giveback"

LEMMA StepPause == PauseIsTimed /\ TypeOK /\ [Next]_vars => PauseIsTimed'
<1> SUFFICES ASSUME PauseIsTimed, TypeOK, [Next]_vars PROVE PauseIsTimed'
  OBVIOUS
<1>1. pc \in [Workers -> {"idle", "send", "ack", "pause", "giveback",
                          "paused", "sleep"}] /\ timers \in Nat
  BY SharedQueueAssumption DEF TypeOK
<1>2. CASE UNCHANGED <<pc, isPaused, timers>> BY <1>2 DEF PauseIsTimed
<1>3. CASE Crash BY <1>3 DEF Crash, PauseIsTimed
<1>4. CASE EndPause BY <1>4 DEF EndPause, PauseIsTimed
<1>5. ASSUME NEW w \in Workers, AuthWork(w) \/ \E m \in Messages : Receive(w, m)
      PROVE  PauseIsTimed'
  <2>1. CASE Pause(w)
    <3>1. pc'[w] = "giveback" BY <1>1, <2>1 DEF Pause, Goto
    <3> QED BY <3>1 DEF PauseIsTimed
  <2>2. CASE GiveBack(w)
    <3>1. timers' > 0 BY <1>1, <2>2 DEF GiveBack
    <3> QED BY <3>1 DEF PauseIsTimed
  <2>3. ASSUME NEW call, pc[w] # "giveback", Goto(w, call), UNCHANGED <<isPaused, timers>>
        PROVE  PauseIsTimed'
    BY <1>1, <2>3 DEF Goto, PauseIsTimed
  <2> QED
    BY <1>5, <2>1, <2>2, <2>3
       DEF AuthWork, Send, SendFails, Ack, Paused, Wake, Receive, Free
<1> QED
  BY <1>2, <1>3, <1>4, <1>5
     DEF Next, DeliverAuth, DeliverNotify, Handle, Process, ProcessFails, DiscardForeign,
         LoseConnection, ReconnectAuth, ReconnectNotify, vars

\* A pause of the auth consumer always has a goroutine left that ends it, however
\* many of them overlap (auth_consumer.go: runWorkers).
THEOREM PauseHasItsEnd == Spec => []PauseIsTimed
<1>1. Init => PauseIsTimed BY DEF Init, PauseIsTimed
<1> QED BY <1>1, StepPause, TypeCorrect, PTL DEF Spec

-----------------------------------------------------------------------------
(* Where the deliveries of AuthEventConsumer are. *)

\* A worker answers for the one message it holds; nobody else holds it after.
LEMMA AnswerMoves ==
  ASSUME TypeOK, EachDeliveryIsHeldOnce, NEW w \in Workers, NEW where \in {"queue", "acked"},
         NEW next \in {"idle", "sleep"}, Busy(w),
         msg[w] \in Messages, Answer(w, where), Free(w, next), UNCHANGED <<authUp, buffer>>
  PROVE  EachDeliveryIsHeldOnce'
<1>1. \A v \in Workers : \A m : Holds(v, m)' <=> v # w /\ Holds(v, m)
  BY DEF TypeOK, Busy, Holds, Free, Goto
<1>2. CASE ~authUp BY <1>2 DEF EachDeliveryIsHeldOnce, Answer
<1>3. CASE authUp
  <2>1. Holds(w, msg[w]) BY DEF Holds
  <2>2. place' = [place EXCEPT ![msg[w]] = where] BY <1>3 DEF Answer
  <2>3. ASSUME NEW m \in Messages
        PROVE  place'[m] = "auth" <=> m \in buffer \/ \E v \in Workers : Holds(v, m)'
    <3>1. CASE m = msg[w]
      <4>1. place'[m] # "auth" BY <2>2, <3>1 DEF TypeOK
      <4>2. m \notin buffer /\ \A v \in Workers : Holds(v, m) => v = w
        BY <1>3, <2>1, <3>1 DEF EachDeliveryIsHeldOnce
      <4> QED BY <1>1, <4>1, <4>2
    <3>2. CASE m # msg[w]
      <4>1. place'[m] = place[m] /\ ~Holds(w, m) BY <2>2, <3>2 DEF TypeOK, Holds
      <4> QED BY <1>1, <1>3, <4>1 DEF EachDeliveryIsHeldOnce
    <3> QED BY <3>1, <3>2
  <2> QED BY <1>1, <1>3, <2>3 DEF EachDeliveryIsHeldOnce
<1> QED BY <1>2, <1>3

\* A step that moves no delivery of this consumer and changes no hand.
LEMMA DeliveriesKept ==
  ASSUME EachDeliveryIsHeldOnce, UNCHANGED <<authUp, buffer>>,
         \A m \in Messages : place'[m] = "auth" <=> place[m] = "auth",
         \A v \in Workers : \A m \in Messages : Holds(v, m)' <=> Holds(v, m)
  PROVE  EachDeliveryIsHeldOnce'
BY DEF EachDeliveryIsHeldOnce

LEMMA StepDeliveries ==
  IInv /\ EachDeliveryIsHeldOnce /\ [Next]_vars => EachDeliveryIsHeldOnce'
<1> SUFFICES ASSUME IInv, EachDeliveryIsHeldOnce, [Next]_vars
             PROVE  EachDeliveryIsHeldOnce'
  OBVIOUS
<1>1. TypeOK
  BY DEF IInv
<1>2. ASSUME UNCHANGED <<pc, msg>>
      PROVE  \A v \in Workers : \A m : Holds(v, m)' <=> Holds(v, m)
  BY <1>2 DEF Busy, Holds
<1>3. ASSUME NEW m \in Messages, DeliverAuth(m) PROVE EachDeliveryIsHeldOnce'
  <2>1. /\ authUp /\ authUp' /\ place[m] = "queue" /\ buffer' = buffer \cup {m}
        /\ place' = [place EXCEPT ![m] = "auth"]
    BY <1>3 DEF DeliverAuth
  <2>2. m \notin buffer /\ \A v \in Workers : ~Holds(v, m)
    BY <2>1 DEF EachDeliveryIsHeldOnce
  <2>3. \A n \in Messages : place'[n] = IF n = m THEN "auth" ELSE place[n]
    BY <1>1, <2>1 DEF TypeOK
  <2>4. \A v \in Workers : \A n : Holds(v, n)' <=> Holds(v, n)
    BY <1>2, <1>3 DEF DeliverAuth
  <2> QED BY <2>1, <2>2, <2>3, <2>4 DEF EachDeliveryIsHeldOnce
<1>4. ASSUME NEW m \in Messages, DeliverNotify(m) \/ Handle(m)
      PROVE  EachDeliveryIsHeldOnce'
  <2>1. \A n \in Messages : place'[n] = "auth" <=> place[n] = "auth"
    BY <1>1, <1>4
       DEF TypeOK, DeliverNotify, Handle, Process, ProcessFails, DiscardForeign, Aside
  <2>2. UNCHANGED <<authUp, buffer, pc, msg>>
    BY <1>4 DEF DeliverNotify, Handle, Process, ProcessFails, DiscardForeign
  <2> QED BY <1>2, <2>1, <2>2, DeliveriesKept
<1>5. CASE LoseConnection \/ Crash
  BY <1>5 DEF LoseConnection, Crash, Disconnect, EachDeliveryIsHeldOnce
<1>6. CASE ReconnectAuth
  <2>1. /\ ~authUp /\ authUp' /\ buffer' = {} /\ UNCHANGED place
        /\ \A v \in Workers : \A m : ~Holds(v, m)'
    BY <1>6 DEF ReconnectAuth, Busy, Holds
  <2> QED BY <2>1 DEF EachDeliveryIsHeldOnce
<1>7. CASE UNCHANGED <<place, authUp, buffer, pc, msg>>
  BY <1>2, <1>7, DeliveriesKept
<1>8. ASSUME NEW w \in Workers, NEW m \in Messages, Receive(w, m)
      PROVE  EachDeliveryIsHeldOnce'
  <2>1. /\ m \in buffer /\ buffer' = buffer \ {m} /\ UNCHANGED <<authUp, place>>
    BY <1>8 DEF Receive
  <2>2. \A v \in Workers : \A n : Holds(v, n)' <=> Holds(v, n) \/ (v = w /\ n = m)
    <3>1. NextCall(m) \notin {"idle", "sleep"} BY <1>1, NextCalls
    <3> QED BY <1>1, <1>8, <3>1 DEF TypeOK, Receive, Goto, Busy, Holds
  <2>3. authUp => \A v \in Workers : ~Holds(v, m)
    BY <2>1 DEF EachDeliveryIsHeldOnce
  <2> QED BY <2>1, <2>2, <2>3 DEF EachDeliveryIsHeldOnce
<1>9. ASSUME NEW w \in Workers, AuthWork(w) PROVE EachDeliveryIsHeldOnce'
  <2>1. CASE Ack(w) BY <1>1, <2>1, AnswerMoves DEF TypeOK, Busy, Ack
  <2>2. CASE GiveBack(w) BY <1>1, <2>2, AnswerMoves DEF TypeOK, Busy, GiveBack
  <2>3. CASE Paused(w) BY <1>1, <2>3, AnswerMoves DEF TypeOK, Busy, Paused
  <2>4. CASE Wake(w)
    <3>1. \A v \in Workers : \A m \in Messages : Holds(v, m)' <=> Holds(v, m)
      BY <1>1, <2>4 DEF TypeOK, Wake, Goto, Busy, Holds
    <3> QED BY <2>4, <3>1, DeliveriesKept DEF Wake, brokerVars
  <2>5. ASSUME NEW call, pc[w] \notin {"idle", "sleep"}, call \notin {"idle", "sleep"},
               Goto(w, call), UNCHANGED <<brokerVars, msg>>
        PROVE  EachDeliveryIsHeldOnce'
    <3>1. \A v \in Workers : \A m \in Messages : Holds(v, m)' <=> Holds(v, m)
      BY <1>1, <2>5 DEF TypeOK, Goto, Busy, Holds
    <3> QED BY <2>5, <3>1, DeliveriesKept DEF brokerVars
  <2>6. CASE Send(w) \/ SendFails(w) \/ Pause(w)
    BY <2>5, <2>6 DEF Send, SendFails, Pause
  <2> QED BY <1>9, <2>1, <2>2, <2>3, <2>4, <2>6 DEF AuthWork
<1> QED
  BY <1>3, <1>4, <1>5, <1>6, <1>7, <1>8, <1>9
     DEF Next, EndPause, ReconnectNotify, vars, brokerVars

\* On an open channel every unconfirmed delivery of the auth consumer is in its
\* buffer or in the hand of one worker (auth_consumer.go: runWorkers).
THEOREM DeliveriesAreHeldOnce == Spec => []EachDeliveryIsHeldOnce
<1>1. Init => EachDeliveryIsHeldOnce
  BY DEF Init, EachDeliveryIsHeldOnce, Busy, Holds
<1> QED BY <1>1, StepDeliveries, Invariance, PTL DEF Spec
=============================================================================
