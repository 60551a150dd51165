------------------------------- MODULE Gateway -------------------------------
(***************************************************************************)
(* What the WebSocket gateway promises: an event goes to each subscription *)
(* that asks for its stream, at most once, and to nobody who stopped       *)
(* asking; what was subscribed when it was published, and still is when    *)
(* its publication ends, has it.  NotificationHub implements it, with      *)
(* copies, locks and sockets that break.                                   *)
(***************************************************************************)

CONSTANTS Clients, SubIds, Publishers, Streams, Bell, NoStream,
          Accounts, NoAccount, Events, NoEvent

VARIABLES
  user,   \* the account of a client that is connected
  asks,   \* the stream a subscription asks for
  event,  \* what a publisher is publishing
  due,    \* subscriptions it must still reach
  may     \* subscriptions it may still reach

gvars == <<user, asks, event, due, may>>
Subscriptions == Clients \X SubIds

Init ==
  /\ user = [c \in Clients |-> NoAccount]
  /\ asks = [x \in Subscriptions |-> NoStream]
  /\ event = [p \in Publishers |-> NoEvent]
  /\ due = [p \in Publishers |-> {}] /\ may = [p \in Publishers |-> {}]

\* Whom an event is for, at this moment: a notification only for its user.
Wants(x, e) == asks[x] = e.stream /\ (e.stream = Bell => user[x[1]] = e.to)

Connect(c, a) ==
  /\ user[c] = NoAccount /\ user' = [user EXCEPT ![c] = a]
  /\ UNCHANGED <<asks, event, due, may>>

\* A subscription starts, changes its stream or, with NoStream, ends.
Ask(x, stream) ==
  /\ user[x[1]] # NoAccount /\ asks' = [asks EXCEPT ![x] = stream]
  /\ due' = [p \in Publishers |-> due[p] \ {x}]
  /\ UNCHANGED <<user, event, may>>

\* The clients of a socket leave, with all they asked for.
Disconnect(C) ==
  /\ user' = [c \in Clients |-> IF c \in C THEN NoAccount ELSE user[c]]
  /\ asks' = [x \in Subscriptions |-> IF x[1] \in C THEN NoStream ELSE asks[x]]
  /\ due' = [p \in Publishers |-> due[p] \ (C \X SubIds)]
  /\ UNCHANGED <<event, may>>

Publish(p, e) ==
  /\ event[p] = NoEvent /\ event' = [event EXCEPT ![p] = e]
  /\ due' = [due EXCEPT ![p] = {x \in Subscriptions : Wants(x, e)}]
  /\ \E X \in SUBSET Subscriptions :
       due'[p] \subseteq X /\ may' = [may EXCEPT ![p] = X]
  /\ UNCHANGED <<user, asks>>

Deliver(p, x) ==
  /\ event[p] # NoEvent /\ Wants(x, event[p]) /\ x \in may[p]
  /\ may' = [may EXCEPT ![p] = @ \ {x}]
  /\ due' = [due EXCEPT ![p] = @ \ {x}]
  /\ UNCHANGED <<user, asks, event>>

\* Subscriptions that do not want the event are passed over.
Pass(p) ==
  /\ \E X \in SUBSET may[p] : due[p] \subseteq X /\ may' = [may EXCEPT ![p] = X]
  /\ UNCHANGED <<user, asks, event, due>>

Finish(p) ==
  /\ event[p] # NoEvent /\ due[p] = {}
  /\ event' = [event EXCEPT ![p] = NoEvent] /\ may' = [may EXCEPT ![p] = {}]
  /\ UNCHANGED <<user, asks, due>>

Next ==
  \/ \E c \in Clients, a \in Accounts : Connect(c, a)
  \/ \E x \in Subscriptions, stream \in Streams \cup {NoStream} : Ask(x, stream)
  \/ \E C \in SUBSET Clients : Disconnect(C)
  \/ \E p \in Publishers :
       \/ \E e \in Events : Publish(p, e)
       \/ \E x \in Subscriptions : Deliver(p, x)
       \/ Pass(p) \/ Finish(p)

Spec == Init /\ [][Next]_gvars
=============================================================================
