---------------------------- MODULE IntakeContract ----------------------------
(***************************************************************************)
(* What the intake of notifications promises to the services that publish, *)
(* without workers, calls, crashes or redeliveries: a message is confirmed *)
(* only when its event is recorded, a message that cannot be processed is  *)
(* set aside, and an event is announced at most once, after it is recorded.*)
(***************************************************************************)
EXTENDS Naturals

CONSTANTS Messages, Events, EventOf, NoEvent

VARIABLES
  status,     \* message -> "pending", "confirmed" or "aside"
  recorded,   \* the events kept
  announced   \* event -> times it was pushed to its user

cvars == <<status, recorded, announced>>

Init ==
  /\ status = [m \in Messages |-> "pending"]
  /\ recorded = {}
  /\ announced = [e \in Events |-> 0]

\* An event is recorded only on behalf of a message still pending.
Record(m) ==
  /\ status[m] = "pending" /\ EventOf[m] # NoEvent
  /\ EventOf[m] \notin recorded
  /\ recorded' = recorded \cup {EventOf[m]}
  /\ UNCHANGED <<status, announced>>

Announce(e) ==
  /\ e \in recorded /\ announced[e] = 0
  /\ announced' = [announced EXCEPT ![e] = 1]
  /\ UNCHANGED <<status, recorded>>

Confirm(m) ==
  /\ status[m] = "pending" /\ EventOf[m] \in recorded
  /\ status' = [status EXCEPT ![m] = "confirmed"]
  /\ UNCHANGED <<recorded, announced>>

SetAside(m) ==
  /\ status[m] = "pending"
  /\ status' = [status EXCEPT ![m] = "aside"]
  /\ UNCHANGED <<recorded, announced>>

Restore(m) ==
  /\ status[m] = "aside"
  /\ status' = [status EXCEPT ![m] = "pending"]
  /\ UNCHANGED <<recorded, announced>>

Next ==
  \/ \E m \in Messages : Record(m) \/ Confirm(m) \/ SetAside(m) \/ Restore(m)
  \/ \E e \in Events : Announce(e)

Spec == Init /\ [][Next]_cvars
=============================================================================
