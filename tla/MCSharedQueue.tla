---------------------------- MODULE MCSharedQueue ----------------------------
(* Small instances of SharedQueue for TLC. *)
EXTENDS SharedQueue

CONSTANTS m1, m2, m3, m4, m5, w1, w2

\* A message of each kind.
MCKindOf ==
  [m \in Messages |->
     CASE m = m1 -> "otp" [] m = m2 -> "codeless" [] m = m3 -> "notification"
       [] m = m4 -> "unreadable" [] m = m5 -> "misfit"]
=============================================================================
