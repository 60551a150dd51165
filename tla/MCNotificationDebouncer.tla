----------------------- MODULE MCNotificationDebouncer -----------------------
(* Small instances of NotificationDebouncer for TLC. *)
EXTENDS NotificationDebouncer, TLC

CONSTANTS e1, e2, k1, p1, p2, w1, w2

\* Two events of one key.
OneKey   == [e \in Events |-> k1]

\* Two processes with a worker each, or one process with both workers.
Apart    == w1 :> p1 @@ w2 :> p2
Together == w1 :> p1 @@ w2 :> p1

Symmetry == Permutations({e1, e2})
=============================================================================
