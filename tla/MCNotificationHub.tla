-------------------------- MODULE MCNotificationHub --------------------------
(* Small instances of NotificationHub for TLC. *)
EXTENDS NotificationHub, TLC

CONSTANTS s1, s2, viewer, other, video, b1, b2

\* Two comments of one video, with a body that does not decode between them.
BadBetween == <<video, NoStream, video>>
NothingQueued == <<>>

ToEach == [b \in Bells |-> IF b = b1 THEN viewer ELSE other]

Symmetry == Permutations({s1, s2})
=============================================================================
