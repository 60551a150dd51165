----------------------- MODULE MCNotificationConsumer -----------------------
(* Small instances of NotificationConsumer for TLC. *)
EXTENDS NotificationConsumer, TLC

CONSTANTS m1, m2, m3, m4, login, subscribed, commented, w1, w2

\* Two publications of one event of a mandatory category, and a debounced one.
MCMessages == {m1, m2, m3}
MCEvents   == {login, commented}
MCEventOf  == m1 :> login @@ m2 :> login @@ m3 :> commented
MCCategoryOf == login :> "auth_security" @@ commented :> "comment"

\* For the retries: an event of an optional category, and a body that does not
\* decode.
RetryMessages   == {m1, m4}
RetryEvents     == {subscribed}
RetryEventOf    == m1 :> subscribed @@ m4 :> NoEvent
RetryCategoryOf == subscribed :> "follow"

\* Rows of the seed of 001_notifications.sql.
MCCatalog ==
  "auth_security" :> [allows |-> {"in_app", "email", "push"}, mandatory |-> TRUE]
  @@ "follow"     :> [allows |-> {"in_app", "push"}, mandatory |-> FALSE]
  @@ "comment"    :> [allows |-> {"in_app", "push"}, mandatory |-> FALSE]

=============================================================================
