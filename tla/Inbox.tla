-------------------------------- MODULE Inbox --------------------------------
(***************************************************************************)
(* The bell of one account: the pages of GetInbox and the filters of       *)
(* GetCategories (inbox_handler.go, notification_repository.go), next to   *)
(* the rows that Save commits and Publish pushes meanwhile.                *)
(*                                                                         *)
(* created_at is the time at which the transaction began, so rows may have *)
(* the same one, and a row may become visible after a newer row did.       *)
(***************************************************************************)
EXTENDS Integers, FiniteSets

CONSTANTS
  Ids,               \* notification_id: its order has nothing to do with time
  Account, OwnerOf,  \* x-account-id of the browser, user_id of a row
  CategoryOf,        \* category_code of a row
  ActiveCategories,  \* rows of the catalog with is_active
  Perishable,        \* rows with an expires_at
  Readable,          \* bound: the rows read_at may be set of
  Limits,            \* what the query string asks for, as Atoi reads it
  DefaultLimit, MaxLimit,
  NoFilter, NoCursor, NoPromise,
  MaxClock           \* bound: moments at which transactions begin

Filters == ActiveCategories \cup {NoFilter}
Times   == 1 .. MaxClock
Keys    == Int \X Int
Counts  == [total : Nat, unread : Nat]

ASSUME InboxAssumption ==
  /\ Ids \subseteq Int /\ IsFiniteSet(Ids)
  /\ Perishable \subseteq Ids /\ Readable \subseteq Ids /\ Limits \subseteq Int
  /\ MaxLimit \in Nat /\ DefaultLimit \in 1 .. MaxLimit
  /\ NoFilter \notin ActiveCategories /\ NoCursor \notin Keys
  /\ NoPromise \notin [ActiveCategories -> Counts]
  /\ MaxClock \in Nat \ {0}

VARIABLES
  \* the table
  clock, row, stamp,  \* of a row: how far its writer is, and created_at
  expired, read,      \* expires_at has passed; read_at is set
  \* the browser
  step,               \* "idle", "query" or "count" of a GetInbox, or "shown"
  filter, cursor, more,
  page,               \* the items ListInbox returned, not answered yet
  listed,             \* the items of the answers since the list was opened
  badge,              \* the last unreadCount
  promised,           \* the counts of GetCategories, until the table changes
  subscribed, pushed, \* its socket, and what it received there
  \* history
  there,   \* rows of the filter when the first page was read
  live     \* subscribed when the list was opened, and ever since

tableVars  == <<clock, row, stamp, expired, read>>
listVars   == <<step, filter, cursor, more, page, listed, badge, there>>
socketVars == <<subscribed, pushed, live>>
vars == <<tableVars, listVars, promised, socketVars>>

TypeOK ==
  /\ clock \in Times
  /\ row \in [Ids -> {"new", "open", "committed", "announced", "silent"}]
  /\ stamp \in [Ids -> Times]
  /\ expired \subseteq Perishable /\ read \subseteq Ids
  /\ step \in {"idle", "query", "count", "shown"}
  /\ filter \in Filters /\ cursor \in Keys \cup {NoCursor} /\ more \in BOOLEAN
  /\ page \subseteq Ids /\ Cardinality(page) <= MaxLimit
  /\ listed \subseteq Ids /\ there \subseteq Ids
  /\ pushed \subseteq Ids
  /\ badge \in Nat /\ promised \in [ActiveCategories -> Counts] \cup {NoPromise}
  /\ subscribed \in BOOLEAN /\ live \in BOOLEAN /\ (live => subscribed)

Init ==
  /\ clock = 1
  /\ row = [r \in Ids |-> "new"] /\ stamp = [r \in Ids |-> 1]
  /\ expired = {} /\ read = {}
  /\ step = "idle" /\ filter = NoFilter /\ cursor = NoCursor /\ more = FALSE
  /\ page = {} /\ listed = {} /\ there = {} /\ badge = 0
  /\ promised = NoPromise
  /\ subscribed = FALSE /\ pushed = {} /\ live = FALSE

-----------------------------------------------------------------------------
(* The queries. *)

\* What bandeja, filters and counter look at: the rows of the user that other
\* transactions can see and that have not expired.
Mine == {r \in Ids : /\ row[r] \in {"committed", "announced", "silent"}
                     /\ OwnerOf[r] = Account /\ r \notin expired}

\* Mutant: the filters count what has expired.
MineEver(f) == {r \in Ids : /\ row[r] \in {"committed", "announced", "silent"}
                            /\ OwnerOf[r] = Account /\ CategoryOf[r] = f}

InFilter(f) == {r \in Mine : f = NoFilter \/ CategoryOf[r] = f}
Counted(f)  == {r \in Mine : CategoryOf[r] = f}
CountsOf(R) == [total |-> Cardinality(R), unread |-> Cardinality(R \ read)]

\* (created_at, notification_id) < (cursorTime, cursorID)
Before(j, k) == j[1] < k[1] \/ (j[1] = k[1] /\ j[2] < k[2])
KeyOf(r) == <<stamp[r], r>>

\* Mutant: the cursor is created_at alone.
BelowInTime(r, c) == c = NoCursor \/ stamp[r] < c[1]

Below(r, c) == c = NoCursor \/ Before(KeyOf(r), c)

\* Mutant: no upper limit.
ClampLow(n) == IF n < 1 THEN DefaultLimit ELSE n

ClampLimit(n) ==
  IF n < 1 THEN DefaultLimit ELSE IF n > MaxLimit THEN MaxLimit ELSE n

\* The rows the WHERE of ListInbox leaves.
Remaining == {r \in InFilter(filter) : Below(r, cursor)}

\* ORDER BY created_at DESC, notification_id DESC LIMIT n, of the rows R: the
\* query asks for one row more, which only says that there is a next page.
Newest(P, R, n) ==
  /\ \A x \in P, y \in R \ P : Before(KeyOf(y), KeyOf(x))
  /\ IF Cardinality(R) > n THEN Cardinality(P) = n ELSE P = R

\* The cursor after a page: the key of its last item, when it has one.
NextCursor(c) ==
  IF page = {} THEN c = cursor
  ELSE \E r \in page : c = KeyOf(r) /\ \A x \in page \ {r} : Before(c, KeyOf(x))

-----------------------------------------------------------------------------
(* The writers: the transaction of Save and the push that follows it. *)

browserVars == <<listVars, socketVars>>

Tick ==
  /\ clock < MaxClock /\ clock' = clock + 1
  /\ UNCHANGED <<row, stamp, expired, read, promised, browserVars>>

Begin(r) ==
  /\ row[r] = "new"
  /\ row' = [row EXCEPT ![r] = "open"] /\ stamp' = [stamp EXCEPT ![r] = clock]
  /\ UNCHANGED <<clock, expired, read, promised, browserVars>>

Rollback(r) ==
  /\ row[r] = "open"
  /\ row' = [row EXCEPT ![r] = "new"] /\ stamp' = [stamp EXCEPT ![r] = 1]
  /\ UNCHANGED <<clock, expired, read, promised, browserVars>>

\* Mutant: Execute returns after Save.
CommitOnly(r) ==
  /\ row[r] = "open" /\ row' = [row EXCEPT ![r] = "announced"]
  /\ promised' = NoPromise
  /\ UNCHANGED <<clock, stamp, expired, read, browserVars>>

Commit(r) ==
  /\ row[r] = "open" /\ row' = [row EXCEPT ![r] = "committed"]
  /\ promised' = NoPromise
  /\ UNCHANGED <<clock, stamp, expired, read, browserVars>>

\* Publish: to the sockets of its user, if the hub knows one.
Publish(r) ==
  /\ row[r] = "committed" /\ row' = [row EXCEPT ![r] = "announced"]
  /\ pushed' = IF subscribed /\ OwnerOf[r] = Account THEN pushed \cup {r} ELSE pushed
  /\ UNCHANGED <<clock, stamp, expired, read, promised, listVars, subscribed, live>>

\* The process dies before Publish, or it is another one than the process the
\* browser is connected to: the event is stored, and a redelivery finds it so.
NotPushed(r) ==
  /\ row[r] = "committed" /\ row' = [row EXCEPT ![r] = "silent"]
  /\ UNCHANGED <<clock, stamp, expired, read, promised, browserVars>>

\* expires_at passes; another service sets read_at.
Expire(r) ==
  /\ r \in Perishable \ expired
  /\ expired' = expired \cup {r} /\ promised' = NoPromise
  /\ UNCHANGED <<clock, row, stamp, read, browserVars>>

MarkRead(r) ==
  /\ r \in (Mine \cap Readable) \ read
  /\ read' = read \cup {r} /\ promised' = NoPromise
  /\ UNCHANGED <<clock, row, stamp, expired, browserVars>>

-----------------------------------------------------------------------------
(* The browser: its socket, the filters and the list. *)

Connect ==
  /\ ~subscribed /\ subscribed' = TRUE
  /\ UNCHANGED <<tableVars, listVars, promised, pushed, live>>

Disconnect ==
  /\ subscribed /\ subscribed' = FALSE /\ live' = FALSE /\ pushed' = {}
  /\ UNCHANGED <<tableVars, listVars, promised>>

\* GetCategories: one row per active category, also for an empty one.
ListCategories ==
  /\ step = "idle"
  /\ promised' = [c \in ActiveCategories |-> CountsOf(Counted(c))]
  /\ UNCHANGED <<tableVars, browserVars>>

\* A list is opened, without a cursor.
Open(f) ==
  /\ step = "idle" /\ step' = "query"
  /\ filter' = f /\ live' = subscribed
  /\ UNCHANGED <<tableVars, promised, cursor, more, page, listed, badge, there,
                 subscribed, pushed>>

\* The next page is asked for with the cursor of the last answer.
Scroll ==
  /\ step = "shown" /\ more /\ step' = "query"
  /\ UNCHANGED <<tableVars, promised, filter, cursor, more, page, listed, badge,
                 there, socketVars>>

\* The list is closed; an answer under way is of no use any more.
Close ==
  /\ step # "idle" /\ step' = "idle"
  /\ filter' = NoFilter /\ cursor' = NoCursor /\ more' = FALSE
  /\ page' = {} /\ listed' = {} /\ there' = {} /\ badge' = 0 /\ live' = FALSE
  /\ UNCHANGED <<tableVars, promised, subscribed, pushed>>

\* The first query of GetInbox.
ListInbox(limit) ==
  /\ step = "query" /\ step' = "count"
  /\ page' \in SUBSET Remaining /\ Newest(page', Remaining, ClampLimit(limit))
  /\ more' = (Cardinality(Remaining) > ClampLimit(limit))
  /\ there' = IF cursor = NoCursor THEN Remaining ELSE there
  /\ UNCHANGED <<tableVars, promised, filter, cursor, listed, badge, socketVars>>

\* Its second query, of another moment, and the answer.
UnreadCount ==
  /\ step = "count" /\ step' = "shown"
  /\ badge' = Cardinality(Mine \ read)
  /\ listed' = listed \cup page /\ page' = {}
  /\ NextCursor(cursor')
  /\ UNCHANGED <<tableVars, promised, filter, more, there, socketVars>>

\* Either query fails or the five seconds are over: the browser has no answer
\* and asks again with the cursor it had.
RequestFails ==
  /\ step = "count" /\ step' = "query" /\ page' = {}
  /\ UNCHANGED <<tableVars, promised, filter, cursor, more, listed, badge, there,
                 socketVars>>

-----------------------------------------------------------------------------
Write(r) ==
  \/ Begin(r) \/ Rollback(r) \/ Commit(r) \/ Publish(r) \/ NotPushed(r)
  \/ Expire(r) \/ MarkRead(r)

Browse ==
  \/ Connect \/ Disconnect \/ Scroll \/ UnreadCount \/ RequestFails
  \/ ListCategories \/ Close
  \/ \E f \in Filters : Open(f)
  \/ \E n \in Limits : ListInbox(n)

Next == Tick \/ (\E r \in Ids : Write(r)) \/ Browse

Spec == Init /\ [][Next]_vars

-----------------------------------------------------------------------------
(* Properties. *)

Done == step = "shown" /\ ~more

\* Page by page, a list shows each row once and skips none: a row that was
\* there when the first page was read, and still is, is in an answer or below
\* the cursor, whatever is committed, read or expires between two pages, and
\* also when many rows have the same created_at.
TraversalIsExact ==
  /\ page \cap listed = {}
  /\ step # "idle" /\ cursor # NoCursor =>
       \A r \in there \cap Mine : r \in listed \/ Before(KeyOf(r), cursor)
  /\ Done => there \cap Mine \subseteq listed

\* "El filtro prometeria diez y al abrirlo mostraria seis": a list that is
\* opened and read to its end shows as many rows as its filter promised, and as
\* many unread ones as the filter, or over all categories the badge, says, unless
\* the table changed meanwhile.
FilterKeepsPromise ==
  Done /\ promised # NoPromise =>
    /\ filter \in ActiveCategories => CountsOf(listed) = promised[filter]
    /\ filter = NoFilter => badge = Cardinality(listed \ read)

\* A browser that subscribes, then reads the list to its end, knows every
\* notification of its user, from the list or from the socket: only what is
\* about to be pushed is missing, and what no Publish reached the socket for.
BellOrInbox ==
  Done /\ filter = NoFilter /\ live =>
    \A r \in Mine : r \in listed \cup pushed \/ row[r] \in {"committed", "silent"}
=============================================================================
