----------------------------- MODULE InboxProofs -----------------------------
(***************************************************************************)
(* Theorems about Inbox, for every set of rows, owners, categories, page   *)
(* limits and moments.                                                     *)
(***************************************************************************)
EXTENDS Inbox, FiniteSetTheorems, TLAPS

-----------------------------------------------------------------------------
(* The inductive invariant. *)

Visible(r) == row[r] \in {"committed", "announced", "silent"}
Matches(r) == OwnerOf[r] = Account /\ (filter = NoFilter \/ CategoryOf[r] = filter)

\* The first page of the list has been read.
Reading == step # "idle" /\ (step = "query" => cursor # NoCursor)

\* What the browser has at each step.
ShapeInv ==
  /\ step = "idle" => listed = {} /\ there = {} /\ cursor = NoCursor /\ ~live
  /\ step # "count" => page = {}
  /\ cursor = NoCursor => listed = {}

\* What was read is committed, of this list, and on its side of the cursor.
SeenInv ==
  /\ \A r \in listed \cup page \cup there : Visible(r) /\ Matches(r)
  /\ \A r \in listed : cursor # NoCursor => ~Before(KeyOf(r), cursor)
  /\ \A r \in page : Below(r, cursor)

\* What was there and has not been read lies below: below the cursor, below the
\* page that is about to be answered, nowhere when the list is done.
LeftInv ==
  /\ step # "idle" /\ cursor # NoCursor =>
       \A r \in there \cap Mine : r \in listed \/ Before(KeyOf(r), cursor)
  /\ step = "count" =>
       \A r \in there \cap Mine :
         \/ r \in listed \cup page
         \/ more /\ page # {} /\ \A x \in page : Before(KeyOf(r), KeyOf(x))
  /\ Done => there \cap Mine \subseteq listed

ListInv == ShapeInv /\ SeenInv /\ LeftInv

\* A promise is about the table as it still is.
PromiseInv ==
  promised # NoPromise =>
    /\ promised = [c \in ActiveCategories |-> CountsOf(Counted(c))]
    /\ listed \cup page \subseteq Mine
    /\ Reading => InFilter(filter) \subseteq there
    /\ step = "shown" => badge = Cardinality(Mine \ read)

\* A row the hub was told of was there when the first page was read, or reached
\* the socket that has been open ever since.
BellInv ==
  live /\ Reading /\ filter = NoFilter =>
    \A r \in Mine : row[r] = "announced" => r \in there \cup pushed

IInv == TypeOK /\ ListInv /\ PromiseInv /\ BellInv

-----------------------------------------------------------------------------
(* Lemmas about the order of keys and about finite sets of rows. *)

\* (created_at, notification_id) is a strict order.
LEMMA BeforeIsOrder ==
  \A i, j, k \in Keys : /\ ~Before(i, i)
                        /\ Before(i, j) => ~Before(j, i)
                        /\ Before(i, j) /\ Before(j, k) => Before(i, k)
BY DEF Before, Keys

LEMMA KeyIsKey == TypeOK => \A r \in Ids : KeyOf(r) \in Keys
BY InboxAssumption DEF TypeOK, KeyOf, Keys, Times

LEMMA RowsAreFinite ==
  \A S \in SUBSET Ids : IsFiniteSet(S) /\ Cardinality(S) \in Nat
BY InboxAssumption, FS_Subset, FS_CardinalityType

LEMMA ClampInRange == \A n \in Int : ClampLimit(n) \in 1 .. MaxLimit
BY InboxAssumption DEF ClampLimit

LEMMA PageFits ==
  ASSUME NEW R \in SUBSET Ids, NEW P \in SUBSET R, NEW n \in 1 .. MaxLimit,
         Newest(P, R, n)
  PROVE  /\ Cardinality(P) <= MaxLimit
         /\ Cardinality(R) > n => P # {}
         /\ ~(Cardinality(R) > n) => P = R
<1>1. Cardinality(R) \in Nat BY RowsAreFinite
<1>2. MaxLimit \in Nat /\ n \in Nat /\ n >= 1 /\ n <= MaxLimit BY InboxAssumption
<1>3. CASE Cardinality(R) > n
  <2>1. Cardinality(P) = n BY <1>3 DEF Newest
  <2>2. P # {} BY <2>1, <1>2, FS_EmptySet
  <2> QED BY <1>2, <1>3, <2>1, <2>2
<1>4. CASE ~(Cardinality(R) > n)
  <2>1. P = R BY <1>4 DEF Newest
  <2> QED BY <1>1, <1>2, <1>4, <2>1
<1> QED BY <1>3, <1>4

-----------------------------------------------------------------------------
(* The steps of the table. *)

\* Nothing is listed, promised or owed at the start.
LEMMA InitIInv == Init => IInv
<1> SUFFICES ASSUME Init PROVE IInv
    OBVIOUS
<1>1. TypeOK
  <2>1. /\ row \in [Ids -> {"new", "open", "committed", "announced", "silent"}]
        /\ clock \in Times /\ stamp \in [Ids -> Times]
    BY InboxAssumption DEF Init, Times
  <2>2. page = {} /\ Cardinality(page) <= MaxLimit
    BY FS_EmptySet, InboxAssumption DEF Init
  <2> QED BY <2>1, <2>2 DEF Init, TypeOK, Filters
<1>2. ListInv BY DEF Init, ListInv, ShapeInv, SeenInv, LeftInv, Done
<1>3. PromiseInv BY DEF Init, PromiseInv
<1>4. BellInv BY DEF Init, BellInv
<1> QED BY <1>1, <1>2, <1>3, <1>4 DEF IInv

\* What the list knows survives a step of the table that leaves the rows that
\* are committed committed, with their created_at, and that reveals no row of
\* which the list knows.
LEMMA TableKeepsList ==
  ASSUME IInv, UNCHANGED listVars, live' => live,
         \A r \in Ids : Visible(r) => /\ Visible(r)' /\ stamp'[r] = stamp[r]
                                      /\ r \in Mine' => r \in Mine
  PROVE  ListInv'
<1> USE DEF listVars
<1>1. \A r \in listed \cup page \cup there :
        /\ r \in Ids /\ Visible(r) /\ Visible(r)'
        /\ KeyOf(r)' = KeyOf(r) /\ (Matches(r)' <=> Matches(r))
        /\ r \in Mine' => r \in Mine
  BY DEF IInv, TypeOK, ListInv, SeenInv, KeyOf, Matches
<1>2. ShapeInv' BY DEF IInv, ListInv, ShapeInv
<1>3. SeenInv'
  <2>1. \A r \in listed \cup page \cup there : Visible(r)' /\ Matches(r)'
    BY <1>1 DEF IInv, ListInv, SeenInv
  <2>2. \A r \in listed : cursor # NoCursor => ~Before(KeyOf(r)', cursor)
    BY <1>1 DEF IInv, ListInv, SeenInv
  <2>3. \A r \in page : Below(r, cursor)'
    BY <1>1 DEF IInv, ListInv, SeenInv, Below
  <2> QED BY <2>1, <2>2, <2>3 DEF SeenInv, Before
<1>4. LeftInv'
  <2>1. ASSUME step # "idle", cursor # NoCursor, NEW r \in there, r \in Mine'
        PROVE  r \in listed \/ Before(KeyOf(r)', cursor)
    BY <2>1, <1>1 DEF IInv, ListInv, LeftInv
  <2>2. ASSUME step = "count", NEW r \in there, r \in Mine'
        PROVE  \/ r \in listed \cup page
               \/ more /\ page # {} /\ \A x \in page : Before(KeyOf(r)', KeyOf(x)')
    BY <2>2, <1>1 DEF IInv, ListInv, LeftInv
  <2>3. Done' => there \cap Mine' \subseteq listed
    BY <1>1 DEF IInv, ListInv, LeftInv, Done
  <2> QED BY <2>1, <2>2, <2>3 DEF LeftInv, Before
<1> QED BY <1>2, <1>3, <1>4 DEF ListInv

\* A promise is void, or about the same table.
LEMMA TableKeepsPromise ==
  ASSUME IInv, UNCHANGED listVars,
         promised' = NoPromise \/ (UNCHANGED <<promised, read>> /\ Mine' = Mine)
  PROVE  PromiseInv'
<1>1. CASE promised' = NoPromise BY <1>1 DEF PromiseInv
<1>2. CASE UNCHANGED <<promised, read>> /\ Mine' = Mine
  <2>1. \A c : /\ Counted(c)' = Counted(c) /\ InFilter(c)' = InFilter(c)
               /\ CountsOf(Counted(c))' = CountsOf(Counted(c))
    BY <1>2 DEF Counted, InFilter, CountsOf
  <2> QED BY <1>2, <2>1 DEF IInv, PromiseInv, Reading, listVars
<1> QED BY <1>1, <1>2

\* A transaction that begins or rolls back shows nothing to anyone.
LEMMA UnseenStep ==
  ASSUME IInv, Tick \/ \E r \in Ids : Begin(r) \/ Rollback(r)
  PROVE  IInv'
<1> USE DEF browserVars, socketVars
<1>1. UNCHANGED <<expired, read, promised, listVars, subscribed, pushed, live>>
  BY DEF Tick, Begin, Rollback
<1>2. \A r \in Ids : /\ Visible(r)' <=> Visible(r)
                     /\ Visible(r) => row'[r] = row[r] /\ stamp'[r] = stamp[r]
  BY DEF IInv, TypeOK, Tick, Begin, Rollback, Visible
<1>3. Mine' = Mine BY <1>1, <1>2 DEF Mine, Visible
<1>4. TypeOK'
  <2>1. /\ clock' \in Times
        /\ row' \in [Ids -> {"new", "open", "committed", "announced", "silent"}]
        /\ stamp' \in [Ids -> Times]
    BY InboxAssumption DEF IInv, TypeOK, Tick, Begin, Rollback, Times
  <2> QED BY <1>1, <2>1 DEF IInv, TypeOK, listVars
<1>5. ListInv' BY <1>1, <1>2, <1>3, TableKeepsList
<1>6. PromiseInv' BY <1>1, <1>3, TableKeepsPromise
<1>7. BellInv'
  BY <1>1, <1>2, <1>3 DEF IInv, BellInv, Reading, listVars, Mine, Visible
<1> QED BY <1>4, <1>5, <1>6, <1>7 DEF IInv

\* A commit shows a row, which no list and no promise knows yet.
LEMMA CommitStep ==
  ASSUME IInv, NEW r \in Ids, Commit(r)
  PROVE  IInv'
<1> USE DEF browserVars, socketVars
<1>1. UNCHANGED <<stamp, expired, read, listVars, subscribed, pushed, live>>
  BY DEF Commit
<1>2. row[r] = "open" /\ row'[r] = "committed"
      /\ \A q \in Ids \ {r} : row'[q] = row[q]
  BY DEF IInv, TypeOK, Commit
<1>3. \A q \in Ids : Visible(q) => row'[q] = row[q] /\ q # r
  BY <1>2 DEF Visible
<1>4. TypeOK' BY DEF IInv, TypeOK, Commit, listVars
<1>5. ListInv'
  <2>1. \A q \in Ids : Visible(q) => /\ Visible(q)' /\ stamp'[q] = stamp[q]
                                     /\ q \in Mine' => q \in Mine
    BY <1>1, <1>3 DEF Visible, Mine
  <2> QED BY <1>1, <2>1, TableKeepsList
<1>6. PromiseInv' BY <1>1, TableKeepsPromise DEF Commit
<1>7. BellInv'
  <2>1. \A q \in Mine' : row'[q] = "announced" => q \in Mine /\ row[q] = "announced"
    BY <1>1, <1>2 DEF Mine
  <2> QED BY <1>1, <2>1 DEF IInv, BellInv, Reading, listVars
<1> QED BY <1>4, <1>5, <1>6, <1>7 DEF IInv

\* A committed row is pushed, or not: everybody can see it already.
LEMMA PushStep ==
  ASSUME IInv, NEW r \in Ids, Publish(r) \/ NotPushed(r)
  PROVE  IInv'
<1> USE DEF browserVars, socketVars
<1>1. UNCHANGED <<stamp, expired, read, promised, listVars, subscribed, live>>
      /\ pushed \subseteq pushed'
  BY DEF Publish, NotPushed
<1>2. /\ row[r] = "committed" /\ row'[r] \in {"announced", "silent"}
      /\ \A q \in Ids \ {r} : row'[q] = row[q]
  BY DEF IInv, TypeOK, Publish, NotPushed
<1>3. \A q \in Ids : Visible(q)' <=> Visible(q)
  BY <1>2 DEF Visible
<1>4. Mine' = Mine BY <1>1, <1>3 DEF Mine, Visible
<1>5. TypeOK'
  <2>1. row' \in [Ids -> {"new", "open", "committed", "announced", "silent"}]
        /\ pushed' \subseteq Ids
    BY DEF IInv, TypeOK, Publish, NotPushed
  <2>2. clock' = clock BY DEF Publish, NotPushed
  <2> QED BY <1>1, <2>1, <2>2 DEF IInv, TypeOK, listVars
<1>6. ListInv' BY <1>1, <1>3, <1>4, TableKeepsList
<1>7. PromiseInv' BY <1>1, <1>4, TableKeepsPromise
<1>8. BellInv'
  <2> SUFFICES ASSUME live, Reading, filter = NoFilter,
                      NEW q \in Mine, row'[q] = "announced"
               PROVE  q \in there \cup pushed'
    BY <1>1, <1>4 DEF BellInv, Reading, listVars
  <2>1. CASE q = r
    <3>1. Publish(r) BY <2>1 DEF IInv, TypeOK, NotPushed
    <3>2. subscribed /\ OwnerOf[r] = Account BY <2>1 DEF IInv, TypeOK, Mine
    <3> QED BY <2>1, <3>1, <3>2 DEF Publish
  <2>2. CASE q # r
    <3>1. row[q] = "announced" BY <1>2, <2>2 DEF Mine
    <3> QED BY <1>1, <3>1 DEF IInv, BellInv
  <2> QED BY <2>1, <2>2
<1> QED BY <1>5, <1>6, <1>7, <1>8 DEF IInv

\* A row expires or is read: it leaves what a promise was about.
LEMMA OtherServiceStep ==
  ASSUME IInv, NEW r \in Ids, Expire(r) \/ MarkRead(r)
  PROVE  IInv'
<1> USE DEF browserVars, socketVars
<1>1. /\ UNCHANGED <<clock, row, stamp, listVars, subscribed, pushed, live>>
      /\ promised' = NoPromise /\ expired \subseteq expired'
  BY DEF Expire, MarkRead
<1>2. Mine' \subseteq Mine BY <1>1 DEF Mine
<1>3. TypeOK'
  <2>1. expired' \subseteq Perishable /\ read' \subseteq Ids
    BY DEF IInv, TypeOK, Expire, MarkRead
  <2> QED BY <1>1, <2>1 DEF IInv, TypeOK, listVars
<1>4. ListInv' BY <1>1, <1>2, TableKeepsList DEF Visible
<1>5. PromiseInv' BY <1>1, TableKeepsPromise
<1>6. BellInv' BY <1>1, <1>2 DEF IInv, BellInv, Reading, listVars
<1> QED BY <1>3, <1>4, <1>5, <1>6 DEF IInv

-----------------------------------------------------------------------------
(* The steps of the browser, which leave the table alone. *)

LEMMA SameTable ==
  ASSUME UNCHANGED tableVars
  PROVE  /\ Mine' = Mine
         /\ \A r : KeyOf(r)' = KeyOf(r) /\ Visible(r)' = Visible(r)
         /\ \A c : /\ Counted(c)' = Counted(c) /\ InFilter(c)' = InFilter(c)
                   /\ CountsOf(Counted(c))' = CountsOf(Counted(c))
BY DEF tableVars, Mine, KeyOf, Visible, Counted, InFilter, CountsOf

LEMMA SocketStep ==
  ASSUME IInv, Connect \/ Disconnect
  PROVE  IInv'
<1>1. /\ UNCHANGED <<tableVars, listVars, promised>> /\ (live' => live)
      /\ live' => pushed' = pushed /\ subscribed'
  BY DEF IInv, TypeOK, Connect, Disconnect
<1>2. Mine' = Mine /\ read' = read /\ row' = row BY <1>1, SameTable DEF tableVars
<1>3. TypeOK'
  <2>1. subscribed' \in BOOLEAN /\ live' \in BOOLEAN /\ pushed' \subseteq Ids
    BY DEF IInv, TypeOK, Connect, Disconnect
  <2> QED BY <1>1, <2>1 DEF IInv, TypeOK, tableVars, listVars
<1>4. ListInv' BY <1>1, <1>2, TableKeepsList DEF tableVars, Visible
<1>5. PromiseInv' BY <1>1, <1>2, TableKeepsPromise
<1>6. BellInv' BY <1>1, <1>2 DEF IInv, BellInv, Reading, listVars
<1> QED BY <1>3, <1>4, <1>5, <1>6 DEF IInv

\* What the filters promise is counted now, before a list is opened.
LEMMA ListCategoriesStep ==
  ASSUME IInv, ListCategories
  PROVE  IInv'
<1> USE DEF browserVars, socketVars
<1>1. /\ UNCHANGED <<tableVars, listVars, subscribed, pushed, live>> /\ step = "idle"
      /\ promised' = [c \in ActiveCategories |-> CountsOf(Counted(c))]
  BY DEF ListCategories
<1>2. /\ Mine' = Mine /\ row' = row
      /\ \A c : Counted(c)' = Counted(c) /\ CountsOf(Counted(c))' = CountsOf(Counted(c))
  BY <1>1, SameTable DEF tableVars, CountsOf
<1>3. TypeOK'
  <2>1. \A c : Counted(c) \in SUBSET Ids BY DEF Counted, Mine
  <2>2. \A c : CountsOf(Counted(c)) \in Counts
    BY <2>1, RowsAreFinite DEF CountsOf, Counts
  <2>3. promised' \in [ActiveCategories -> Counts] BY <1>1, <2>2
  <2> QED BY <1>1, <2>3 DEF IInv, TypeOK, tableVars, listVars
<1>4. ListInv' BY <1>1, <1>2, TableKeepsList DEF tableVars, Visible
<1>5. PromiseInv'
  <2>1. listed = {} /\ page = {} /\ step = "idle"
    BY <1>1 DEF IInv, ListInv, ShapeInv
  <2> QED BY <1>1, <1>2, <2>1 DEF PromiseInv, Reading, listVars
<1>6. BellInv' BY <1>1, <1>2 DEF IInv, BellInv, Reading, listVars
<1> QED BY <1>3, <1>4, <1>5, <1>6 DEF IInv

\* A list that is opened or closed is empty.
LEMMA EmptyListStep ==
  ASSUME IInv, Close \/ \E f \in Filters : Open(f)
  PROVE  IInv'
<1> USE DEF socketVars
<1>1. /\ UNCHANGED <<tableVars, promised, subscribed, pushed>>
      /\ page' = {} /\ listed' = {} /\ there' = {} /\ cursor' = NoCursor
      /\ step' = "query" \/ (step' = "idle" /\ ~live')
  BY DEF Close, Open, IInv, ListInv, ShapeInv
<1>2. ~Reading' BY <1>1 DEF Reading
<1>3. TypeOK'
  <2>1. Cardinality(page') <= MaxLimit BY <1>1, FS_EmptySet, InboxAssumption
  <2>2. filter' \in Filters /\ more' \in BOOLEAN /\ badge' \in Nat
    <3>1. CASE Close BY <3>1 DEF Close, Filters
    <3>2. CASE \E f \in Filters : Open(f) BY <3>2 DEF Open, IInv, TypeOK
    <3> QED BY <3>1, <3>2
  <2>3. CASE Close BY <1>1, <2>1, <2>2, <2>3 DEF Close, IInv, TypeOK, tableVars
  <2>4. CASE \E f \in Filters : Open(f)
    <3>1. live' = subscribed /\ live' \in BOOLEAN BY <2>4 DEF Open, IInv, TypeOK
    <3> QED BY <1>1, <2>1, <2>2, <3>1 DEF IInv, TypeOK, tableVars
  <2> QED BY <2>3, <2>4
<1>4. ListInv' BY <1>1 DEF ListInv, ShapeInv, SeenInv, LeftInv, Done
<1>5. PromiseInv' BY <1>1, <1>2, SameTable DEF IInv, PromiseInv
<1>6. BellInv' BY <1>2 DEF BellInv
<1> QED BY <1>3, <1>4, <1>5, <1>6 DEF IInv

\* The next page, or the same one again, is asked for.
LEMMA AskStep ==
  ASSUME IInv, Scroll \/ RequestFails
  PROVE  IInv'
<1> USE DEF socketVars
<1>1. /\ UNCHANGED <<tableVars, promised, filter, cursor, more, listed, badge,
                     there, subscribed, pushed, live>>
      /\ step \in {"shown", "count"} /\ step' = "query" /\ page' = {}
  BY DEF Scroll, RequestFails, IInv, ListInv, ShapeInv
<1>2. /\ Mine' = Mine /\ read' = read /\ row' = row
      /\ \A r : KeyOf(r)' = KeyOf(r) /\ Visible(r)' = Visible(r)
      /\ \A c : /\ Counted(c)' = Counted(c) /\ InFilter(c)' = InFilter(c)
                /\ CountsOf(Counted(c))' = CountsOf(Counted(c))
  BY <1>1, SameTable DEF tableVars
<1>3. TypeOK'
  <2>1. Cardinality(page') <= MaxLimit BY <1>1, FS_EmptySet, InboxAssumption
  <2> QED BY <1>1, <2>1 DEF IInv, TypeOK, tableVars
<1>4. ListInv'
  <2>1. ShapeInv' BY <1>1 DEF IInv, ListInv, ShapeInv
  <2>2. SeenInv'
    BY <1>1, <1>2 DEF IInv, ListInv, SeenInv, Matches, Before
  <2>3. LeftInv'
    BY <1>1, <1>2 DEF IInv, ListInv, LeftInv, Done, Before
  <2> QED BY <2>1, <2>2, <2>3 DEF ListInv
<1>5. PromiseInv' BY <1>1, <1>2 DEF IInv, PromiseInv, Reading
<1>6. BellInv' BY <1>1, <1>2 DEF IInv, BellInv, Reading
<1> QED BY <1>3, <1>4, <1>5, <1>6 DEF IInv

\* A page is read: the rows of the filter that it leaves are below it.
LEMMA ListInboxStep ==
  ASSUME IInv, NEW limit \in Limits, ListInbox(limit)
  PROVE  IInv'
<1> DEFINE n == ClampLimit(limit)
<1> USE DEF socketVars
<1>1. /\ UNCHANGED <<tableVars, promised, filter, cursor, listed, badge,
                     subscribed, pushed, live>>
      /\ step = "query" /\ step' = "count"
      /\ page' \subseteq Remaining /\ Newest(page', Remaining, n)
      /\ more' = (Cardinality(Remaining) > n)
      /\ there' = IF cursor = NoCursor THEN Remaining ELSE there
  BY DEF ListInbox
<1>2. /\ Mine' = Mine /\ read' = read /\ row' = row
      /\ \A r : KeyOf(r)' = KeyOf(r) /\ Visible(r)' = Visible(r)
      /\ \A c : /\ Counted(c)' = Counted(c) /\ InFilter(c)' = InFilter(c)
                /\ CountsOf(Counted(c))' = CountsOf(Counted(c))
  BY <1>1, SameTable DEF tableVars
<1>3. \A r : r \in Remaining <=> r \in Mine /\ Matches(r) /\ Below(r, cursor)
  BY DEF Remaining, InFilter, Matches, Mine
<1>4. Remaining \subseteq Mine /\ Mine \subseteq Ids /\ Remaining \subseteq Ids
  BY <1>3 DEF Mine
<1>5. n \in 1 .. MaxLimit BY InboxAssumption, ClampInRange
<1>6. /\ Cardinality(page') <= MaxLimit
      /\ Cardinality(Remaining) > n => page' # {}
      /\ ~(Cardinality(Remaining) > n) => page' = Remaining
  BY <1>1, <1>4, <1>5, PageFits
<1> HIDE DEF n
<1>7. \A r \in Mine : r \in Remaining =>
        r \in page' \/ (more' /\ page' # {} /\
                        \A x \in page' : Before(KeyOf(r), KeyOf(x)))
  BY <1>1, <1>6 DEF Newest
<1>8. TypeOK'
  <2>1. page' \subseteq Ids /\ there' \subseteq Ids
    BY <1>1, <1>4 DEF IInv, TypeOK
  <2> QED BY <1>1, <1>6, <2>1 DEF IInv, TypeOK, tableVars
<1>9. ListInv'
  <2>1. ShapeInv' BY <1>1 DEF IInv, ListInv, ShapeInv
  <2>2. SeenInv'
    <3>1. \A r \in page' \cup there' : Visible(r) /\ Matches(r)
      BY <1>1, <1>3 DEF IInv, ListInv, SeenInv, Mine, Visible
    <3>2. \A r \in page' : Below(r, cursor) BY <1>1, <1>3
    <3> QED BY <1>1, <1>2, <3>1, <3>2
            DEF IInv, ListInv, SeenInv, Matches, Before, Below
  <2>3. LeftInv'
    <3>1. \A r \in there' \cap Mine : r \in listed \/ r \in Remaining
      <4>1. CASE cursor = NoCursor BY <1>1, <4>1
      <4>2. CASE cursor # NoCursor
        <5> SUFFICES ASSUME NEW r \in there, r \in Mine, r \notin listed
                     PROVE  r \in Remaining
            BY <1>1, <4>2
        <5>1. Before(KeyOf(r), cursor) BY <1>1, <4>2 DEF IInv, ListInv, LeftInv
        <5>2. Matches(r) BY DEF IInv, ListInv, SeenInv
        <5> QED BY <1>3, <5>1, <5>2 DEF Below
      <4> QED BY <4>1, <4>2
    <3>2. \A r \in there' \cap Mine :
            \/ r \in listed \cup page'
            \/ more' /\ page' # {} /\ \A x \in page' : Before(KeyOf(r), KeyOf(x))
      BY <1>7, <3>1
    <3>3. cursor # NoCursor =>
            \A r \in there' \cap Mine : r \in listed \/ Before(KeyOf(r), cursor)
      BY <1>1 DEF IInv, ListInv, LeftInv
    <3> QED BY <1>1, <1>2, <3>2, <3>3 DEF LeftInv, Done, Before
  <2> QED BY <2>1, <2>2, <2>3 DEF ListInv
<1>10. InFilter(filter) \subseteq there' \/ ~(promised # NoPromise)
  <2>1. CASE cursor = NoCursor
    BY <1>1, <2>1 DEF Remaining, Below
  <2>2. CASE cursor # NoCursor
    BY <1>1, <2>2 DEF IInv, PromiseInv, Reading
  <2> QED BY <2>1, <2>2
<1>11. PromiseInv'
  BY <1>1, <1>2, <1>4, <1>10 DEF IInv, PromiseInv
<1>12. BellInv'
  <2> SUFFICES ASSUME live, filter = NoFilter, NEW r \in Mine, row[r] = "announced"
               PROVE  r \in there' \cup pushed
      BY <1>1, <1>2 DEF BellInv
  <2>1. CASE cursor = NoCursor
    BY <1>1, <2>1 DEF Remaining, Below, InFilter
  <2>2. CASE cursor # NoCursor
    BY <1>1, <2>2 DEF IInv, BellInv, Reading
  <2> QED BY <2>1, <2>2
<1> QED BY <1>8, <1>9, <1>11, <1>12 DEF IInv

\* The page is answered and the cursor goes to its last row.
LEMMA UnreadCountStep ==
  ASSUME IInv, UnreadCount
  PROVE  IInv'
<1> USE DEF socketVars
<1>1. /\ UNCHANGED <<tableVars, promised, filter, more, there, subscribed,
                     pushed, live>>
      /\ step = "count" /\ step' = "shown" /\ badge' = Cardinality(Mine \ read)
      /\ listed' = listed \cup page /\ page' = {} /\ NextCursor(cursor')
  BY DEF UnreadCount
<1>2. /\ Mine' = Mine /\ read' = read /\ row' = row
      /\ \A r : KeyOf(r)' = KeyOf(r) /\ Visible(r)' = Visible(r)
      /\ \A c : /\ Counted(c)' = Counted(c) /\ InFilter(c)' = InFilter(c)
                /\ CountsOf(Counted(c))' = CountsOf(Counted(c))
  BY <1>1, SameTable DEF tableVars
<1>3. \A r \in Ids : KeyOf(r) \in Keys BY KeyIsKey DEF IInv
<1>4. page \subseteq Ids /\ listed \subseteq Ids /\ there \subseteq Ids
      /\ cursor \in Keys \cup {NoCursor}
  BY DEF IInv, TypeOK
<1>5. \/ page = {} /\ cursor' = cursor
      \/ \E m \in page : /\ cursor' = KeyOf(m)
                         /\ \A x \in page \ {m} : Before(cursor', KeyOf(x))
  BY <1>1 DEF NextCursor
<1>6. page # {} => cursor' \in Keys /\ cursor' # NoCursor
  BY <1>3, <1>4, <1>5, InboxAssumption
<1>7. TypeOK'
  <2>1. badge' \in Nat
    <3>1. Mine \ read \in SUBSET Ids BY DEF Mine
    <3> QED BY <1>1, <3>1, RowsAreFinite
  <2>2. Cardinality(page') <= MaxLimit BY <1>1, FS_EmptySet, InboxAssumption
  <2>3. cursor' \in Keys \cup {NoCursor} BY <1>4, <1>5, <1>6
  <2> QED BY <1>1, <2>1, <2>2, <2>3 DEF IInv, TypeOK, tableVars
<1>8. \A r \in listed \cup page : cursor' # NoCursor => ~Before(KeyOf(r), cursor')
  <2>1. CASE page = {} BY <1>5, <2>1 DEF IInv, ListInv, SeenInv
  <2>2. CASE page # {}
    <3>1. PICK m \in page : /\ cursor' = KeyOf(m)
                            /\ \A x \in page \ {m} : Before(cursor', KeyOf(x))
      BY <1>5, <2>2
    <3>2. ASSUME NEW r \in page PROVE ~Before(KeyOf(r), cursor')
      <4>1. KeyOf(r) \in Keys /\ KeyOf(m) \in Keys BY <1>3, <1>4
      <4>2. r = m \/ Before(KeyOf(m), KeyOf(r)) BY <3>1
      <4> QED BY <3>1, <4>1, <4>2, BeforeIsOrder
    <3>3. ASSUME NEW r \in listed PROVE ~Before(KeyOf(r), cursor')
      <4>1. KeyOf(r) \in Keys /\ KeyOf(m) \in Keys BY <1>3, <1>4
      <4>2. cursor # NoCursor /\ cursor \in Keys
        BY <1>4, <3>3 DEF IInv, ListInv, ShapeInv
      <4>3. ~Before(KeyOf(r), cursor) BY <4>2 DEF IInv, ListInv, SeenInv
      <4>4. Before(KeyOf(m), cursor) BY <4>2 DEF IInv, ListInv, SeenInv, Below
      <4> QED BY <3>1, <4>1, <4>2, <4>3, <4>4, BeforeIsOrder
    <3> QED BY <3>2, <3>3
  <2> QED BY <2>1, <2>2
<1>9. ListInv'
  <2>1. ShapeInv'
    BY <1>1, <1>5, <1>6 DEF IInv, ListInv, ShapeInv
  <2>2. SeenInv'
    BY <1>1, <1>2, <1>8 DEF IInv, ListInv, SeenInv, Matches, Before
  <2>3. LeftInv'
    <3>1. ASSUME NEW r \in there \cap Mine, r \notin listed \cup page
          PROVE  more /\ page # {} /\ Before(KeyOf(r), cursor')
      <4>1. more /\ page # {} /\ \A x \in page : Before(KeyOf(r), KeyOf(x))
        BY <1>1, <3>1 DEF IInv, ListInv, LeftInv
      <4> QED BY <1>5, <4>1
    <3> QED BY <1>1, <1>2, <3>1 DEF LeftInv, Done, Before
  <2> QED BY <2>1, <2>2, <2>3 DEF ListInv
<1>10. PromiseInv' BY <1>1, <1>2 DEF IInv, PromiseInv, Reading
<1>11. BellInv' BY <1>1, <1>2 DEF IInv, BellInv, Reading
<1> QED BY <1>7, <1>9, <1>10, <1>11 DEF IInv

-----------------------------------------------------------------------------
(* The theorems. *)

\* Every step of a writer or of the browser keeps the invariant.
LEMMA NextIInv == IInv /\ [Next]_vars => IInv'
<1> SUFFICES ASSUME IInv, [Next]_vars PROVE IInv'
    OBVIOUS
<1>1. CASE Tick BY <1>1, UnseenStep
<1>2. ASSUME NEW r \in Ids, Write(r) PROVE IInv'
  BY <1>2, UnseenStep, CommitStep, PushStep, OtherServiceStep DEF Write
<1>3. CASE Connect \/ Disconnect BY <1>3, SocketStep
<1>4. CASE Scroll \/ RequestFails BY <1>4, AskStep
<1>5. CASE UnreadCount BY <1>5, UnreadCountStep
<1>6. CASE ListCategories BY <1>6, ListCategoriesStep
<1>7. CASE Close \/ \E f \in Filters : Open(f) BY <1>7, EmptyListStep
<1>8. ASSUME NEW limit \in Limits, ListInbox(limit) PROVE IInv'
  BY <1>8, ListInboxStep
<1>9. CASE UNCHANGED vars
  <2>1. /\ UNCHANGED <<tableVars, listVars, promised, subscribed, pushed, live>>
        /\ Mine' = Mine /\ read' = read
        /\ \A r : KeyOf(r)' = KeyOf(r) /\ Visible(r)' = Visible(r)
    BY <1>9, SameTable DEF vars, socketVars, tableVars
  <2>2. TypeOK' BY <2>1 DEF IInv, TypeOK, tableVars, listVars
  <2>3. ListInv' BY <2>1, TableKeepsList DEF tableVars
  <2>4. PromiseInv' BY <2>1, TableKeepsPromise
  <2>5. BellInv' BY <2>1 DEF IInv, BellInv, Reading, tableVars, listVars
  <2> QED BY <2>2, <2>3, <2>4, <2>5 DEF IInv
<1> QED
  BY <1>1, <1>2, <1>3, <1>4, <1>5, <1>6, <1>7, <1>8, <1>9 DEF Next, Browse

\* The parts of the invariant hold together, at every step.
LEMMA Invariance == Spec => []IInv
<1> QED BY InitIInv, NextIInv, PTL DEF Spec

\* Every variable has its type, and no page has more than MaxLimit rows
\* (inbox_handler.go: clampLimit).
THEOREM TypeCorrect == Spec => []TypeOK
<1>1. IInv => TypeOK BY DEF IInv
<1> QED BY <1>1, Invariance, PTL

\* Page by page a list shows every row once and skips none, whatever happens
\* between two pages (notification_repository.go: ListInbox).
THEOREM PagesAreExact == Spec => []TraversalIsExact
<1>1. IInv => TraversalIsExact
  <2> SUFFICES ASSUME IInv PROVE TraversalIsExact
      OBVIOUS
  <2>1. page \cap listed = {}
    BY DEF IInv, ListInv, ShapeInv, SeenInv, Below
  <2> QED BY <2>1 DEF IInv, ListInv, LeftInv, TraversalIsExact
<1> QED BY <1>1, Invariance, PTL

\* A list that is read to its end shows what its filter promised, in all and
\* unread, and the badge counts its unread rows when it has no filter, if the
\* table is still the one the promise was about (notification_repository.go:
\* ListCategories, UnreadCount).
THEOREM PromiseIsKept == Spec => []FilterKeepsPromise
<1>1. IInv => FilterKeepsPromise
  <2> SUFFICES ASSUME IInv, Done, promised # NoPromise
               PROVE  /\ filter \in ActiveCategories =>
                            CountsOf(listed) = promised[filter]
                      /\ filter = NoFilter => badge = Cardinality(listed \ read)
      BY DEF FilterKeepsPromise
  <2>1. listed = InFilter(filter)
    <3>1. InFilter(filter) \subseteq there /\ listed \subseteq Mine
      BY DEF IInv, PromiseInv, Reading, Done
    <3>2. there \cap Mine \subseteq listed /\ InFilter(filter) \subseteq Mine
      BY DEF IInv, ListInv, LeftInv, InFilter
    <3>3. listed \subseteq InFilter(filter)
      BY <3>1 DEF IInv, ListInv, SeenInv, Matches, InFilter
    <3> QED BY <3>1, <3>2, <3>3
  <2>2. CASE filter \in ActiveCategories
    <3>1. filter # NoFilter BY <2>2, InboxAssumption
    <3>2. listed = Counted(filter) BY <2>1, <3>1 DEF InFilter, Counted
    <3>3. promised[filter] = CountsOf(Counted(filter))
      BY <2>2 DEF IInv, PromiseInv
    <3> QED BY <3>1, <3>2, <3>3
  <2>3. CASE filter = NoFilter
    <3>1. listed = Mine BY <2>1, <2>3 DEF InFilter
    <3>2. badge = Cardinality(Mine \ read) BY DEF IInv, PromiseInv, Done
    <3> QED BY <2>3, <3>1, <3>2, InboxAssumption
  <2> QED BY <2>2, <2>3
<1> QED BY <1>1, Invariance, PTL

\* Subscribing before the list is read leaves no gap between the list and the
\* socket (realtime_handler.go and inbox_handler.go).
THEOREM NoGap == Spec => []BellOrInbox
<1>1. IInv => BellOrInbox
  <2> SUFFICES ASSUME IInv, Done, filter = NoFilter, live, NEW r \in Mine,
                      row[r] = "announced"
               PROVE  r \in listed \cup pushed
      BY DEF BellOrInbox, Mine
  <2>1. r \in there \cup pushed BY DEF IInv, BellInv, Reading, Done
  <2> QED BY <2>1 DEF IInv, ListInv, LeftInv
<1> QED BY <1>1, Invariance, PTL
=============================================================================
