---------------------- MODULE NotificationHubRefinement ----------------------
(***************************************************************************)
(* NotificationHub keeps the promise of Gateway, for every value of its    *)
(* constants: each step of a socket, a publisher or the realtime consumer  *)
(* is a step of Gateway under the refinement mapping, or changes nothing   *)
(* Gateway speaks of.                                                      *)
(***************************************************************************)
EXTENDS NotificationHubProofs

\* The variables of Gateway that the hub does not have.
User == [c \in Clients |-> UserOf(c)]
Asks == [x \in Subscriptions |->
           IF Served(Owner(x[1])) THEN subs[x[1]][x[2]] ELSE NoStream]
May  == [p \in Publishers |-> (todo[p] \X SubIds) \cup ({at[p]} \X left[p])]

Step == Promise!Next \/ UNCHANGED Promise!gvars

-----------------------------------------------------------------------------
(* The steps of Gateway, in these terms. *)

LEMMA Stutters ==
  ASSUME UNCHANGED <<User, Asks, event, owed, May>>
  PROVE  Step
BY DEF Step, Promise!gvars, User, Asks, May

LEMMA Connects ==
  ASSUME NEW c \in Clients, NEW a \in Accounts, User[c] = NoAccount,
         User' = [User EXCEPT ![c] = a], UNCHANGED <<Asks, event, owed, May>>
  PROVE  Step
<1>1. Promise!Connect(c, a) BY DEF Promise!Connect, User, Asks, May
<1> QED BY <1>1 DEF Step, Promise!Next

LEMMA AsksFor ==
  ASSUME NEW x \in Subscriptions, NEW st \in Streams \cup {NoStream},
         User[x[1]] # NoAccount, Asks' = [Asks EXCEPT ![x] = st],
         owed' = [p \in Publishers |-> owed[p] \ {x}],
         UNCHANGED <<User, event, May>>
  PROVE  Step
<1>1. Promise!Ask(x, st) BY DEF Promise!Ask, User, Asks, May
<1> QED BY <1>1 DEF Step, Promise!Next, Promise!Subscriptions, Subscriptions

LEMMA Disconnects ==
  ASSUME NEW C \in SUBSET Clients,
         User' = [c \in Clients |-> IF c \in C THEN NoAccount ELSE User[c]],
         Asks' = [x \in Subscriptions |-> IF x[1] \in C THEN NoStream ELSE Asks[x]],
         owed' = [p \in Publishers |-> owed[p] \ (C \X SubIds)],
         UNCHANGED <<event, May>>
  PROVE  Step
<1>1. Promise!Disconnect(C)
  BY DEF Promise!Disconnect, Promise!Subscriptions, Subscriptions, User, Asks, May
<1> QED BY <1>1 DEF Step, Promise!Next

\* Whom an event is for.
Wants(x, e) == Asks[x] = e.stream /\ (e.stream = Bell => User[x[1]] = e.to)

LEMMA Publishes ==
  ASSUME NEW p \in Publishers, NEW e \in Event, event[p] = NoEvent,
         event' = [event EXCEPT ![p] = e],
         owed' = [owed EXCEPT ![p] = {x \in Subscriptions : Wants(x, e)}],
         NEW X \in SUBSET Subscriptions, owed'[p] \subseteq X,
         May' = [May EXCEPT ![p] = X], UNCHANGED <<User, Asks>>
  PROVE  Step
<1>1. Promise!Publish(p, e)
  BY DEF Promise!Publish, Promise!Wants, Promise!Subscriptions, Subscriptions,
         Wants, User, Asks, May
<1> QED BY <1>1 DEF Step, Promise!Next

LEMMA Delivers ==
  ASSUME NEW p \in Publishers, NEW x \in Subscriptions, event[p] # NoEvent,
         Wants(x, event[p]), x \in May[p],
         May' = [May EXCEPT ![p] = @ \ {x}], owed' = [owed EXCEPT ![p] = @ \ {x}],
         UNCHANGED <<User, Asks, event>>
  PROVE  Step
<1>1. Promise!Deliver(p, x)
  BY DEF Promise!Deliver, Promise!Wants, Wants, User, Asks, May
<1> QED BY <1>1 DEF Step, Promise!Next, Promise!Subscriptions, Subscriptions

LEMMA Passes ==
  ASSUME NEW p \in Publishers, NEW X \in SUBSET May[p], owed[p] \subseteq X,
         May' = [May EXCEPT ![p] = X], UNCHANGED <<User, Asks, event, owed>>
  PROVE  Step
<1>1. Promise!Pass(p) BY DEF Promise!Pass, User, Asks, May
<1> QED BY <1>1 DEF Step, Promise!Next

LEMMA Finishes ==
  ASSUME NEW p \in Publishers, event[p] # NoEvent, owed[p] = {},
         event' = [event EXCEPT ![p] = NoEvent], May' = [May EXCEPT ![p] = {}],
         UNCHANGED <<User, Asks, owed>>
  PROVE  Step
<1>1. Promise!Finish(p) BY DEF Promise!Finish, User, Asks, May
<1> QED BY <1>1 DEF Step, Promise!Next

-----------------------------------------------------------------------------
(* Who a client is. *)

UserFacts ==
  \A c \in Clients :
    /\ User[c] \in Accounts \cup {NoAccount}
    /\ \A a \in Accounts : User[c] = a <=> Served(Owner(c)) /\ Entry(a, c) \in registered

LEMMA UserIs == IInv => UserFacts
<1> SUFFICES ASSUME IInv, NEW c \in Clients
             PROVE  /\ User[c] \in Accounts \cup {NoAccount}
                    /\ \A a \in Accounts :
                         User[c] = a <=> Served(Owner(c)) /\ Entry(a, c) \in registered
    BY DEF UserFacts
<1> DEFINE mine == {r.account : r \in {x \in registered : x.client = c}}
<1>1. /\ registered \subseteq [account: Accounts, client: Clients]
      /\ \A r, q \in registered : r.client = q.client => r = q
  BY DEF IInv, TypeOK, HubInv, ClientInv
<1>2. User[c] = IF Served(Owner(c)) /\ mine # {} THEN CHOOSE a \in mine : TRUE
                ELSE NoAccount
  BY DEF User, UserOf
<1>3. \A a \in mine : a \in Accounts /\ Entry(a, c) \in registered
  <2> SUFFICES ASSUME NEW r \in registered, r.client = c
               PROVE  r.account \in Accounts /\ Entry(r.account, c) \in registered
      OBVIOUS
  <2>1. r = Entry(r.account, c) /\ r.account \in Accounts BY <1>1 DEF Entry
  <2> QED BY <2>1
<1>4. \A a \in Accounts : Entry(a, c) \in registered => mine = {a}
  <2> SUFFICES ASSUME NEW a \in Accounts, Entry(a, c) \in registered
               PROVE  mine = {a}
      OBVIOUS
  <2>1. Entry(a, c).client = c /\ Entry(a, c).account = a BY DEF Entry
  <2>2. a \in mine BY <2>1
  <2>3. \A r \in registered : r.client = c => r.account = a BY <1>1, <2>1
  <2> QED BY <2>2, <2>3
<1> HIDE DEF mine
<1>5. CASE Served(Owner(c)) /\ mine # {}
  <2>1. User[c] \in mine BY <1>2, <1>5
  <2> QED BY <1>3, <1>4, <1>5, <2>1
<1>6. CASE ~(Served(Owner(c)) /\ mine # {})
  BY <1>2, <1>4, <1>6, HubAssumption
<1> QED BY <1>5, <1>6

LEMMA UserWillBe == IInv' => UserFacts'
BY UserIs, PTL

\* A client has the same user after a step when it is registered and served alike.
LEMMA SameUser ==
  ASSUME IInv, IInv', NEW c \in Clients,
         \A a \in Accounts :
           (Served(Owner(c)) /\ Entry(a, c) \in registered)'
             <=> Served(Owner(c)) /\ Entry(a, c) \in registered
  PROVE  User'[c] = User[c]
<1>1. UserFacts /\ UserFacts' BY UserIs, UserWillBe
<1> QED BY <1>1, HubAssumption DEF UserFacts

LEMMA UsersStay ==
  ASSUME IInv, IInv', UNCHANGED registered, \A s \in Sockets : Served(s)' <=> Served(s)
  PROVE  UNCHANGED User
<1>1. \A c \in Clients : Owner(c) \in Sockets /\ Owner(c)' = Owner(c)
  BY ClientIsPair DEF Owner
<1>2. \A c \in Clients : User'[c] = User[c]
  BY <1>1, SameUser DEF Entry
<1> QED BY <1>2 DEF User

LEMMA AsksStay ==
  ASSUME UNCHANGED subs, \A s \in Sockets : Served(s)' <=> Served(s)
  PROVE  UNCHANGED Asks
<1>1. \A x \in Subscriptions : Owner(x[1]) \in Sockets
  BY ClientIsPair DEF Subscriptions
<1> QED BY <1>1 DEF Asks, Owner

LEMMA MayStays ==
  ASSUME UNCHANGED <<todo, at, left>>
  PROVE  UNCHANGED May
BY DEF May

-----------------------------------------------------------------------------
(* The steps of a socket. *)

\* A step of Handle that the subscriptions do not see.
LEMMA HandleStutters ==
  ASSUME IInv, IInv', UNCHANGED <<hubVars, event, todo, at, left, owed>>,
         \A s \in Sockets : Served(s)' <=> Served(s)
  PROVE  Step
BY UsersStay, AsksStay, MayStays, Stutters DEF hubVars

LEMMA ConnectionInitConnects ==
  ASSUME IInv, IInv', NEW s \in Sockets, NEW a \in Accounts, ConnectionInit(s, a)
  PROVE  Step
<1>1. PICK c \in Clients : c = <<s, inits[s] + 1>>
  <2>1. inits[s] + 1 \in 1 .. MaxInits
    BY HubAssumption DEF IInv, TypeOK, ConnectionInit
  <2> QED BY <2>1, ClientIsPair
<1>2. /\ registered' = registered \cup {Entry(a, c)}
      /\ phase' = [phase EXCEPT ![s] = "acking"]
      /\ phase[s] = "reading" /\ s \notin broken
      /\ UNCHANGED <<broken, subs, event, todo, at, left, owed>>
  BY <1>1 DEF ConnectionInit, Goto, Entry, pubVars, history
<1>3. Owner(c) = s /\ ~Known(c)
  BY <1>1, ClientIsPair DEF Known, IInv, TypeOK
<1>4. \A q \in Sockets : Served(q)' <=> Served(q)
  BY <1>2 DEF Served, IInv, TypeOK
<1>5. \A b : Entry(b, c) \notin registered
  <2>1. \A b : Entry(b, c).client = c BY DEF Entry
  <2> QED BY <1>3, <2>1 DEF IInv, HubInv, ClientInv
<1>6. User[c] = NoAccount
  BY <1>5, UserIs DEF UserFacts
<1>7. User'[c] = a
  <2>1. Served(Owner(c))' BY <1>2, <1>3 DEF Served, IInv, TypeOK, Owner
  <2>2. Entry(a, c)' \in registered' BY <1>2 DEF Entry
  <2> QED BY <2>1, <2>2, UserWillBe DEF UserFacts
<1>8. ASSUME NEW d \in Clients, d # c PROVE User'[d] = User[d]
  <2>1. \A b : Entry(b, d)' = Entry(b, d) /\ Entry(b, d) # Entry(a, c)
    <3>1. \A b : Entry(b, d).client = d BY DEF Entry
    <3>2. Entry(a, c).client = c BY DEF Entry
    <3> QED BY <1>8, <3>1, <3>2 DEF Entry
  <2>2. Owner(d) \in Sockets /\ Owner(d)' = Owner(d) BY ClientIsPair DEF Owner
  <2> QED BY <1>2, <1>4, <2>1, <2>2, SameUser
<1>9. User' = [User EXCEPT ![c] = a] BY <1>7, <1>8 DEF User
<1>10. UNCHANGED <<Asks, May>> BY <1>2, <1>4, AsksStay, MayStays
<1> QED BY <1>2, <1>6, <1>9, <1>10, Connects

LEMMA SocketDisconnects ==
  ASSUME IInv, IInv', NEW s \in Sockets, Anonymous(s) \/ Break(s) \/ Leave(s)
  PROVE  Step
<1> DEFINE C == {c \in Clients : Owner(c) = s}
<1>1. UNCHANGED <<hubVars, event, todo, at, left>> /\ ForgiveSocket(s)
  BY DEF Anonymous, Break, Leave, pubVars
<1>2. ~Served(s)' /\ \A q \in Sockets \ {s} : Served(q)' <=> Served(q)
  BY DEF Anonymous, Break, Leave, Goto, Served, IInv, TypeOK, handleVars
<1>3. \A c \in Clients : Owner(c) \in Sockets /\ Owner(c)' = Owner(c)
  BY ClientIsPair DEF Owner
<1>4. ASSUME NEW c \in Clients
      PROVE  User'[c] = IF c \in C THEN NoAccount ELSE User[c]
  <2>1. CASE c \in C
    BY <1>2, <1>3, <2>1, UserWillBe DEF UserFacts
  <2>2. CASE c \notin C
    BY <1>1, <1>2, <1>3, <2>2, SameUser DEF hubVars, Entry
  <2> QED BY <2>1, <2>2
<1>5. User' = [c \in Clients |-> IF c \in C THEN NoAccount ELSE User[c]]
  BY <1>4 DEF User
<1>6. Asks' = [x \in Subscriptions |-> IF x[1] \in C THEN NoStream ELSE Asks[x]]
  <2>1. \A x \in Subscriptions : x[1] \in Clients BY DEF Subscriptions
  <2>2. ASSUME NEW x \in Subscriptions
        PROVE  Asks'[x] = IF x[1] \in C THEN NoStream ELSE Asks[x]
    BY <1>1, <1>2, <1>3, <2>1 DEF Asks, hubVars
  <2> QED BY <2>2 DEF Asks
<1>7. owed' = [p \in Publishers |-> owed[p] \ (C \X SubIds)]
  <2>1. C \X SubIds = {x \in Subscriptions : Owner(x[1]) = s} BY DEF Subscriptions
  <2> QED BY <1>1, <2>1 DEF ForgiveSocket, Forgive
<1>8. UNCHANGED May BY <1>1, MayStays
<1> HIDE DEF C
<1>9. C \in SUBSET Clients BY DEF C
<1> QED BY <1>1, <1>5, <1>6, <1>7, <1>8, <1>9, Disconnects

LEMMA SubscriptionAsks ==
  ASSUME IInv, IInv', NEW s \in Sockets, NEW id \in SubIds,
         Complete(s, id) \/ \E st \in Streams : Subscribe(s, id, st)
  PROVE  Step
<1>1. PICK st \in Streams \cup {NoStream} :
        subs' = [subs EXCEPT ![current[s]][id] = st]
  BY DEF Complete, Subscribe
<1>2. /\ phase[s] = "reading" /\ s \notin broken /\ current[s] # NoClient
      /\ Forgive({<<current[s], id>>})
      /\ UNCHANGED <<handleVars, broken, registered, event, todo, at, left>>
  BY DEF Complete, Subscribe, pubVars
<1>3. PICK c \in Clients : c = current[s] BY <1>2 DEF IInv, TypeOK
<1>4. Owner(c) = s /\ Served(s) /\ Entry(account[s], c) \in registered
  BY <1>2, <1>3 DEF IInv, HubInv, HandleInv, Served
<1>5. User[c] # NoAccount
  <2>1. account[s] \in Accounts
    <3>1. Entry(account[s], c).account = account[s] BY DEF Entry
    <3> QED BY <1>4, <3>1 DEF IInv, TypeOK
  <2> QED BY <1>4, <2>1, UserIs, HubAssumption DEF UserFacts
<1>6. \A q \in Sockets : Served(q)' <=> Served(q)
  BY <1>2 DEF handleVars, Served
<1>7. UNCHANGED <<User, May>> BY <1>2, <1>6, UsersStay, MayStays
<1>8. PICK x \in Subscriptions : x = <<c, id>> BY DEF Subscriptions
<1>9. Asks' = [Asks EXCEPT ![x] = st]
  <2>1. ASSUME NEW y \in Subscriptions
        PROVE  Asks'[y] = IF y = x THEN st ELSE Asks[y]
    <3>1. /\ y[1] \in Clients /\ y[2] \in SubIds /\ y = <<y[1], y[2]>>
          /\ Owner(y[1]) \in Sockets /\ Owner(y[1])' = Owner(y[1])
      BY ClientIsPair DEF Subscriptions, Owner
    <3>2. subs'[y[1]][y[2]] = IF y = x THEN st ELSE subs[y[1]][y[2]]
      <4>1. subs \in [Clients -> [SubIds -> Streams \cup {NoStream}]] BY DEF IInv, TypeOK
      <4> QED BY <1>1, <1>3, <1>8, <3>1, <4>1
    <3>3. y = x => Served(Owner(y[1]))' BY <1>4, <1>6, <1>8, <3>1
    <3> QED BY <1>6, <3>1, <3>2, <3>3 DEF Asks
  <2> QED BY <2>1 DEF Asks
<1>10. owed' = [p \in Publishers |-> owed[p] \ {x}] BY <1>2, <1>3, <1>8 DEF Forgive
<1>11. User[x[1]] # NoAccount BY <1>5, <1>8
<1> QED BY <1>2, <1>7, <1>9, <1>10, <1>11, AsksFor

LEMMA RemoveStutters ==
  ASSUME IInv, IInv', NEW s \in Sockets, Remove(s)
  PROVE  Step
<1>1. /\ registered' = registered \ {Entry(account[s], current[s])}
      /\ UNCHANGED <<subs, event, todo, at, left, owed>>
  BY DEF Remove, Entry, pubVars, history
<1>2. ~Served(s) /\ \A q \in Sockets : Served(q)' <=> Served(q)
  BY DEF Remove, Goto, Served, IInv, TypeOK
<1>3. ASSUME NEW c \in Clients PROVE User'[c] = User[c]
  <2>1. Owner(c) \in Sockets /\ \A a : Entry(a, c)' = Entry(a, c) /\ Owner(c)' = Owner(c)
    BY ClientIsPair DEF Owner, Entry
  <2>2. CASE Owner(c) = s BY <1>2, <2>1, <2>2, SameUser
  <2>3. CASE Owner(c) # s
    <3>1. c # current[s] BY <2>3, HubAssumption DEF IInv, HubInv, HandleInv
    <3>2. \A a : Entry(a, c) # Entry(account[s], current[s])
      <4>1. \A a : Entry(a, c).client = c BY DEF Entry
      <4>2. Entry(account[s], current[s]).client = current[s] BY DEF Entry
      <4> QED BY <3>1, <4>1, <4>2
    <3> QED BY <1>1, <1>2, <2>1, <3>2, SameUser
  <2> QED BY <2>2, <2>3
<1>4. UNCHANGED User BY <1>3 DEF User
<1>5. UNCHANGED <<Asks, May>> BY <1>1, <1>2, AsksStay, MayStays
<1> QED BY <1>1, <1>4, <1>5, Stutters

-----------------------------------------------------------------------------
(* The steps of a publisher. *)

\* The copy of the recipients holds all who want the event at that moment.
LEMMA SnapshotPublishes ==
  ASSUME IInv, IInv', NEW p \in Publishers, NEW e \in Event, Snapshot(p, e),
         e.stream = Bell => e.to \in Accounts,
         \A s \in Sockets : Served(s)' <=> Served(s)
  PROVE  Step
<1> DEFINE X == Recipients(e) \X SubIds
<1>1. /\ event[p] = NoEvent /\ event' = [event EXCEPT ![p] = e]
      /\ todo' = [todo EXCEPT ![p] = Recipients(e)]
      /\ owed' = [owed EXCEPT ![p] =
           {x \in X : x[2] \in Matching(x[1], e) /\ Served(Owner(x[1]))}]
      /\ UNCHANGED <<registered, subs, at, left>>
  BY DEF Snapshot, Idle, hubVars
<1>2. UNCHANGED <<User, Asks>> BY <1>1, UsersStay, AsksStay
<1>3. Recipients(e) \subseteq Clients BY RecipientsAreClients DEF IInv
<1>4. UserFacts BY UserIs
<1>5. ASSUME NEW x \in X, x[2] \in Matching(x[1], e), Served(Owner(x[1]))
      PROVE  x \in Subscriptions /\ Wants(x, e)
  <2>1. x \in Subscriptions /\ Asks[x] = e.stream
    BY <1>3, <1>5 DEF Subscriptions, Asks, Matching
  <2>2. ASSUME e.stream = Bell PROVE User[x[1]] = e.to
    <3>1. PICK r \in registered : r.account = e.to /\ r.client = x[1]
      BY <1>5, <2>2 DEF Recipients
    <3>2. r = Entry(e.to, x[1]) /\ e.to \in Accounts /\ x[1] \in Clients
      BY <3>1 DEF IInv, TypeOK, Entry
    <3> QED BY <1>4, <1>5, <3>2 DEF UserFacts
  <2> QED BY <2>1, <2>2 DEF Wants
<1>6. ASSUME NEW x \in Subscriptions, Wants(x, e)
      PROVE  x \in X /\ x[2] \in Matching(x[1], e) /\ Served(Owner(x[1]))
  <2>1. x[1] \in Clients /\ x[2] \in SubIds /\ x = <<x[1], x[2]>> BY DEF Subscriptions
  <2>2. Served(Owner(x[1])) /\ subs[x[1]][x[2]] = e.stream /\ e.stream # NoStream
    BY <1>6, EventHasStream DEF Wants, Asks
  <2>3. PICK r \in registered : r.client = x[1]
    BY <2>1, <2>2 DEF IInv, HubInv, ClientInv, Blank
  <2>4. ASSUME e.stream = Bell PROVE Entry(e.to, x[1]) \in registered
    BY <1>4, <1>6, <2>1, <2>4 DEF UserFacts, Wants
  <2>5. x[1] \in Recipients(e)
    <3>1. CASE e.stream = Bell
      <4>1. Entry(e.to, x[1]).client = x[1] /\ Entry(e.to, x[1]).account = e.to
        BY DEF Entry
      <4> QED BY <2>4, <3>1, <4>1 DEF Recipients
    <3>2. CASE e.stream # Bell BY <2>3, <3>2 DEF Recipients
    <3> QED BY <3>1, <3>2
  <2> QED BY <2>1, <2>2, <2>5 DEF Matching
<1>7. {x \in X : x[2] \in Matching(x[1], e) /\ Served(Owner(x[1]))}
        = {x \in Subscriptions : Wants(x, e)}
  BY <1>5, <1>6
<1>8. X \in SUBSET Subscriptions BY <1>3 DEF Subscriptions
<1>9. owed'[p] \subseteq X BY <1>1 DEF IInv, TypeOK
<1>10. May' = [May EXCEPT ![p] = X]
  <2>1. at[p] = NoClient /\ left[p] = {}
    BY <1>1 DEF IInv, PubInv, VisitInv, Idle
  <2>2. \A q \in Publishers : todo'[q] = IF q = p THEN Recipients(e) ELSE todo[q]
    BY <1>1 DEF IInv, TypeOK
  <2>3. (Recipients(e) \X SubIds) \cup ({at[p]} \X left[p]) = X BY <2>1
  <2> QED BY <1>1, <2>2, <2>3 DEF May
<1>11. owed' = [owed EXCEPT ![p] = {x \in Subscriptions : Wants(x, e)}]
  BY <1>1, <1>7
<1> HIDE DEF X
<1> QED BY <1>1, <1>2, <1>8, <1>9, <1>10, <1>11, Publishes

\* A publisher is done when it owes nothing.
LEMMA FinishFinishes ==
  ASSUME IInv, IInv', NEW p \in Publishers, Published(p), Finish(p),
         \A s \in Sockets : Served(s)' <=> Served(s)
  PROVE  Step
<1>1. /\ event[p] # NoEvent /\ event' = [event EXCEPT ![p] = NoEvent]
      /\ at[p] = NoClient /\ todo[p] = {} /\ left[p] = {}
      /\ UNCHANGED <<registered, subs, todo, at, left, owed>>
  BY DEF Published, Finish, Idle, hubVars, IInv, PubInv, VisitInv
<1>2. owed[p] = {}
  <2>1. \A x \in owed[p] : x[1] \in Clients BY DEF IInv, TypeOK, Subscriptions
  <2> QED BY <1>1, <2>1, HubAssumption DEF IInv, PubInv, OwedInv
<1>3. UNCHANGED <<User, Asks, May>> BY <1>1, UsersStay, AsksStay, MayStays
<1>4. May[p] = {} BY <1>1 DEF May
<1>5. May' = [May EXCEPT ![p] = {}] BY <1>3, <1>4 DEF May
<1> QED BY <1>1, <1>2, <1>3, <1>5, Finishes

LEMMA EnterPasses ==
  ASSUME IInv, IInv', NEW p \in Publishers, NEW c \in Clients, Enter(p, c)
  PROVE  Step
<1> DEFINE X == ((todo[p] \ {c}) \X SubIds) \cup ({c} \X Matching(c, event[p]))
<1>1. /\ at[p] = NoClient /\ c \in todo[p]
      /\ todo' = [todo EXCEPT ![p] = @ \ {c}]
      /\ at' = [at EXCEPT ![p] = c]
      /\ left' = [left EXCEPT ![p] = Matching(c, event[p])]
      /\ UNCHANGED <<phase, broken, registered, subs, event, owed>>
  BY DEF Enter, hubVars, handleVars, history
<1>2. UNCHANGED <<User, Asks>>
  <2>1. \A s \in Sockets : Served(s)' <=> Served(s) BY <1>1 DEF Served
  <2> QED BY <1>1, <2>1, UsersStay, AsksStay
<1>3. May' = [May EXCEPT ![p] = X]
  <2>1. ASSUME NEW q \in Publishers PROVE May'[q] = IF q = p THEN X ELSE May[q]
    <3>1. CASE q = p BY <1>1, <3>1 DEF May, IInv, TypeOK
    <3>2. CASE q # p
      <4>1. todo'[q] = todo[q] /\ at'[q] = at[q] /\ left'[q] = left[q]
        BY <1>1, <3>2 DEF IInv, TypeOK
      <4> QED BY <3>2, <4>1 DEF May
    <3> QED BY <3>1, <3>2
  <2> QED BY <2>1 DEF May
<1>4. X \in SUBSET May[p] BY <1>1 DEF May, Matching
<1>5. owed[p] \subseteq X
  <2> SUFFICES ASSUME NEW x \in owed[p] PROVE x \in X
      OBVIOUS
  <2>1. x[1] \in Clients /\ x[2] \in SubIds /\ x = <<x[1], x[2]>>
    BY DEF IInv, TypeOK, Subscriptions
  <2>2. x[1] \in todo[p] /\ subs[x[1]][x[2]] = event[p].stream
    BY <1>1, <2>1, HubAssumption DEF IInv, PubInv, OwedInv
  <2> QED BY <2>1, <2>2 DEF Matching
<1> HIDE DEF X
<1> QED BY <1>1, <1>2, <1>3, <1>4, <1>5, Passes

LEMMA WriteDelivers ==
  ASSUME IInv, IInv', NEW p \in Publishers, NEW id \in SubIds, Write(p, id)
  PROVE  Step
<1>1. /\ id \in left[p] /\ left' = [left EXCEPT ![p] = @ \ {id}]
      /\ owed' = [owed EXCEPT ![p] = @ \ {<<at[p], id>>}]
      /\ UNCHANGED <<phase, broken, registered, subs, event, todo, at>>
  BY DEF Write, hubVars, handleVars
<1>2. PICK c \in Clients : c = at[p] BY <1>1 DEF IInv, TypeOK, PubInv, VisitInv
<1>3. /\ c \notin todo[p] /\ event[p] # NoEvent /\ subs[c][id] = event[p].stream
  BY <1>1, <1>2, HubAssumption DEF IInv, PubInv, VisitInv, Idle
<1>4. PICK x \in Subscriptions : x = <<c, id>> BY DEF Subscriptions
<1>5. UNCHANGED <<User, Asks>>
  <2>1. \A s \in Sockets : Served(s)' <=> Served(s) BY <1>1 DEF Served
  <2> QED BY <1>1, <2>1, UsersStay, AsksStay
<1>6. May' = [May EXCEPT ![p] = @ \ {x}]
  <2>1. ASSUME NEW q \in Publishers
        PROVE  May'[q] = IF q = p THEN May[q] \ {x} ELSE May[q]
    <3>1. CASE q = p
      <4>1. left'[p] = left[p] \ {id} BY <1>1 DEF IInv, TypeOK
      <4>2. ((todo[p] \X SubIds) \cup ({c} \X left[p])) \ {x}
              = (todo[p] \X SubIds) \cup ({c} \X (left[p] \ {id}))
        BY <1>3, <1>4
      <4> QED BY <1>1, <1>2, <3>1, <4>1, <4>2 DEF May
    <3>2. CASE q # p BY <1>1, <3>2 DEF May, IInv, TypeOK
    <3> QED BY <3>1, <3>2
  <2> QED BY <2>1 DEF May
<1>7. x \in May[p] BY <1>1, <1>2, <1>4 DEF May
<1>8. CASE Served(Owner(c))
  <2>1. Asks[x] = event[p].stream BY <1>3, <1>4, <1>8 DEF Asks
  <2>2. event[p].stream = Bell => User[c] = event[p].to
    BY <1>2, <1>8, UserIs DEF UserFacts, IInv, PubInv, AddressInv
  <2>3. Wants(x, event[p]) BY <1>4, <2>1, <2>2 DEF Wants
  <2>4. owed' = [owed EXCEPT ![p] = @ \ {x}] BY <1>1, <1>2, <1>4
  <2> QED BY <1>1, <1>3, <1>5, <1>6, <1>7, <2>3, <2>4, Delivers
<1>9. CASE ~Served(Owner(c))
  <2>1. x \notin owed[p] BY <1>4, <1>9 DEF IInv, PubInv, OwedInv
  <2>2. UNCHANGED owed
    <3>1. owed' = [owed EXCEPT ![p] = @ \ {x}] BY <1>1, <1>2, <1>4
    <3>2. owed[p] \ {x} = owed[p] BY <2>1
    <3>3. owed \in [Publishers -> SUBSET Subscriptions] BY DEF IInv, TypeOK
    <3> QED BY <3>1, <3>2, <3>3
  <2>3. owed[p] \subseteq May[p] \ {x}
    <3>1. \A y \in owed[p] : y[1] \in Clients /\ y[2] \in SubIds /\ y = <<y[1], y[2]>>
      BY DEF IInv, TypeOK, Subscriptions
    <3>2. owed[p] \subseteq May[p]
      BY <3>1 DEF IInv, PubInv, OwedInv, May
    <3> QED BY <2>1, <3>2
  <2> QED BY <1>1, <1>5, <1>6, <2>2, <2>3, Passes
<1> QED BY <1>8, <1>9

LEMMA WriteFailsPasses ==
  ASSUME IInv, IInv', NEW p \in Publishers, WriteFails(p)
  PROVE  Step
<1> DEFINE X == todo[p] \X SubIds
<1>1. /\ left[p] # {} /\ left' = [left EXCEPT ![p] = {}] /\ ~Served(Owner(at[p]))
      /\ UNCHANGED <<phase, broken, registered, subs, event, todo, at, owed>>
  BY DEF WriteFails, hubVars, handleVars, history, Writable, Served
<1>2. UNCHANGED <<User, Asks>>
  <2>1. \A s \in Sockets : Served(s)' <=> Served(s) BY <1>1 DEF Served
  <2> QED BY <1>1, <2>1, UsersStay, AsksStay
<1>3. May' = [May EXCEPT ![p] = X]
  <2>1. ASSUME NEW q \in Publishers PROVE May'[q] = IF q = p THEN X ELSE May[q]
    BY <1>1 DEF May, IInv, TypeOK
  <2> QED BY <2>1 DEF May
<1>4. X \in SUBSET May[p] BY DEF May
<1>5. owed[p] \subseteq X
  <2> SUFFICES ASSUME NEW x \in owed[p] PROVE x \in X
      OBVIOUS
  <2>1. x[1] \in Clients /\ x[2] \in SubIds /\ x = <<x[1], x[2]>>
    BY DEF IInv, TypeOK, Subscriptions
  <2> QED BY <1>1, <2>1 DEF IInv, PubInv, OwedInv
<1> HIDE DEF X
<1> QED BY <1>1, <1>2, <1>3, <1>4, <1>5, Passes

LEMMA ExitStutters ==
  ASSUME IInv, IInv', NEW p \in Publishers, Exit(p)
  PROVE  Step
<1>1. /\ left[p] = {} /\ at' = [at EXCEPT ![p] = NoClient]
      /\ UNCHANGED <<phase, broken, registered, subs, event, todo, left, owed>>
  BY DEF Exit, hubVars, handleVars, history
<1>2. UNCHANGED <<User, Asks>>
  <2>1. \A s \in Sockets : Served(s)' <=> Served(s) BY <1>1 DEF Served
  <2> QED BY <1>1, <2>1, UsersStay, AsksStay
<1>3. UNCHANGED May
  <2>1. ASSUME NEW q \in Publishers PROVE May'[q] = May[q]
    BY <1>1 DEF May, IInv, TypeOK
  <2> QED BY <2>1 DEF May
<1> QED BY <1>1, <1>2, <1>3, Stutters

-----------------------------------------------------------------------------
(* The refinement. *)

LEMMA InitPromise == Init => Promise!Init
<1> SUFFICES ASSUME Init PROVE Promise!Init
    OBVIOUS
<1>1. User = [c \in Clients |-> NoAccount] BY DEF Init, User, UserOf
<1>2. Asks = [x \in Subscriptions |-> NoStream] BY DEF Init, Asks, Subscriptions
<1>3. May = [p \in Publishers |-> {}] BY DEF Init, May
<1> QED
  BY <1>1, <1>2, <1>3
     DEF Init, Promise!Init, Promise!Subscriptions, Subscriptions, User, Asks, May

\* Every step of the hub and of those around it is a step of the promise, or
\* changes nothing it speaks of.
LEMMA StepPromise ==
  ASSUME IInv, IInv', [Next]_vars
  PROVE  [Promise!Next]_(Promise!gvars)
<1> SUFFICES Step
    BY DEF Step
<1>1. /\ Realtime \in Publishers /\ Bells \subseteq Publishers
      /\ Sockets \subseteq Publishers
  BY DEF Publishers
<1>2. ASSUME NEW s \in Sockets, Handle(s) \/ Break(s) PROVE Step
  <2>1. CASE \E a \in Accounts : ConnectionInit(s, a) BY <2>1, ConnectionInitConnects
  <2>2. CASE Anonymous(s) \/ Break(s) \/ Leave(s) BY <2>2, SocketDisconnects
  <2>3. CASE AckInit(s)
    <3>1. \A q \in Sockets : Served(q)' <=> Served(q)
      BY <2>3 DEF AckInit, Served, Goto, IInv, TypeOK
    <3> QED BY <2>3, <3>1, HandleStutters DEF AckInit, pubVars, history
  <2>4. CASE \E id \in SubIds : Complete(s, id) \/ \E st \in Streams : Subscribe(s, id, st)
    BY <2>4, SubscriptionAsks
  <2>5. ASSUME NEW topic \in Topics, Typing(s, topic) PROVE Step
    <3>1. \A q \in Sockets : Served(q)' <=> Served(q)
      BY <2>5 DEF Typing, Snapshot, Served, Goto, IInv, TypeOK
    <3>2. topic # Bell BY HubAssumption
    <3> QED BY <1>1, <2>5, <3>1, <3>2, EventsAreTyped, SnapshotPublishes DEF Typing
  <2>6. CASE TypingDone(s)
    <3>1. \A q \in Sockets : Served(q)' <=> Served(q)
      BY <2>6 DEF TypingDone, Finish, Served, Goto, IInv, TypeOK
    <3> QED BY <1>1, <2>6, <3>1, FinishFinishes DEF TypingDone
  <2>7. CASE Remove(s) BY <2>7, RemoveStutters
  <2> QED BY <1>2, <2>1, <2>2, <2>3, <2>4, <2>5, <2>6, <2>7 DEF Handle
<1>3. ASSUME NEW p \in Publishers, WriteStream(p) PROVE Step
  BY <1>3, EnterPasses, WriteDelivers, WriteFailsPasses, ExitStutters DEF WriteStream
<1>4. ASSUME UNCHANGED <<phase, broken>> PROVE \A s \in Sockets : Served(s)' <=> Served(s)
  BY <1>4 DEF Served
<1>5. ASSUME NEW b \in Bells, Ring(b) PROVE Step
  <2>1. UNCHANGED <<phase, broken>> BY <1>5 DEF Ring, Snapshot, handleVars
  <2> QED
    BY <1>1, <1>4, <1>5, <2>1, EventsAreTyped, SnapshotPublishes, HubAssumption DEF Ring
<1>6. ASSUME NEW b \in Bells, RingDone(b) PROVE Step
  BY <1>1, <1>4, <1>6, FinishFinishes DEF RingDone, Finish
<1>7. ASSUME NEW m \in Messages, Take(m) PROVE Step
  <2>1. UNCHANGED <<phase, broken>> BY <1>7 DEF Take, Snapshot, handleVars
  <2>2. Feed[m] # Bell BY <1>7, HubAssumption DEF Messages, Take
  <2> QED BY <1>1, <1>4, <1>7, <2>1, <2>2, EventsAreTyped, SnapshotPublishes DEF Take
<1>8. CASE TakeDone
  BY <1>1, <1>4, <1>8, FinishFinishes DEF TakeDone, Finish
<1>9. CASE Deliver \/ Resume \/ LoseLink \/ (\E m \in Messages : TakeBad(m)) \/ UNCHANGED vars
  <2>1. UNCHANGED <<handleVars, broken, hubVars, event, todo, at, left, owed>>
    BY <1>9 DEF Deliver, Resume, LoseLink, TakeBad, vars, pubVars, history
  <2> QED BY <1>4, <2>1, HandleStutters DEF handleVars
<1> QED BY <1>2, <1>3, <1>5, <1>6, <1>7, <1>8, <1>9 DEF Next, Consume

\* Sockets that subscribe, complete, break and leave while publishers walk
\* through their copies: no subscription that stays misses an event, gets it
\* twice, gets another's notification or anything after its complete
\* (notification_hub.go: Publish, writeStream, subscribe, complete, remove).
THEOREM Refinement == Spec => ImplementsGateway
<1>1. Spec => Promise!Spec
  BY InitPromise, StepPromise, Invariance, PTL DEF Spec, Promise!Spec
<1> QED BY <1>1 DEF ImplementsGateway
=============================================================================
