------------------------ MODULE NotificationHubProofs -------------------------
(***************************************************************************)
(* Theorems about NotificationHub, for every set of sockets, accounts,     *)
(* subscriptions, topics and publishers, every feed, and any number of     *)
(* connection_init messages and lost broker connections.                   *)
(***************************************************************************)
EXTENDS NotificationHub, TLAPS

-----------------------------------------------------------------------------
(* The inductive invariants. *)

Blank(c) == \A id \in SubIds : subs[c][id] = NoStream
Known(c) == c[2] <= inits[Owner(c)]
Entry(a, c) == [account |-> a, client |-> c]

\* The current client of a socket is one of its own, and the hub knows it as
\* long as Handle runs.
HandleInv ==
  \A s \in Sockets :
    /\ current[s] # NoClient => Owner(current[s]) = s /\ Known(current[s])
    /\ phase[s] = "acking" => current[s] = <<s, inits[s]>>
    /\ current[s] # NoClient /\ phase[s] \notin {"returned", "gone"} =>
         Entry(account[s], current[s]) \in registered

\* A client is registered once, at its connection_init, and has no subscription
\* before that is acknowledged.
ClientInv ==
  /\ \A r \in registered : Known(r.client)
  /\ \A r, q \in registered : r.client = q.client => r = q
  /\ \A c \in Clients : ~Blank(c) =>
       /\ Known(c)
       /\ phase[Owner(c)] = "acking" => c # current[Owner(c)]
       /\ Served(Owner(c)) => \E r \in registered : r.client = c

\* A publisher that is done holds nothing; a lock has one holder, who writes to
\* ids that ask for its event as long as it holds it.
VisitInv ==
  \A p \in Publishers :
    /\ Idle(p) => todo[p] = {} /\ at[p] = NoClient
    /\ at[p] = NoClient => left[p] = {}
    /\ at[p] # NoClient => at[p] \notin todo[p] /\ Known(at[p])
    /\ \A c \in todo[p] : Known(c)
    /\ \A q \in Publishers : at[p] = at[q] /\ at[p] # NoClient => p = q
    /\ \A id \in left[p] : subs[at[p]][id] = event[p].stream

\* A notification goes to clients of its user only.
AddressInv ==
  \A p \in Publishers : event[p].stream = Bell =>
    /\ event[p].to \in Accounts
    /\ \A c \in Clients : c \in todo[p] \cup {at[p]} /\ Served(Owner(c)) =>
         Entry(event[p].to, c) \in registered

\* What a publisher owes is still before it, and still asked for.
OwedInv ==
  \A p \in Publishers : \A x \in owed[p] :
    /\ Served(Owner(x[1])) /\ subs[x[1]][x[2]] = event[p].stream
    /\ x[1] \in todo[p] \/ (x[1] = at[p] /\ x[2] \in left[p])

\* An account is that of the last connection_init, and goes with its client.
LastInv ==
  \A s \in Sockets :
    /\ account[s] # NoAccount => current[s] # NoClient /\ current[s] = <<s, inits[s]>>
    /\ phase[s] \notin {"returned", "gone"} /\ account[s] = NoAccount => inits[s] = 0

\* The hub has the client of every connection_init but the last one; that one as
\* long as Handle runs, unless it gave no account.
Has(s, n) == \E r \in registered : r.client = <<s, n>>
Open(s)   == account[s] # NoAccount /\ phase[s] # "gone"
KnowsInv ==
  \A s \in Sockets :
    /\ \A n \in Nat : Has(s, n) <=> (1 <= n /\ n < inits[s]) \/ (n = inits[s] /\ Open(s))
    /\ Open(s) => Entry(account[s], <<s, inits[s]>>) \in registered

HubInv == HandleInv /\ ClientInv /\ LastInv /\ KnowsInv
PubInv == VisitInv /\ AddressInv /\ OwedInv
IInv == TypeOK /\ HubInv /\ PubInv

\* Without a lost connection a message is behind all that was written before
\* it: what waits is in order, and behind what was taken.
Increasing(q) == \A i, j \in DOMAIN q : i < j => q[i] < q[j]
Ahead(n) == /\ \A i \in DOMAIN buffer : n < buffer[i]
            /\ \A i \in DOMAIN ready : n < ready[i]
FeedInv ==
  /\ \A p \in Publishers \ {Realtime} : event[p].seq = 0
  /\ losses = 0 =>
       /\ Increasing(buffer) /\ Increasing(ready)
       /\ \A i \in DOMAIN buffer, j \in DOMAIN ready : buffer[i] < ready[j]
       /\ ~Idle(Realtime) => Ahead(event[Realtime].seq)
       /\ \A x \in Sockets \X SubIds : \A n \in seen[x] :
            /\ Ahead(n)
            /\ ~Idle(Realtime) => n <= event[Realtime].seq

-----------------------------------------------------------------------------
(* Lemmas about the constants. *)

LEMMA MessagesAreNumbers == Messages \subseteq Nat /\ \A m \in Messages : m >= 1
BY HubAssumption DEF Messages

\* An event has a stream; what a publisher at rest has is none.
LEMMA EventHasStream ==
  /\ NoEvent \notin Event
  /\ \A e \in Event : /\ e.stream \in Streams /\ e.stream # NoStream
                      /\ e.seq \in Messages \cup {0}
BY HubAssumption DEF NoEvent, Event

\* What the three kinds of publishers publish is an event.
LEMMA EventsAreTyped ==
  /\ \A topic \in Topics : [stream |-> topic, to |-> NoAccount, seq |-> 0] \in Event
  /\ \A b \in Bells : [stream |-> Bell, to |-> BellTo[b], seq |-> 0] \in Event
  /\ \A m \in Messages : Feed[m] # NoStream =>
       [stream |-> Feed[m], to |-> NoAccount, seq |-> m] \in Event
BY HubAssumption DEF Event, Streams, Messages

LEMMA RecipientsAreClients == TypeOK => \A e : Recipients(e) \subseteq Clients
BY DEF TypeOK, Recipients

LEMMA ClientIsPair ==
  /\ \A c \in Clients : Owner(c) \in Sockets /\ c[2] \in 1 .. MaxInits
                        /\ c = <<Owner(c), c[2]>>
  /\ \A s \in Sockets, k \in 1 .. MaxInits : <<s, k>> \in Clients
  /\ \A s, k : Owner(<<s, k>>) = s /\ <<s, k>>[2] = k
BY DEF Clients, Owner

LEMMA InitTypeOK == Init => TypeOK
<1> SUFFICES ASSUME Init PROVE TypeOK
    OBVIOUS
<1>1. ready \in Seq(Messages) BY HubAssumption DEF Init, Messages
<1>2. losses \in 0 .. MaxLosses /\ inits \in [Sockets -> 0 .. MaxInits]
  BY HubAssumption DEF Init
<1> QED BY <1>1, <1>2 DEF Init, TypeOK

-----------------------------------------------------------------------------
(* The variables keep their types. *)

pubTypes == /\ event' \in [Publishers -> Event \cup {NoEvent}]
            /\ todo' \in [Publishers -> SUBSET Clients]
            /\ at' \in [Publishers -> Clients \cup {NoClient}]
            /\ left' \in [Publishers -> SUBSET SubIds]
            /\ rung' \subseteq Bells
            /\ owed' \in [Publishers -> SUBSET Subscriptions]
            /\ seen' \in [Sockets \X SubIds -> SUBSET Messages]

LEMMA SnapshotType ==
  ASSUME TypeOK, NEW p \in Publishers, NEW e \in Event, Snapshot(p, e),
         rung' \subseteq Bells
  PROVE  pubTypes /\ UNCHANGED <<broken, hubVars>>
<1>1. Recipients(e) \subseteq Clients BY RecipientsAreClients
<1>2. event' \in [Publishers -> Event \cup {NoEvent}]
  BY DEF Snapshot, TypeOK
<1>3. todo' \in [Publishers -> SUBSET Clients] BY <1>1 DEF Snapshot, TypeOK
<1>4. owed' \in [Publishers -> SUBSET Subscriptions]
  BY <1>1 DEF Snapshot, TypeOK, Subscriptions
<1> QED BY <1>2, <1>3, <1>4 DEF Snapshot, TypeOK, pubTypes

LEMMA FinishType ==
  ASSUME TypeOK, NEW p \in Publishers, Finish(p), rung' \subseteq Bells
  PROVE  pubTypes /\ UNCHANGED <<account, current, inits, broken, hubVars>>
BY DEF Finish, TypeOK, pubTypes

\* What is forgiven is owed to nobody any more.
LEMMA ForgiveType ==
  ASSUME TypeOK, NEW E, Forgive(E), UNCHANGED pubVars
  PROVE  pubTypes
BY DEF TypeOK, Forgive, pubVars, pubTypes

LEMMA WriteStreamType ==
  ASSUME TypeOK, VisitInv, NEW p \in Publishers, WriteStream(p)
  PROVE  TypeOK'
<1> USE DEF TypeOK, handleVars, hubVars, feedVars, history
<1>1. CASE \E c \in Clients : Enter(p, c)
  BY <1>1 DEF Enter, Matching
<1>2. ASSUME NEW id \in SubIds, Write(p, id) PROVE TypeOK'
  <2>1. at[p] \in Clients /\ Owner(at[p]) \in Sockets
    BY <1>2, ClientIsPair DEF Write, VisitInv
  <2>2. seen' \in [Sockets \X SubIds -> SUBSET Messages]
    <3>1. CASE event[p].seq = 0 BY <1>2, <3>1 DEF Write
    <3>2. CASE event[p].seq # 0
      <4>1. event[p].seq \in Messages BY <3>2, EventHasStream DEF NoEvent
      <4> QED BY <1>2, <2>1, <3>2, <4>1 DEF Write
    <3> QED BY <3>1, <3>2
  <2>3. left' \in [Publishers -> SUBSET SubIds]
        /\ owed' \in [Publishers -> SUBSET Subscriptions]
    BY <1>2 DEF Write
  <2> QED BY <1>2, <2>2, <2>3 DEF Write
<1>3. CASE WriteFails(p) BY <1>3 DEF WriteFails
<1>4. CASE Exit(p) BY <1>4 DEF Exit
<1> QED BY <1>1, <1>2, <1>3, <1>4 DEF WriteStream

LEMMA HandleType ==
  ASSUME TypeOK, NEW s \in Sockets, Handle(s) \/ Break(s)
  PROVE  TypeOK'
<1> USE DEF handleVars, hubVars, feedVars, history, pubVars
<1>1. s \in Publishers /\ HubAssumption BY HubAssumption DEF Publishers
<1>2. ASSUME NEW a \in Accounts, ConnectionInit(s, a) PROVE TypeOK'
  <2>1. inits[s] + 1 \in 1 .. MaxInits BY <1>1, <1>2 DEF ConnectionInit, TypeOK, HubAssumption
  <2>2. <<s, inits[s] + 1>> \in Clients BY <2>1, ClientIsPair
  <2>3. inits' \in [Sockets -> 0 .. MaxInits] /\ current' \in [Sockets -> Clients \cup {NoClient}]
    BY <1>2, <2>1, <2>2 DEF ConnectionInit, TypeOK
  <2>4. registered' \subseteq [account: Accounts, client: Clients]
    <3>1. [account |-> a, client |-> <<s, inits[s] + 1>>]
            \in [account: Accounts, client: Clients]
      BY <2>2
    <3> QED BY <1>2, <3>1 DEF ConnectionInit, TypeOK
  <2> QED BY <1>2, <2>3, <2>4 DEF ConnectionInit, TypeOK, Goto
<1>3. CASE Anonymous(s)
  <2>1. inits' \in [Sockets -> 0 .. MaxInits] BY <1>1, <1>3 DEF Anonymous, TypeOK, HubAssumption
  <2>2. pubTypes BY <1>3, ForgiveType DEF Anonymous, ForgiveSocket
  <2> QED BY <1>3, <2>1, <2>2 DEF Anonymous, TypeOK, Goto, pubTypes
<1>4. CASE AckInit(s) BY <1>4 DEF AckInit, TypeOK, Goto
<1>5. ASSUME NEW id \in SubIds, NEW st \in Streams \cup {NoStream},
             subs' = [subs EXCEPT ![current[s]][id] = st],
             current[s] # NoClient, Forgive({<<current[s], id>>}),
             UNCHANGED <<handleVars, broken, registered, pubVars, feedVars>>
      PROVE  TypeOK'
  <2>1. subs' \in [Clients -> [SubIds -> Streams \cup {NoStream}]] BY <1>5 DEF TypeOK
  <2>2. pubTypes BY <1>5, ForgiveType
  <2> QED BY <1>5, <2>1, <2>2 DEF TypeOK, pubTypes
<1>6. CASE \E id \in SubIds : Complete(s, id)
  BY <1>5, <1>6 DEF Complete
<1>7. CASE \E id \in SubIds, st \in Streams : Subscribe(s, id, st)
  BY <1>5, <1>7 DEF Subscribe
<1>8. ASSUME NEW topic \in Topics, Typing(s, topic) PROVE TypeOK'
  <2>1. pubTypes /\ UNCHANGED <<broken, hubVars>>
    BY <1>1, <1>8, EventsAreTyped, SnapshotType DEF Typing, TypeOK
  <2> QED BY <1>8, <2>1 DEF Typing, TypeOK, pubTypes, Goto
<1>9. CASE TypingDone(s)
  <2>1. pubTypes /\ UNCHANGED <<account, current, inits, broken, hubVars>>
    BY <1>1, <1>9, FinishType DEF TypingDone, TypeOK
  <2> QED BY <1>9, <2>1 DEF TypingDone, TypeOK, pubTypes, Goto
<1>10. CASE Leave(s)
  <2>1. pubTypes BY <1>10, ForgiveType DEF Leave, ForgiveSocket
  <2> QED BY <1>10, <2>1 DEF Leave, TypeOK, Goto, pubTypes
<1>11. CASE Remove(s) BY <1>11 DEF Remove, TypeOK, Goto
<1>12. CASE Break(s)
  <2>1. pubTypes BY <1>12, ForgiveType DEF Break, ForgiveSocket
  <2> QED BY <1>12, <2>1 DEF Break, TypeOK, pubTypes
<1> QED
  BY <1>2, <1>3, <1>4, <1>6, <1>7, <1>8, <1>9, <1>10, <1>11, <1>12 DEF Handle

LEMMA SettleType ==
  ASSUME TypeOK, NEW m, Settle(m)
  PROVE  settled' \subseteq Messages /\ unacked' \in Seq(Messages)
<1>1. CASE link = "up"
  <2>1. PICK i \in DOMAIN unacked : unacked[i] = m
                                    /\ unacked' = Seqs!RemoveAt(unacked, i)
    BY <1>1 DEF Settle
  <2>2. unacked \in Seq(Messages) BY DEF TypeOK
  <2>3. m \in Messages /\ i \in 1 .. Len(unacked) BY <2>1, <2>2
  <2>4. unacked' \in Seq(Messages) BY <2>1, <2>2, <2>3 DEF Seqs!RemoveAt
  <2> QED BY <1>1, <2>3, <2>4 DEF Settle, TypeOK
<1>2. CASE link # "up" BY <1>2 DEF Settle, TypeOK
<1> QED BY <1>1, <1>2

LEMMA ConsumeType ==
  ASSUME TypeOK,
         \/ Consume \/ LoseLink
         \/ \E b \in Bells : Ring(b) \/ RingDone(b)
  PROVE  TypeOK'
<1> USE DEF handleVars, hubVars, feedVars, history, pubVars
<1>1. HubAssumption /\ Realtime \in Publishers /\ Bells \subseteq Publishers
  BY HubAssumption DEF Publishers
<1>2. CASE Deliver BY <1>2 DEF Deliver, TypeOK
<1>3. CASE TakeDone
  <2>3. settled' \subseteq Messages /\ unacked' \in Seq(Messages)
    BY <1>3, SettleType DEF TakeDone
  <2>4. pubTypes /\ UNCHANGED <<account, current, inits, broken, hubVars>>
    BY <1>1, <1>3, FinishType DEF TakeDone, TypeOK
  <2> QED BY <1>3, <2>3, <2>4 DEF TakeDone, TypeOK, pubTypes
<1>4. CASE Resume BY <1>4 DEF Resume, TypeOK
<1>5. ASSUME NEW m \in Messages, Take(m) PROVE TypeOK'
  <2>1. pubTypes /\ UNCHANGED <<broken, hubVars>>
    BY <1>1, <1>5, EventsAreTyped, SnapshotType DEF Take, TypeOK
  <2>2. buffer' \in Seq(Messages) BY <1>5 DEF Take, TypeOK
  <2> QED BY <1>5, <2>1, <2>2 DEF Take, TypeOK, pubTypes
<1>6. ASSUME NEW m \in Messages, TakeBad(m) PROVE TypeOK'
  <2>1. settled' \subseteq Messages /\ unacked' \in Seq(Messages)
    BY <1>6, SettleType DEF TakeBad
  <2>2. buffer' \in Seq(Messages) BY <1>6 DEF TakeBad, TypeOK
  <2> QED BY <1>6, <2>1, <2>2 DEF TakeBad, TypeOK
<1>7. CASE LoseLink
  <2>1. losses' \in 0 .. MaxLosses BY <1>1, <1>7 DEF LoseLink, TypeOK, HubAssumption
  <2>2. ready' \in Seq(Messages) /\ unacked' \in Seq(Messages)
    BY <1>7 DEF LoseLink, TypeOK
  <2> QED BY <1>7, <2>1, <2>2 DEF LoseLink, TypeOK
<1>8. ASSUME NEW b \in Bells, Ring(b) PROVE TypeOK'
  <2>1. pubTypes /\ UNCHANGED <<broken, hubVars>>
    BY <1>1, <1>8, EventsAreTyped, SnapshotType DEF Ring, TypeOK
  <2> QED BY <1>8, <2>1 DEF Ring, TypeOK, pubTypes
<1>9. ASSUME NEW b \in Bells, RingDone(b) PROVE TypeOK'
  <2>1. pubTypes /\ UNCHANGED <<account, current, inits, broken, hubVars>>
    BY <1>1, <1>9, FinishType DEF RingDone, TypeOK
  <2> QED BY <1>9, <2>1 DEF RingDone, TypeOK, pubTypes
<1> QED
  BY <1>2, <1>3, <1>4, <1>5, <1>6, <1>7, <1>8, <1>9 DEF Consume

-----------------------------------------------------------------------------
(* What the hub knows: steps of a socket. *)

\* A socket may go on or stop being served, as long as no client comes or goes.
LEMMA HubKept ==
  ASSUME HubInv, UNCHANGED <<account, current, inits, hubVars>>,
         \A s \in Sockets :
           /\ Served(s)' => Served(s)
           /\ phase'[s] = "acking" => phase[s] = "acking"
           /\ phase'[s] \notin {"returned", "gone"} => phase[s] \notin {"returned", "gone"}
           /\ phase'[s] = "gone" <=> phase[s] = "gone"
  PROVE  HubInv'
<1> USE DEF HubInv, hubVars
<1>1. HandleInv' BY DEF HandleInv, Known, Entry, Owner
<1>2. ClientInv'
  <2>1. \A c : (Known(c)' <=> Known(c)) /\ (Blank(c)' <=> Blank(c)) BY DEF Known, Blank
  <2>2. \A c \in Clients : Owner(c) \in Sockets BY ClientIsPair
  <2> QED BY <2>1, <2>2 DEF ClientInv
<1>3. LastInv' BY DEF LastInv
<1>4. KnowsInv' BY DEF KnowsInv, Has, Open, Entry
<1> QED BY <1>1, <1>2, <1>3, <1>4

\* A socket that is reading has an account and a client, or had no
\* connection_init yet.
LEMMA AccountHasClient ==
  ASSUME TypeOK, LastInv, NEW s \in Sockets
  PROVE  /\ inits[s] \in Nat
         /\ account[s] # NoAccount => inits[s] >= 1
<1>1. inits[s] \in Nat BY HubAssumption DEF TypeOK
<1>2. ASSUME account[s] # NoAccount PROVE inits[s] >= 1
  <2>1. current[s] \in Clients /\ current[s] = <<s, inits[s]>>
    BY <1>2 DEF TypeOK, LastInv
  <2>2. current[s][2] = inits[s] /\ current[s][2] \in 1 .. MaxInits
    BY <2>1, ClientIsPair
  <2> QED BY <2>2, HubAssumption
<1> QED BY <1>1, <1>2

LEMMA ConnectionInitHub ==
  ASSUME TypeOK, HubInv, NEW s \in Sockets, NEW a \in Accounts, ConnectionInit(s, a)
  PROVE  HubInv'
<1>0. PICK c \in Clients : c = <<s, inits[s] + 1>>
  <2>1. inits[s] + 1 \in 1 .. MaxInits BY HubAssumption DEF TypeOK, ConnectionInit
  <2> QED BY <2>1, ClientIsPair
<1>1. /\ inits' = [inits EXCEPT ![s] = inits[s] + 1] /\ inits'[s] = inits[s] + 1
      /\ account' = [account EXCEPT ![s] = a]
      /\ current' = [current EXCEPT ![s] = c]
      /\ registered' = registered \cup {Entry(a, c)}
      /\ phase' = [phase EXCEPT ![s] = "acking"]
      /\ phase[s] = "reading" /\ s \notin broken /\ UNCHANGED <<broken, subs>>
  BY <1>0 DEF ConnectionInit, Goto, Entry, TypeOK
<1>2. /\ inits[s] \in Nat
      /\ \A q \in Sockets : /\ inits[q] \in Nat /\ inits'[q] \in Nat
                            /\ inits[q] <= inits'[q]
                            /\ q # s => inits'[q] = inits[q]
  BY <1>1, HubAssumption DEF TypeOK
<1>3. /\ Owner(c) = s /\ ~Known(c) /\ Known(c)'
      /\ c # NoClient /\ Entry(a, c).client = c
  <2>1. Owner(c) = s /\ c[2] = inits[s] + 1 BY <1>0, ClientIsPair
  <2>2. ~Known(c) BY <1>2, <2>1 DEF Known
  <2>3. Known(c)' BY <1>1, <1>2, <2>1 DEF Known
  <2> QED BY <2>1, <2>2, <2>3, HubAssumption DEF Entry
<1>4. \A d \in Clients : Owner(d) \in Sockets /\ (Known(d) => Known(d)' /\ d # c)
  <2> TAKE d \in Clients
  <2>1. Owner(d) \in Sockets /\ d[2] \in Nat BY ClientIsPair
  <2>2. Known(d) => Known(d)' BY <1>2, <2>1 DEF Known, Owner
  <2> QED BY <1>3, <2>1, <2>2
<1>5. \A r \in registered : r.client \in Clients /\ Known(r.client) /\ r.client # c
  BY <1>4 DEF TypeOK, HubInv, ClientInv
<1>6. HandleInv'
  <2> SUFFICES ASSUME NEW q \in Sockets
               PROVE  (/\ current[q] # NoClient => Owner(current[q]) = q /\ Known(current[q])
                       /\ phase[q] = "acking" => current[q] = <<q, inits[q]>>
                       /\ current[q] # NoClient /\ phase[q] \notin {"returned", "gone"} =>
                            Entry(account[q], current[q]) \in registered)'
      BY DEF HandleInv
  <2>1. CASE q = s
    <3>1. current'[q] = c /\ account'[q] = a BY <1>1, <2>1 DEF TypeOK
    <3>2. c = <<q, inits'[q]>> BY <1>0, <1>1, <2>1
    <3> QED BY <1>1, <1>3, <2>1, <3>1, <3>2 DEF Known, Entry, Owner
  <2>2. CASE q # s
    <3>1. /\ current'[q] = current[q] /\ account'[q] = account[q]
          /\ phase'[q] = phase[q] /\ inits'[q] = inits[q]
      BY <1>1, <2>2 DEF TypeOK
    <3>2. current[q] \in Clients \cup {NoClient} BY DEF TypeOK
    <3>3. current[q] # NoClient => Owner(current[q]) = q /\ Known(current[q])
      BY DEF HubInv, HandleInv
    <3>4. phase[q] = "acking" => current[q] = <<q, inits[q]>> BY DEF HubInv, HandleInv
    <3>5. current[q] # NoClient /\ phase[q] \notin {"returned", "gone"} =>
            Entry(account[q], current[q]) \in registered
      BY DEF HubInv, HandleInv
    <3> QED BY <1>1, <3>1, <3>3, <3>4, <3>5 DEF Known, Entry, Owner
  <2> QED BY <2>1, <2>2
<1>7. ClientInv'
  <2>1. \A r \in registered' : Known(r.client)' BY <1>1, <1>3, <1>4, <1>5
  <2>2. \A r, q \in registered' : r.client = q.client => r = q
    BY <1>1, <1>3, <1>5 DEF HubInv, ClientInv
  <2>3. ASSUME NEW d \in Clients, ~Blank(d)'
        PROVE  (/\ Known(d)
                /\ phase[Owner(d)] = "acking" => d # current[Owner(d)]
                /\ Served(Owner(d)) => \E r \in registered : r.client = d)'
    <3>1. ~Blank(d) BY <1>1, <2>3 DEF Blank
    <3>2. Known(d) /\ d # c /\ Known(d)' BY <1>4, <3>1 DEF HubInv, ClientInv
    <3>3. CASE Owner(d) = s
      <4>1. Served(s) BY <1>1 DEF Served
      <4>2. \E r \in registered : r.client = d BY <3>1, <3>3, <4>1 DEF HubInv, ClientInv
      <4> QED BY <1>1, <3>2, <3>3, <4>2 DEF TypeOK, Owner
    <3>4. CASE Owner(d) # s
      <4>1. Owner(d) \in Sockets BY <1>4
      <4>2. /\ phase'[Owner(d)] = phase[Owner(d)]
            /\ current'[Owner(d)] = current[Owner(d)]
        BY <1>1, <3>4, <4>1 DEF TypeOK
      <4>3. Served(Owner(d))' <=> Served(Owner(d)) BY <1>1, <4>2 DEF Served, Owner
      <4> QED BY <1>1, <3>1, <3>2, <4>2, <4>3 DEF HubInv, ClientInv, Owner
    <3> QED BY <3>3, <3>4
  <2> QED BY <2>1, <2>2, <2>3 DEF ClientInv
<1>8. ASSUME NEW q \in Sockets, q # s
      PROVE  /\ current'[q] = current[q] /\ account'[q] = account[q]
             /\ phase'[q] = phase[q] /\ inits'[q] = inits[q]
  BY <1>1, <1>8 DEF TypeOK
<1>9. LastInv'
  <2> SUFFICES ASSUME NEW q \in Sockets
               PROVE  (/\ account[q] # NoAccount =>
                            current[q] # NoClient /\ current[q] = <<q, inits[q]>>
                       /\ phase[q] \notin {"returned", "gone"} /\ account[q] = NoAccount =>
                            inits[q] = 0)'
      BY DEF LastInv
  <2>1. CASE q = s
    BY <1>0, <1>1, <1>3, <2>1, HubAssumption DEF TypeOK
  <2>2. CASE q # s BY <1>8, <2>2 DEF HubInv, LastInv
  <2> QED BY <2>1, <2>2
<1>10. KnowsInv'
  <2> SUFFICES ASSUME NEW q \in Sockets
               PROVE  (/\ \A n \in Nat : Has(q, n) <=> (1 <= n /\ n < inits[q])
                                                       \/ (n = inits[q] /\ Open(q))
                       /\ Open(q) => Entry(account[q], <<q, inits[q]>>) \in registered)'
      BY DEF KnowsInv
  <2>1. \A n : Has(q, n)' <=> Has(q, n) \/ <<q, n>> = c
    BY <1>1, <1>3 DEF Has
  <2>2. CASE q = s
    <3>1. Open(s)' /\ inits'[s] = inits[s] + 1 /\ account'[s] = a
      BY <1>1, HubAssumption DEF Open, TypeOK
    <3>2. \A n \in Nat : <<s, n>> = c <=> n = inits[s] + 1 BY <1>0
    <3>3. \A n \in Nat : Has(s, n) <=> 1 <= n /\ n <= inits[s]
      <4>1. \A n \in Nat : Has(s, n) <=> (1 <= n /\ n < inits[s]) \/ (n = inits[s] /\ Open(s))
        BY DEF HubInv, KnowsInv
      <4>2. Open(s) <=> account[s] # NoAccount BY <1>1 DEF Open
      <4>3. account[s] # NoAccount <=> inits[s] >= 1
        BY <1>1, AccountHasClient DEF HubInv, LastInv
      <4> QED BY <1>2, <4>1, <4>2, <4>3
    <3>4. Entry(account'[s], <<s, inits'[s]>>) \in registered'
      BY <1>0, <1>1, <3>1
    <3>5. \A n \in Nat : Has(s, n)' <=> (1 <= n /\ n < inits'[s])
                                        \/ (n = inits'[s] /\ Open(s)')
      BY <1>2, <2>1, <2>2, <3>1, <3>2, <3>3
    <3> QED BY <2>2, <3>4, <3>5 DEF Entry
  <2>3. CASE q # s
    <3>1. \A n : <<q, n>> # c BY <1>0, <2>3
    <3>2. Open(q)' <=> Open(q) BY <1>8, <2>3 DEF Open
    <3> QED BY <1>1, <1>8, <2>1, <2>3, <3>1, <3>2 DEF HubInv, KnowsInv, Entry
  <2> QED BY <2>2, <2>3
<1> QED BY <1>6, <1>7, <1>9, <1>10 DEF HubInv

\* connection_init without an account: no client comes, and the socket leaves.
LEMMA AnonymousHub ==
  ASSUME TypeOK, HubInv, NEW s \in Sockets, Anonymous(s)
  PROVE  HubInv'
<1>1. /\ inits' = [inits EXCEPT ![s] = inits[s] + 1]
      /\ account' = [account EXCEPT ![s] = NoAccount]
      /\ phase' = [phase EXCEPT ![s] = "returned"] /\ phase[s] = "reading"
      /\ UNCHANGED <<current, broken, registered, subs>>
  BY DEF Anonymous, Goto, hubVars
<1>2. \A q \in Sockets : /\ inits[q] \in Nat /\ inits'[q] \in Nat
                         /\ inits[q] <= inits'[q]
                         /\ q # s => /\ inits'[q] = inits[q] /\ phase'[q] = phase[q]
                                     /\ account'[q] = account[q]
  BY <1>1, HubAssumption DEF TypeOK
<1>3. phase'[s] = "returned" /\ inits'[s] = inits[s] + 1 BY <1>1 DEF TypeOK
<1>4. \A d \in Clients : Owner(d) \in Sockets /\ (Known(d) => Known(d)')
  <2> TAKE d \in Clients
  <2>1. Owner(d) \in Sockets /\ d[2] \in Nat BY ClientIsPair
  <2>2. Known(d) => Known(d)' BY <1>2, <2>1 DEF Known, Owner
  <2> QED BY <2>1, <2>2
<1>5. \A d : (Blank(d)' <=> Blank(d)) BY <1>1 DEF Blank
<1>6. \A q \in Sockets : Served(q)' => Served(q) BY <1>1, <1>2, <1>3 DEF Served
<1>7. HandleInv'
  <2> SUFFICES ASSUME NEW q \in Sockets
               PROVE  (/\ current[q] # NoClient => Owner(current[q]) = q /\ Known(current[q])
                       /\ phase[q] = "acking" => current[q] = <<q, inits[q]>>
                       /\ current[q] # NoClient /\ phase[q] \notin {"returned", "gone"} =>
                            Entry(account[q], current[q]) \in registered)'
      BY DEF HandleInv
  <2>1. current[q] \in Clients \cup {NoClient} BY DEF TypeOK
  <2>2. current[q] # NoClient => Owner(current[q]) = q /\ current'[q][2] <= inits'[q]
    <3>1. current[q] # NoClient =>
            Owner(current[q]) = q /\ current[q][2] <= inits[q] /\ current[q][2] \in Nat
      BY <2>1, ClientIsPair DEF HubInv, HandleInv, Known
    <3> QED BY <1>1, <1>2, <3>1
  <2>3. phase'[q] # "returned" => q # s BY <1>3
  <2> QED BY <1>1, <1>2, <1>3, <2>2, <2>3 DEF HubInv, HandleInv, Known, Owner, Entry
<1>8. ClientInv'
  <2>1. \A r \in registered : r.client \in Clients BY DEF TypeOK
  <2>2. \A r \in registered' : Known(r.client)'
    BY <1>1, <1>4, <2>1 DEF HubInv, ClientInv
  <2>3. ASSUME NEW d \in Clients, ~Blank(d)'
        PROVE  (/\ Known(d)
                /\ phase[Owner(d)] = "acking" => d # current[Owner(d)]
                /\ Served(Owner(d)) => \E r \in registered : r.client = d)'
    <3>1. ~Blank(d) /\ Owner(d) \in Sockets BY <1>4, <1>5, <2>3
    <3>2. Known(d)' BY <1>4, <3>1 DEF HubInv, ClientInv
    <3>3. phase'[Owner(d)] = "acking" => phase[Owner(d)] = "acking"
      BY <1>2, <1>3, <3>1
    <3>4. Served(Owner(d))' => Served(Owner(d)) BY <1>6, <3>1 DEF Served, Owner
    <3> QED BY <1>1, <3>1, <3>2, <3>3, <3>4 DEF HubInv, ClientInv, Owner
  <2> QED BY <1>1, <2>2, <2>3 DEF HubInv, ClientInv
<1>9. account'[s] = NoAccount BY <1>1 DEF TypeOK
<1>10. LastInv'
  BY <1>1, <1>2, <1>3, <1>9 DEF HubInv, LastInv
<1>11. KnowsInv'
  <2> SUFFICES ASSUME NEW q \in Sockets
               PROVE  (/\ \A n \in Nat : Has(q, n) <=> (1 <= n /\ n < inits[q])
                                                       \/ (n = inits[q] /\ Open(q))
                       /\ Open(q) => Entry(account[q], <<q, inits[q]>>) \in registered)'
      BY DEF KnowsInv
  <2>1. \A n : Has(q, n)' <=> Has(q, n) BY <1>1 DEF Has
  <2>2. \A n \in Nat : Has(q, n) <=> (1 <= n /\ n < inits[q]) \/ (n = inits[q] /\ Open(q))
    BY DEF HubInv, KnowsInv
  <2>3. CASE q = s
    <3>1. ~Open(s)' BY <1>9 DEF Open
    <3>2. Open(s) <=> account[s] # NoAccount BY <1>1 DEF Open
    <3>3. account[s] # NoAccount <=> inits[s] >= 1
      BY <1>1, AccountHasClient DEF HubInv, LastInv
    <3>4. \A n \in Nat : Has(s, n)' <=> (1 <= n /\ n < inits'[s])
      BY <1>2, <1>3, <2>1, <2>2, <2>3, <3>2, <3>3
    <3> QED BY <2>3, <3>1, <3>4
  <2>4. CASE q # s
    <3>1. Open(q)' <=> Open(q) BY <1>2, <2>4 DEF Open
    <3> QED BY <1>1, <1>2, <2>1, <2>2, <2>4, <3>1 DEF HubInv, KnowsInv, Entry
  <2> QED BY <2>3, <2>4
<1> QED BY <1>7, <1>8, <1>10, <1>11 DEF HubInv

\* A subscription starts or ends, of the current client.
LEMMA SubscriptionHub ==
  ASSUME TypeOK, HubInv, NEW s \in Sockets, NEW id \in SubIds,
         \/ Complete(s, id)
         \/ \E st \in Streams : Subscribe(s, id, st)
  PROVE  HubInv'
<1>1. /\ UNCHANGED <<handleVars, broken, registered>>
      /\ phase[s] = "reading" /\ current[s] # NoClient
      /\ \E st : subs' = [subs EXCEPT ![current[s]][id] = st]
  BY DEF Complete, Subscribe
<1>2. HandleInv' BY <1>1 DEF HubInv, HandleInv, handleVars, Known, Owner, Entry
<1>3. \A d \in Clients : d # current[s] => (Blank(d)' <=> Blank(d))
  BY <1>1 DEF Blank, TypeOK
<1>4. /\ current[s] \in Clients /\ Known(current[s]) /\ Owner(current[s]) = s
      /\ Entry(account[s], current[s]) \in registered
  BY <1>1 DEF TypeOK, HubInv, HandleInv
<1>5. ClientInv'
  <2>1. ASSUME NEW d \in Clients, ~Blank(d)'
        PROVE  /\ Known(d)
               /\ phase[Owner(d)] = "acking" => d # current[Owner(d)]
               /\ Served(Owner(d)) => \E r \in registered : r.client = d
    <3>1. CASE d = current[s] BY <1>1, <1>4, <3>1 DEF Entry
    <3>2. CASE d # current[s] BY <1>3, <2>1, <3>2 DEF HubInv, ClientInv
    <3> QED BY <3>1, <3>2
  <2>2. UNCHANGED <<registered, inits, phase, current, broken>> BY <1>1 DEF handleVars
  <2> QED BY <2>1, <2>2 DEF HubInv, ClientInv, Known, Served, Owner
<1>6. LastInv' BY <1>1 DEF HubInv, LastInv, handleVars
<1>7. KnowsInv' BY <1>1 DEF HubInv, KnowsInv, Has, Open, Entry, handleVars
<1> QED BY <1>2, <1>5, <1>6, <1>7 DEF HubInv

\* The deferred remove, of a socket that is not served any more.
LEMMA RemoveHub ==
  ASSUME TypeOK, HubInv, NEW s \in Sockets, Remove(s)
  PROVE  HubInv'
<1>1. /\ phase[s] = "returned" /\ phase' = [phase EXCEPT ![s] = "gone"]
      /\ registered' = registered \ {Entry(account[s], current[s])}
      /\ UNCHANGED <<account, current, inits, broken, subs>>
  BY DEF Remove, Goto, Entry
<1>2. \A q \in Sockets \ {s} : phase'[q] = phase[q] /\ Served(q)' = Served(q)
  BY <1>1 DEF TypeOK, Served
<1>3. phase'[s] = "gone" BY <1>1 DEF TypeOK
<1>4. \A r \in registered : Owner(r.client) # s => r \in registered'
  <2>1. \A c \in Clients : Owner(c) # s => c # current[s]
    BY HubAssumption DEF HubInv, HandleInv
  <2> QED BY <1>1, <2>1 DEF TypeOK, Entry
<1>5. HandleInv'
  <2> SUFFICES ASSUME NEW q \in Sockets
               PROVE  (/\ current[q] # NoClient => Owner(current[q]) = q /\ Known(current[q])
                       /\ phase[q] = "acking" => current[q] = <<q, inits[q]>>
                       /\ current[q] # NoClient /\ phase[q] \notin {"returned", "gone"} =>
                            Entry(account[q], current[q]) \in registered)'
      BY DEF HandleInv
  <2>1. CASE q = s
    BY <1>1, <1>3, <2>1 DEF HubInv, HandleInv, Known, Owner
  <2>2. CASE q # s
    <3>1. current[q] # NoClient /\ phase[q] \notin {"returned", "gone"} =>
            Entry(account[q], current[q]) \in registered'
      BY <1>4, <2>2 DEF HubInv, HandleInv, Entry
    <3> QED BY <1>1, <1>2, <2>2, <3>1 DEF HubInv, HandleInv, Known, Owner, Entry
  <2> QED BY <2>1, <2>2
<1>6. ClientInv'
  <2>1. \A d : (Known(d)' <=> Known(d)) /\ (Blank(d)' <=> Blank(d)) BY <1>1 DEF Known, Blank
  <2>2. ASSUME NEW d \in Clients, ~Blank(d)
        PROVE  /\ phase'[Owner(d)] = "acking" => d # current[Owner(d)]
               /\ Served(Owner(d))' => \E r \in registered' : r.client = d
    <3>1. Owner(d) \in Sockets BY ClientIsPair
    <3>2. CASE Owner(d) = s BY <1>1, <1>3, <3>2 DEF Served, Owner
    <3>3. CASE Owner(d) # s
      <4>1. Served(Owner(d))' <=> Served(Owner(d)) BY <1>2, <3>1, <3>3 DEF Owner, Served
      <4> QED BY <1>2, <1>4, <2>2, <3>1, <3>3, <4>1 DEF HubInv, ClientInv
    <3> QED BY <3>2, <3>3
  <2> QED BY <1>1, <2>1, <2>2 DEF HubInv, ClientInv, Owner
<1>7. LastInv' BY <1>1, <1>2, <1>3 DEF HubInv, LastInv
<1>8. KnowsInv'
  <2> SUFFICES ASSUME NEW q \in Sockets
               PROVE  (/\ \A n \in Nat : Has(q, n) <=> (1 <= n /\ n < inits[q])
                                                       \/ (n = inits[q] /\ Open(q))
                       /\ Open(q) => Entry(account[q], <<q, inits[q]>>) \in registered)'
      BY DEF KnowsInv
  <2>1. \A n \in Nat : Has(q, n) <=> (1 <= n /\ n < inits[q]) \/ (n = inits[q] /\ Open(q))
    BY DEF HubInv, KnowsInv
  <2>2. CASE q = s
    <3>1. ~Open(s)' BY <1>3 DEF Open
    <3>2. \A n \in Nat : Has(s, n)' <=> 1 <= n /\ n < inits[s]
      <4>1. CASE account[s] = NoAccount
        <5>1. registered' = registered
          BY <1>1, <4>1, HubAssumption DEF TypeOK, Entry
        <5>2. ~Open(s) BY <4>1 DEF Open
        <5> QED BY <2>1, <2>2, <5>1, <5>2 DEF Has
      <4>2. CASE account[s] # NoAccount
        <5>1. Open(s) /\ current[s] = <<s, inits[s]>>
          BY <1>1, <4>2 DEF HubInv, LastInv, Open
        <5>2. Entry(account[s], current[s]) \in registered
          BY <5>1 DEF HubInv, KnowsInv
        <5>3. registered' = {r \in registered : r.client # current[s]}
          BY <1>1, <5>2 DEF HubInv, ClientInv, Entry
        <5>4. \A n : Has(s, n)' <=> Has(s, n) /\ n # inits[s]
          BY <5>1, <5>3 DEF Has
        <5> QED BY <2>1, <2>2, <5>4
      <4> QED BY <4>1, <4>2
    <3> QED BY <1>1, <2>2, <3>1, <3>2
  <2>3. CASE q # s
    <3>1. \A n : Has(q, n)' <=> Has(q, n)
      <4>1. \A r \in registered : \A n : r.client = <<q, n>> => r \in registered'
        <5>1. \A n : Owner(<<q, n>>) # s BY <2>3 DEF Owner
        <5> QED BY <1>4, <5>1
      <4> QED BY <1>1, <4>1 DEF Has
    <3>2. Open(q)' <=> Open(q) BY <1>1, <1>2, <2>3 DEF Open
    <3>3. Open(q) => Entry(account[q], <<q, inits[q]>>) \in registered'
      BY <1>4, <2>3, ClientIsPair DEF HubInv, KnowsInv, Entry
    <3> QED BY <1>1, <2>1, <3>1, <3>2, <3>3 DEF Entry
  <2> QED BY <2>2, <2>3
<1> QED BY <1>5, <1>6, <1>7, <1>8 DEF HubInv

\* Every step of a socket keeps what the hub knows.
LEMMA HandleHub ==
  ASSUME TypeOK, HubInv, NEW s \in Sockets, Handle(s) \/ Break(s)
  PROVE  HubInv'
<1>1. CASE \E a \in Accounts : ConnectionInit(s, a) BY <1>1, ConnectionInitHub
<1>2. CASE Anonymous(s) BY <1>2, AnonymousHub
<1>3. CASE AckInit(s)
  BY <1>3, HubKept DEF AckInit, Goto, Served, TypeOK, hubVars
<1>4. CASE \E id \in SubIds : Complete(s, id) \/ \E st \in Streams : Subscribe(s, id, st)
  BY <1>4, SubscriptionHub
<1>5. CASE \E topic \in Topics : Typing(s, topic)
  BY <1>5, HubKept DEF Typing, Snapshot, Goto, Served, TypeOK, hubVars
<1>6. CASE TypingDone(s)
  BY <1>6, HubKept DEF TypingDone, Finish, Goto, Served, TypeOK, hubVars
<1>7. CASE Leave(s)
  BY <1>7, HubKept DEF Leave, Goto, Served, TypeOK, hubVars
<1>8. CASE Remove(s) BY <1>8, RemoveHub
<1>9. CASE Break(s)
  BY <1>9, HubKept DEF Break, Served, TypeOK, hubVars, handleVars
<1> QED
  BY <1>1, <1>2, <1>3, <1>4, <1>5, <1>6, <1>7, <1>8, <1>9 DEF Handle

\* The publishers and the realtime queue leave the hub alone.
LEMMA OthersHub ==
  ASSUME HubInv, UNCHANGED <<handleVars, broken, hubVars>>
  PROVE  HubInv'
BY HubKept DEF handleVars, Served

-----------------------------------------------------------------------------
(* What the publishers know. *)

\* Sockets may come and go, and what they ask for may change, where no publisher
\* holds the lock and what is owed is forgiven.
LEMMA PubKept ==
  ASSUME TypeOK, PubInv, UNCHANGED <<event, todo, at, left>>,
         \A c \in Clients : Known(c) => Known(c)',
         \A s \in Sockets : Served(s)' => Served(s),
         \A c \in Clients : \A a : Entry(a, c) \in registered /\ Served(Owner(c))' =>
           Entry(a, c) \in registered',
         \A p \in Publishers : \A id \in left[p] : subs'[at[p]][id] = subs[at[p]][id],
         \A p \in Publishers : \A x \in owed'[p] :
           /\ x \in owed[p] /\ subs'[x[1]][x[2]] = subs[x[1]][x[2]]
           /\ Served(Owner(x[1])) => Served(Owner(x[1]))'
  PROVE  PubInv'
<1>1. VisitInv'
  <2>1. \A p \in Publishers : todo[p] \subseteq Clients /\ at[p] \in Clients \cup {NoClient}
    BY DEF TypeOK
  <2>2. \A p \in Publishers : Idle(p)' <=> Idle(p) BY DEF Idle
  <2>3. \A p \in Publishers : at[p] # NoClient => Known(at[p])'
    <3> TAKE p \in Publishers
    <3>1. PICK c : c = at[p] OBVIOUS
    <3>2. c # NoClient => Known(c) /\ c \in Clients BY <2>1, <3>1 DEF PubInv, VisitInv
    <3> QED BY <3>1, <3>2 DEF Known, Owner
  <2> QED BY <2>1, <2>2, <2>3 DEF PubInv, VisitInv
<1>2. AddressInv'
  <2>1. \A c \in Clients : Served(Owner(c))' => Served(Owner(c))
    BY ClientIsPair DEF Served, Owner
  <2> QED BY <2>1 DEF PubInv, AddressInv, Entry, Owner
<1>3. OwedInv' BY DEF PubInv, OwedInv, Owner
<1> QED BY <1>1, <1>2, <1>3 DEF PubInv

\* A publisher copies its recipients: all of them are known, and what it owes is
\* asked for.
LEMMA SnapshotPub ==
  ASSUME TypeOK, HubInv, PubInv, NEW p \in Publishers, NEW e \in Event,
         Snapshot(p, e), e.stream = Bell => e.to \in Accounts, inits' = inits,
         \A s \in Sockets : Served(s)' <=> Served(s)
  PROVE  PubInv'
<1>1. /\ Idle(p) /\ UNCHANGED <<hubVars, at, left, inits>>
      /\ event' = [event EXCEPT ![p] = e] /\ todo' = [todo EXCEPT ![p] = Recipients(e)]
      /\ owed' = [owed EXCEPT ![p] = {x \in Recipients(e) \X SubIds :
                     x[2] \in Matching(x[1], e) /\ Served(Owner(x[1]))}]
  BY DEF Snapshot
<1>2. at[p] = NoClient /\ left[p] = {} BY <1>1 DEF PubInv, VisitInv
<1>3. /\ event'[p] = e /\ todo'[p] = Recipients(e)
      /\ \A x \in owed'[p] : /\ x[1] \in Recipients(e) /\ Served(Owner(x[1]))
                             /\ subs[x[1]][x[2]] = e.stream
  BY <1>1 DEF TypeOK, Matching
<1>4. \A q \in Publishers \ {p} :
        event'[q] = event[q] /\ todo'[q] = todo[q] /\ owed'[q] = owed[q]
  BY <1>1 DEF TypeOK
<1>5. \A c \in Recipients(e) : c \in Clients /\ Known(c)
  BY RecipientsAreClients DEF Recipients, HubInv, ClientInv
<1>6. e # NoEvent BY EventHasStream
<1>7. \A c : Known(c)' <=> Known(c) BY <1>1 DEF Known
<1>8. \A c \in Clients : Served(Owner(c))' <=> Served(Owner(c))
  BY ClientIsPair DEF Served, Owner
<1>9. VisitInv'
  <2>1. \A q \in Publishers : Known(at[q])' <=> Known(at[q]) BY <1>1 DEF Known, Owner
  <2> QED
  BY <1>1, <1>2, <1>3, <1>4, <1>5, <1>6, <1>7, <2>1 DEF PubInv, VisitInv, Idle, hubVars
<1>10. AddressInv'
  <2> SUFFICES ASSUME NEW q \in Publishers, event'[q].stream = Bell
               PROVE  /\ event'[q].to \in Accounts
                      /\ \A c \in Clients :
                           c \in todo'[q] \cup {at'[q]} /\ Served(Owner(c))' =>
                             Entry(event'[q].to, c) \in registered'
      BY DEF AddressInv, Entry, Served, Owner
  <2>1. CASE q = p
    <3>1. \A c \in Recipients(e) : Entry(e.to, c) \in registered
      BY <1>3, <2>1 DEF Recipients, Entry, TypeOK
    <3> QED BY <1>1, <1>2, <1>3, <2>1, <3>1, HubAssumption DEF hubVars
  <2>2. CASE q # p
    BY <1>1, <1>4, <1>8, <2>2 DEF PubInv, AddressInv, hubVars
  <2> QED BY <2>1, <2>2
<1>11. OwedInv'
  <2> SUFFICES ASSUME NEW q \in Publishers, NEW x \in owed'[q]
               PROVE  /\ Served(Owner(x[1]))' /\ subs[x[1]][x[2]] = event'[q].stream
                      /\ x[1] \in todo'[q] \/ (x[1] = at[q] /\ x[2] \in left[q])
      BY <1>1 DEF OwedInv, Served, Owner, hubVars
  <2>1. CASE q = p
    <3>1. x[1] \in Clients BY <1>3, <1>5, <2>1
    <3> QED BY <1>3, <1>8, <2>1, <3>1
  <2>2. CASE q # p
    <3>1. x \in owed[q] /\ x[1] \in Clients
      BY <1>4, <2>2 DEF TypeOK, Subscriptions
    <3> QED BY <1>4, <1>8, <2>2, <3>1 DEF PubInv, OwedInv
  <2> QED BY <2>1, <2>2
<1> QED BY <1>9, <1>10, <1>11 DEF PubInv

\* A publisher that has visited everybody owes nothing.
LEMMA PublishedOwesNothing ==
  ASSUME TypeOK, PubInv, NEW p \in Publishers, Published(p)
  PROVE  owed[p] = {} /\ left[p] = {}
BY DEF TypeOK, PubInv, VisitInv, OwedInv, Published

LEMMA FinishPub ==
  ASSUME TypeOK, PubInv, NEW p \in Publishers, Published(p), Finish(p),
         \A s \in Sockets : Served(s)' <=> Served(s)
  PROVE  PubInv'
<1>1. /\ UNCHANGED <<inits, hubVars, todo, at, left, owed>>
      /\ event' = [event EXCEPT ![p] = NoEvent]
      /\ todo[p] = {} /\ at[p] = NoClient /\ left[p] = {} /\ owed[p] = {}
  BY PublishedOwesNothing DEF Finish, Published
<1>2. event'[p] = NoEvent /\ \A q \in Publishers \ {p} : event'[q] = event[q]
  BY <1>1 DEF TypeOK
<1>3. \A c : Known(c)' <=> Known(c) BY <1>1 DEF Known
<1>4. \A c \in Clients : Served(Owner(c))' <=> Served(Owner(c))
  BY ClientIsPair DEF Served, Owner
<1>5. NoEvent.stream # Bell BY HubAssumption DEF NoEvent, Streams
<1>6. VisitInv'
  <2>1. \A q \in Publishers : Known(at[q])' <=> Known(at[q]) BY <1>1 DEF Known, Owner
  <2> QED BY <1>1, <1>2, <1>3, <2>1 DEF PubInv, VisitInv, Idle, hubVars
<1>7. AddressInv' BY <1>1, <1>2, <1>4, <1>5 DEF PubInv, AddressInv, Entry, hubVars, Owner
<1>8. OwedInv'
  <2>1. \A q \in Publishers : \A x \in owed[q] : x[1] \in Clients
    BY DEF TypeOK, Subscriptions
  <2> QED BY <1>1, <1>2, <1>4, <2>1 DEF PubInv, OwedInv, hubVars, Owner
<1> QED BY <1>6, <1>7, <1>8 DEF PubInv

\* When nothing changes but what publishers visit, their invariants read as
\* follows.
LEMMA SameHub ==
  ASSUME UNCHANGED <<handleVars, broken, hubVars, event>>
  PROVE  /\ VisitInv' <=>
              \A p \in Publishers :
                /\ Idle(p) => todo'[p] = {} /\ at'[p] = NoClient
                /\ at'[p] = NoClient => left'[p] = {}
                /\ at'[p] # NoClient => at'[p] \notin todo'[p] /\ Known(at'[p])
                /\ \A c \in todo'[p] : Known(c)
                /\ \A q \in Publishers : at'[p] = at'[q] /\ at'[p] # NoClient => p = q
                /\ \A id \in left'[p] : subs[at'[p]][id] = event[p].stream
         /\ AddressInv' <=>
              \A p \in Publishers : event[p].stream = Bell =>
                /\ event[p].to \in Accounts
                /\ \A c \in Clients : c \in todo'[p] \cup {at'[p]} /\ Served(Owner(c)) =>
                     Entry(event[p].to, c) \in registered
         /\ OwedInv' <=>
              \A p \in Publishers : \A x \in owed'[p] :
                /\ Served(Owner(x[1])) /\ subs[x[1]][x[2]] = event[p].stream
                /\ x[1] \in todo'[p] \/ (x[1] = at'[p] /\ x[2] \in left'[p])
<1>1. UNCHANGED <<phase, inits, broken, registered, subs, event>>
  BY DEF handleVars, hubVars
<1> QED BY <1>1 DEF VisitInv, AddressInv, OwedInv, Idle, Known, Served, Entry, Owner

\* The steps of writeStream.
LEMMA WriteStreamPub ==
  ASSUME TypeOK, PubInv, NEW p \in Publishers, WriteStream(p)
  PROVE  PubInv'
<1>1. UNCHANGED <<handleVars, broken, hubVars, event>>
  BY DEF WriteStream, Enter, Write, WriteFails, Exit, handleVars, hubVars
<1>2. ASSUME NEW c \in Clients, Enter(p, c) PROVE PubInv'
  <2>1. /\ ~Idle(p) /\ at[p] = NoClient /\ c \in todo[p] /\ Unlocked(c) /\ c # NoClient
        /\ todo'[p] = todo[p] \ {c} /\ at'[p] = c /\ left'[p] = Matching(c, event[p])
        /\ \A q \in Publishers \ {p} :
             todo'[q] = todo[q] /\ at'[q] = at[q] /\ left'[q] = left[q]
        /\ owed' = owed
    BY <1>2, HubAssumption DEF Enter, TypeOK, history
  <2>2. VisitInv'
    <3>1. Known(at'[p]) BY <2>1 DEF PubInv, VisitInv
    <3>2. \A id \in left'[p] : subs[at'[p]][id] = event[p].stream
      BY <2>1 DEF Matching
    <3>3. \A q \in Publishers \ {p} : at'[q] # at'[p] BY <2>1 DEF Unlocked
    <3>4. \A q \in Publishers : at'[q] # NoClient => Known(at'[q])
      BY <2>1, <3>1 DEF PubInv, VisitInv
    <3> QED BY <1>1, <2>1, <3>2, <3>3, <3>4, SameHub DEF PubInv, VisitInv
  <2>3. AddressInv' BY <1>1, <2>1, SameHub DEF PubInv, AddressInv
  <2>4. OwedInv'
    <3> SUFFICES ASSUME NEW q \in Publishers, NEW x \in owed[q]
                 PROVE  /\ Served(Owner(x[1])) /\ subs[x[1]][x[2]] = event[q].stream
                        /\ x[1] \in todo'[q] \/ (x[1] = at'[q] /\ x[2] \in left'[q])
        BY <1>1, <2>1, SameHub
    <3>1. x[2] \in SubIds BY DEF TypeOK, Subscriptions
    <3>2. CASE q = p /\ x[1] = c
      BY <2>1, <3>1, <3>2 DEF PubInv, OwedInv, Matching
    <3>3. CASE q # p \/ x[1] # c
      BY <2>1, <3>3 DEF PubInv, OwedInv, VisitInv
    <3> QED BY <3>2, <3>3
  <2> QED BY <2>2, <2>3, <2>4 DEF PubInv
<1>3. ASSUME NEW id \in SubIds, Write(p, id) PROVE PubInv'
  <2>1. /\ id \in left[p] /\ UNCHANGED <<todo, at>>
        /\ left'[p] = left[p] \ {id} /\ owed'[p] = owed[p] \ {<<at[p], id>>}
        /\ \A q \in Publishers \ {p} : left'[q] = left[q] /\ owed'[q] = owed[q]
    BY <1>3 DEF Write, TypeOK
  <2>2. VisitInv' BY <1>1, <2>1, SameHub DEF PubInv, VisitInv
  <2>3. AddressInv' BY <1>1, <2>1, SameHub DEF PubInv, AddressInv
  <2>4. OwedInv'
    <3> SUFFICES ASSUME NEW q \in Publishers, NEW x \in owed'[q]
                 PROVE  /\ Served(Owner(x[1])) /\ subs[x[1]][x[2]] = event[q].stream
                        /\ x[1] \in todo[q] \/ (x[1] = at[q] /\ x[2] \in left'[q])
        BY <1>1, <2>1, SameHub
    <3>1. x \in owed[q] /\ x = <<x[1], x[2]>>
      <4>1. x \in owed[q] BY <2>1
      <4>2. x \in Clients \X SubIds BY <4>1 DEF TypeOK, Subscriptions
      <4> QED BY <4>1, <4>2
    <3>2. q = p /\ x[1] = at[p] => x[2] # id BY <2>1, <3>1
    <3> QED BY <2>1, <3>1, <3>2 DEF PubInv, OwedInv
  <2> QED BY <2>2, <2>3, <2>4 DEF PubInv
<1>4. CASE WriteFails(p)
  <2>1. /\ left[p] # {} /\ ~Writable(at[p]) /\ UNCHANGED <<todo, at, owed>>
        /\ left'[p] = {} /\ \A q \in Publishers \ {p} : left'[q] = left[q]
    BY <1>4 DEF WriteFails, TypeOK, history
  <2>2. VisitInv' BY <1>1, <2>1, SameHub DEF PubInv, VisitInv
  <2>3. AddressInv' BY <1>1, <2>1, SameHub DEF PubInv, AddressInv
  <2>4. OwedInv'
    <3>1. ~Served(Owner(at[p])) BY <2>1 DEF Writable, Served
    <3> QED BY <1>1, <2>1, <3>1, SameHub DEF PubInv, OwedInv
  <2> QED BY <2>2, <2>3, <2>4 DEF PubInv
<1>5. CASE Exit(p)
  <2>1. /\ left[p] = {} /\ UNCHANGED <<todo, left, owed>>
        /\ at'[p] = NoClient /\ \A q \in Publishers \ {p} : at'[q] = at[q]
    BY <1>5 DEF Exit, TypeOK, history
  <2>2. VisitInv' BY <1>1, <2>1, SameHub DEF PubInv, VisitInv
  <2>3. AddressInv'
    BY <1>1, <2>1, HubAssumption, SameHub DEF PubInv, AddressInv
  <2>4. OwedInv' BY <1>1, <2>1, SameHub DEF PubInv, OwedInv
  <2> QED BY <2>2, <2>3, <2>4 DEF PubInv
<1> QED BY <1>2, <1>3, <1>4, <1>5 DEF WriteStream

\* The steps of a socket: what ends is forgiven, and a subscription changes only
\* when no publisher is inside writeStream for the client.
LEMMA HandlePub ==
  ASSUME TypeOK, HubInv, PubInv, NEW s \in Sockets, Handle(s) \/ Break(s)
  PROVE  PubInv'
<1> USE DEF handleVars, hubVars, pubVars, history
<1>1. \A c \in Clients : Owner(c) \in Sockets /\ c[2] \in Nat BY ClientIsPair
<1>2. ASSUME \A q \in Sockets : inits[q] <= inits'[q] /\ inits[q] \in Nat /\ inits'[q] \in Nat
      PROVE  \A c \in Clients : Known(c) => Known(c)'
  BY <1>1, <1>2 DEF Known, Owner
<1>3. \A p \in Publishers : \A x \in owed[p] :
        x \in Subscriptions /\ x = <<x[1], x[2]>> /\ x[1] \in Clients /\ Owner(x[1]) \in Sockets
  BY <1>1 DEF TypeOK, Subscriptions
<1>4. ASSUME NEW a \in Accounts, ConnectionInit(s, a) PROVE PubInv'
  <2>1. \A q \in Sockets : inits[q] <= inits'[q] /\ inits[q] \in Nat /\ inits'[q] \in Nat
    BY <1>4, HubAssumption DEF ConnectionInit, TypeOK
  <2>2. \A q \in Sockets : Served(q)' <=> Served(q)
    BY <1>4 DEF ConnectionInit, Served, Goto, TypeOK
  <2>3. UNCHANGED <<event, todo, at, left, owed, subs>> /\ registered \subseteq registered'
    BY <1>4 DEF ConnectionInit
  <2>4. \A p \in Publishers : \A x \in owed[p] : Served(Owner(x[1]))' <=> Served(Owner(x[1]))
    BY <1>3, <2>2 DEF Served, Owner
  <2> QED BY <1>2, <2>1, <2>2, <2>3, <2>4, PubKept
\* a socket that is not served any more
<1>5. ASSUME ForgiveSocket(s), UNCHANGED <<hubVars, event, todo, at, left>>,
             \A q \in Sockets : inits[q] <= inits'[q] /\ inits[q] \in Nat /\ inits'[q] \in Nat,
             \A q \in Sockets : Served(q)' => Served(q),
             \A q \in Sockets \ {s} : Served(q)' <=> Served(q)
      PROVE  PubInv'
  <2>1. \A p \in Publishers : \A x \in owed'[p] : x \in owed[p] /\ Owner(x[1]) # s
    BY <1>3, <1>5 DEF ForgiveSocket, Forgive
  <2>2. \A p \in Publishers : \A x \in owed'[p] : Served(Owner(x[1]))' <=> Served(Owner(x[1]))
    BY <1>3, <1>5, <2>1 DEF Served, Owner
  <2> QED BY <1>2, <1>5, <2>1, <2>2, PubKept
<1>6. CASE Anonymous(s)
  <2>1. \A q \in Sockets : /\ inits[q] <= inits'[q] /\ inits[q] \in Nat /\ inits'[q] \in Nat
                           /\ Served(q)' => Served(q)
                           /\ q # s => (Served(q)' <=> Served(q))
    BY <1>6, HubAssumption DEF Anonymous, Served, Goto, TypeOK
  <2> QED BY <1>5, <1>6, <2>1 DEF Anonymous
<1>7. CASE Leave(s) \/ Break(s)
  <2>1. \A q \in Sockets : /\ inits[q] <= inits'[q] /\ inits[q] \in Nat /\ inits'[q] \in Nat
                           /\ Served(q)' => Served(q)
                           /\ q # s => (Served(q)' <=> Served(q))
    BY <1>7, HubAssumption DEF Leave, Break, Served, Goto, TypeOK
  <2> QED BY <1>5, <1>7, <2>1 DEF Leave, Break
\* a socket that stays as it is
<1>8. ASSUME UNCHANGED <<inits, subs, event, todo, at, left, owed>>,
             \A q \in Sockets : Served(q)' <=> Served(q),
             \A c \in Clients : \A a : Entry(a, c) \in registered /\ Served(Owner(c))' =>
               Entry(a, c) \in registered'
      PROVE  PubInv'
  <2>1. \A p \in Publishers : \A x \in owed[p] : Served(Owner(x[1]))' <=> Served(Owner(x[1]))
    BY <1>3, <1>8 DEF Served, Owner
  <2>2. \A c \in Clients : Known(c)' <=> Known(c) BY <1>8 DEF Known
  <2> QED BY <1>8, <2>1, <2>2, PubKept
<1>9. CASE AckInit(s)
  <2>1. \A q \in Sockets : Served(q)' <=> Served(q)
    BY <1>9 DEF AckInit, Served, Goto, TypeOK
  <2> QED BY <1>8, <1>9, <2>1 DEF AckInit
<1>10. CASE Remove(s)
  <2>1. \A q \in Sockets : Served(q)' <=> Served(q)
    BY <1>10 DEF Remove, Served, Goto, TypeOK
  <2>2. ASSUME NEW c \in Clients, NEW a, Entry(a, c) \in registered, Served(Owner(c))'
        PROVE  Entry(a, c) \in registered'
    <3>1. Owner(c) # s BY <1>10, <2>2 DEF Remove, Served, Goto, TypeOK
    <3>2. c # current[s] BY <3>1, HubAssumption DEF HubInv, HandleInv
    <3> QED BY <1>10, <2>2, <3>2 DEF Remove, Entry
  <2> QED BY <1>8, <1>10, <2>1, <2>2 DEF Remove
<1>11. ASSUME NEW id \in SubIds,
              Complete(s, id) \/ \E st \in Streams : Subscribe(s, id, st)
       PROVE  PubInv'
  <2>1. /\ Unlocked(current[s]) /\ Forgive({<<current[s], id>>})
        /\ UNCHANGED <<handleVars, broken, registered, event, todo, at, left>>
        /\ \E st : subs' = [subs EXCEPT ![current[s]][id] = st]
    BY <1>11 DEF Complete, Subscribe
  <2>2. \A c \in Clients, i \in SubIds : c # current[s] \/ i # id => subs'[c][i] = subs[c][i]
    BY <2>1 DEF TypeOK
  <2>3. ASSUME NEW p \in Publishers, NEW i \in left[p]
        PROVE  subs'[at[p]][i] = subs[at[p]][i]
    <3>1. at[p] # current[s] BY <2>1 DEF Unlocked
    <3>2. at[p] \in Clients /\ i \in SubIds BY <2>3 DEF TypeOK, PubInv, VisitInv
    <3> QED BY <2>2, <3>1, <3>2
  <2>4. ASSUME NEW p \in Publishers, NEW x \in owed'[p]
        PROVE  x \in owed[p] /\ subs'[x[1]][x[2]] = subs[x[1]][x[2]]
    <3>1. x \in owed[p] /\ x # <<current[s], id>> BY <2>1, <2>4 DEF Forgive
    <3>2. x[1] # current[s] \/ x[2] # id BY <1>3, <3>1
    <3>3. x[1] \in Clients /\ x[2] \in SubIds BY <1>3, <3>1 DEF Subscriptions
    <3> QED BY <2>2, <3>1, <3>2, <3>3
  <2>5. \A c : (Known(c)' <=> Known(c)) /\ (Served(c)' <=> Served(c))
    BY <2>1 DEF Known, Served
  <2>6. \A p \in Publishers : \A x \in owed'[p] : Served(Owner(x[1])) => Served(Owner(x[1]))'
    BY <2>1 DEF Served, Owner
  <2> QED BY <2>1, <2>3, <2>4, <2>5, <2>6, PubKept
<1>12. s \in Publishers BY DEF Publishers
<1>13. ASSUME NEW topic \in Topics, Typing(s, topic) PROVE PubInv'
  <2>1. \A q \in Sockets : Served(q)' <=> Served(q)
    BY <1>13 DEF Typing, Snapshot, Served, Goto, TypeOK
  <2>2. topic # Bell BY HubAssumption
  <2> QED BY <1>12, <1>13, <2>1, <2>2, EventsAreTyped, SnapshotPub DEF Typing
<1>14. CASE TypingDone(s)
  <2>1. \A q \in Sockets : Served(q)' <=> Served(q)
    BY <1>14 DEF TypingDone, Finish, Served, Goto, TypeOK
  <2> QED BY <1>12, <1>14, <2>1, FinishPub DEF TypingDone
<1> QED
  BY <1>4, <1>6, <1>7, <1>9, <1>10, <1>11, <1>13, <1>14 DEF Handle

-----------------------------------------------------------------------------
(* The invariants of the hub and its publishers hold. *)

LEMMA InitIInv == Init => IInv
<1> SUFFICES ASSUME Init PROVE IInv
    OBVIOUS
<1>1. TypeOK BY InitTypeOK
<1>2. \A c \in Clients : Blank(c) BY DEF Init, Blank
<1>3. HubInv
  BY <1>2 DEF Init, HubInv, HandleInv, ClientInv, LastInv, KnowsInv, Has, Open
<1>4. NoEvent.stream # Bell BY HubAssumption DEF NoEvent, Streams
<1>5. PubInv BY <1>4 DEF Init, PubInv, VisitInv, AddressInv, OwedInv
<1> QED BY <1>1, <1>3, <1>5 DEF IInv

\* The bell and the realtime consumer publish what SnapshotPub allows.
LEMMA FeedPub ==
  ASSUME TypeOK, HubInv, PubInv,
         \/ Consume \/ LoseLink
         \/ \E b \in Bells : Ring(b) \/ RingDone(b)
  PROVE  HubInv' /\ PubInv'
<1>1. Realtime \in Publishers /\ Bells \subseteq Publishers
  BY DEF Publishers
<1>2. UNCHANGED <<handleVars, broken, hubVars>>
  BY DEF Consume, Deliver, TakeDone, Resume, Take, TakeBad, LoseLink, Ring, RingDone,
         Snapshot, Finish, handleVars, hubVars
<1>3. SUFFICES PubInv'
  BY <1>2, OthersHub
<1>4. inits' = inits /\ \A s : Served(s)' <=> Served(s)
  BY <1>2 DEF handleVars, Served
<1>5. ASSUME UNCHANGED <<pubVars, history>> PROVE PubInv'
  BY <1>2, <1>4, <1>5, PubKept DEF pubVars, history, hubVars, Known, Served, Owner
<1>6. ASSUME NEW m \in Messages, Take(m) PROVE PubInv'
  <2>1. Feed[m] # Bell BY <1>6, HubAssumption DEF Messages, Take
  <2> QED BY <1>1, <1>4, <1>6, <2>1, EventsAreTyped, SnapshotPub DEF Take
<1>7. ASSUME NEW b \in Bells, Ring(b) PROVE PubInv'
  BY <1>1, <1>4, <1>7, EventsAreTyped, SnapshotPub, HubAssumption DEF Ring
<1>8. CASE TakeDone BY <1>1, <1>4, <1>8, FinishPub DEF TakeDone
<1>9. CASE \E b \in Bells : RingDone(b) BY <1>1, <1>4, <1>9, FinishPub DEF RingDone
<1>10. CASE Deliver \/ Resume \/ LoseLink \/ \E m \in Messages : TakeBad(m)
  BY <1>5, <1>10 DEF Deliver, Resume, LoseLink, TakeBad
<1> QED
  BY <1>6, <1>7, <1>8, <1>9, <1>10 DEF Consume

LEMMA StepIInv == IInv /\ [Next]_vars => IInv'
<1> SUFFICES ASSUME IInv, [Next]_vars PROVE IInv'
    OBVIOUS
<1>1. TypeOK /\ HubInv /\ PubInv /\ VisitInv BY DEF IInv, PubInv
<1>2. CASE \E s \in Sockets : Handle(s) \/ Break(s)
  BY <1>1, <1>2, HandleType, HandleHub, HandlePub DEF IInv
<1>3. ASSUME NEW p \in Publishers, WriteStream(p) PROVE IInv'
  <2>1. UNCHANGED <<handleVars, broken, hubVars>>
    BY <1>3 DEF WriteStream, Enter, Write, WriteFails, Exit, handleVars, hubVars
  <2> QED BY <1>1, <1>3, <2>1, WriteStreamType, OthersHub, WriteStreamPub DEF IInv
<1>4. CASE Consume \/ LoseLink \/ \E b \in Bells : Ring(b) \/ RingDone(b)
  BY <1>1, <1>4, ConsumeType, FeedPub DEF IInv
<1>5. CASE UNCHANGED vars
  <2>1. UNCHANGED <<handleVars, broken, hubVars, pubVars, feedVars, history>>
    BY <1>5 DEF vars
  <2>2. TypeOK'
    BY <1>1, <2>1 DEF TypeOK, handleVars, hubVars, pubVars, feedVars, history
  <2>3. HubInv' BY <1>1, <2>1, OthersHub
  <2>4. PubInv'
    BY <1>1, <2>1, PubKept DEF pubVars, history, hubVars, handleVars, Known, Served, Owner
  <2> QED BY <2>2, <2>3, <2>4 DEF IInv
<1> QED BY <1>2, <1>3, <1>4, <1>5 DEF Next

\* The parts of the invariant hold together, at every step.
LEMMA Invariance == Spec => []IInv
BY InitIInv, StepIInv, PTL DEF Spec

-----------------------------------------------------------------------------
(* The invariants that the runs check. *)

\* The variables keep their types: no client has an account that is not one, and
\* no publisher an event that is not one.
THEOREM TypeCorrect == Spec => []TypeOK
<1>1. IInv => TypeOK BY DEF IInv
<1> QED BY <1>1, Invariance, PTL

\* The hub knows the client of a socket's last connection_init until Handle is
\* over; of a socket that is gone it keeps exactly the clients that a later
\* connection_init replaced (notification_hub.go: Handle, add, remove).
THEOREM HubIsExact == Spec => []HubKnowsOpenSockets
<1>1. ASSUME IInv, NEW s \in Sockets
      PROVE  /\ {r \in registered : r.client = <<s, inits[s]>>} =
                  IF account[s] = NoAccount \/ phase[s] = "gone" THEN {}
                  ELSE {[account |-> account[s], client |-> <<s, inits[s]>>]}
             /\ {r.client[2] : r \in {x \in registered : Owner(x.client) = s}} \ {inits[s]}
                  = 1 .. (inits[s] - 1)
  <2>1. /\ TypeOK /\ inits[s] \in Nat
        /\ \A n \in Nat : Has(s, n) <=> (1 <= n /\ n < inits[s]) \/ (n = inits[s] /\ Open(s))
        /\ Open(s) => Entry(account[s], <<s, inits[s]>>) \in registered
        /\ \A r, q \in registered : r.client = q.client => r = q
    BY <1>1, HubAssumption DEF IInv, TypeOK, HubInv, KnowsInv, ClientInv
  <2>4. {r.client[2] : r \in {x \in registered : Owner(x.client) = s}} \ {inits[s]}
          = 1 .. (inits[s] - 1)
    <3> DEFINE numbers == {r.client[2] : r \in {x \in registered : Owner(x.client) = s}}
    <3>1. \A r \in registered : /\ r.client[2] \in Nat
                                 /\ r.client = <<Owner(r.client), r.client[2]>>
      BY <2>1, ClientIsPair, HubAssumption DEF TypeOK
    <3>2. \A n \in numbers : n \in Nat /\ Has(s, n)
      BY <3>1 DEF Has
    <3>3. \A n \in Nat : Has(s, n) => n \in numbers
      <4> SUFFICES ASSUME NEW n \in Nat, NEW r \in registered, r.client = <<s, n>>
                   PROVE  n \in numbers
          BY DEF Has
      <4>1. Owner(r.client) = s /\ r.client[2] = n BY DEF Owner
      <4> QED BY <4>1
    <3> HIDE DEF numbers
    <3>4. \A n : n \in numbers \ {inits[s]} <=> n \in 1 .. (inits[s] - 1)
      BY <2>1, <3>2, <3>3
    <3> QED BY <3>4 DEF numbers
  <2>2. CASE Open(s)
    <3>1. {r \in registered : r.client = <<s, inits[s]>>} = {Entry(account[s], <<s, inits[s]>>)}
      BY <2>1, <2>2 DEF Entry
    <3> QED BY <2>2, <3>1, <2>4 DEF Open, Entry
  <2>3. CASE ~Open(s)
    <3>1. {r \in registered : r.client = <<s, inits[s]>>} = {} BY <2>1, <2>3 DEF Has
    <3> QED BY <2>3, <3>1, <2>4 DEF Open
  <2> QED BY <2>2, <2>3
<1>2. IInv => HubKnowsOpenSockets BY <1>1 DEF HubKnowsOpenSockets
<1> QED BY <1>2, Invariance, PTL

\* No two goroutines write to a socket at once, as long as it sends
\* connection_init once (notification_hub.go: writeStream, Handle).
THEOREM OneWriterAlways == Spec => []OneWriter
<1>1. IInv => OneWriter
  <2> SUFFICES ASSUME IInv, NEW s \in Sockets, inits[s] <= 1
               PROVE  /\ \A p, q \in Publishers : Writing(p, s) /\ Writing(q, s) => p = q
                      /\ phase[s] = "acking" => \A p \in Publishers : ~Writing(p, s)
      BY DEF OneWriter
  <2>1. \A p \in Publishers : Writing(p, s) => at[p] = <<s, 1>>
    <3> SUFFICES ASSUME NEW p \in Publishers, Writing(p, s) PROVE at[p] = <<s, 1>>
        OBVIOUS
    <3>1. at[p] \in Clients /\ Owner(at[p]) = s /\ Known(at[p])
      BY DEF IInv, TypeOK, PubInv, VisitInv, Writing
    <3>2. at[p][2] = 1 BY <3>1, ClientIsPair DEF Known, IInv, TypeOK
    <3> QED BY <3>1, <3>2, ClientIsPair
  <2>2. \A p, q \in Publishers : Writing(p, s) /\ Writing(q, s) => p = q
    BY <2>1 DEF IInv, PubInv, VisitInv, Writing
  <2>3. ASSUME phase[s] = "acking", NEW p \in Publishers, Writing(p, s) PROVE FALSE
    <3>1. PICK id \in left[p] : subs[at[p]][id] = event[p].stream
      BY <2>3 DEF IInv, PubInv, VisitInv, Writing
    <3>2. at[p] \in Clients /\ id \in SubIds /\ at[p] # NoClient
      BY <2>3, <3>1 DEF IInv, TypeOK, Writing
    <3>3. event[p].stream # NoStream
      BY <3>2, EventHasStream DEF IInv, TypeOK, PubInv, VisitInv, Idle
    <3>4. ~Blank(at[p]) BY <3>1, <3>2, <3>3 DEF Blank
    <3>5. at[p] # current[s]
      BY <2>3, <3>2, <3>4 DEF IInv, HubInv, ClientInv, Writing
    <3>6. current[s] = <<s, inits[s]>>
      BY <2>3 DEF IInv, HubInv, HandleInv
    <3>7. at[p] = <<s, 1>> /\ Known(at[p])
      BY <2>1, <2>3 DEF IInv, PubInv, VisitInv, Writing
    <3>8. inits[s] = 1 BY <3>7, ClientIsPair DEF Known, IInv, TypeOK
    <3> QED BY <3>5, <3>6, <3>7, <3>8
  <2> QED BY <2>2, <2>3
<1> QED BY <1>1, Invariance, PTL

-----------------------------------------------------------------------------
(* The order of the feed. *)

\* The rule of FeedInOrder, for one step.
SentInOrder ==
  losses = 0 =>
    \A x \in Sockets \X SubIds :
      \A m \in seen'[x] \ seen[x], n \in seen[x] : n < m

\* Only the realtime consumer and the broker disturb the order.
LEMMA FeedKept ==
  ASSUME FeedInv, UNCHANGED <<buffer, ready, losses, seen>>,
         event'[Realtime] = event[Realtime],
         \A p \in Publishers \ {Realtime} : event'[p].seq = 0
  PROVE  FeedInv'
BY DEF FeedInv, Ahead, Idle, NoEvent, Increasing

LEMMA OtherEvents ==
  ASSUME TypeOK, FeedInv, NEW p \in Publishers \ {Realtime}, NEW e, e.seq = 0,
         event' = [event EXCEPT ![p] = e]
  PROVE  /\ event'[Realtime] = event[Realtime]
         /\ \A q \in Publishers \ {Realtime} : event'[q].seq = 0
<1>1. Realtime \in Publishers /\ event \in [Publishers -> Event \cup {NoEvent}]
  BY DEF Publishers, TypeOK
<1> QED BY <1>1 DEF FeedInv

LEMMA HandleFeed ==
  ASSUME TypeOK, FeedInv, NEW s \in Sockets, Handle(s) \/ Break(s)
  PROVE  FeedInv' /\ UNCHANGED seen
<1>1. s \in Publishers \ {Realtime} BY HubAssumption DEF Publishers
<1>2. UNCHANGED <<buffer, ready, losses, seen>>
  BY DEF Handle, ConnectionInit, Anonymous, AckInit, Complete, Subscribe, Typing,
         TypingDone, Leave, Remove, Break, Snapshot, Finish, ForgiveSocket, Forgive,
         feedVars, history
<1>3. UNCHANGED event \/ \E e : e.seq = 0 /\ event' = [event EXCEPT ![s] = e]
  <2>1. CASE TypingDone(s)
    BY <2>1 DEF TypingDone, Finish, NoEvent
  <2>2. ASSUME NEW topic \in Topics, Typing(s, topic)
        PROVE  \E e : e.seq = 0 /\ event' = [event EXCEPT ![s] = e]
    <3>1. [stream |-> topic, to |-> NoAccount, seq |-> 0].seq = 0
      OBVIOUS
    <3> QED BY <2>2, <3>1 DEF Typing, Snapshot
  <2> QED
    BY <2>1, <2>2 DEF Handle, ConnectionInit, Anonymous, AckInit, Complete, Subscribe,
                      Leave, Remove, Break, pubVars
<1>4. CASE UNCHANGED event BY <1>2, <1>4, FeedKept DEF FeedInv
<1>5. CASE \E e : e.seq = 0 /\ event' = [event EXCEPT ![s] = e]
  BY <1>1, <1>2, <1>5, OtherEvents, FeedKept
<1> QED BY <1>2, <1>3, <1>4, <1>5

\* What the realtime consumer writes is behind all it wrote, and before all it
\* will write.
LEMMA WriteStreamFeed ==
  ASSUME TypeOK, VisitInv, FeedInv, NEW p \in Publishers, WriteStream(p)
  PROVE  FeedInv' /\ SentInOrder
<1>1. UNCHANGED <<buffer, ready, losses, event>>
  BY DEF WriteStream, Enter, Write, WriteFails, Exit, feedVars
<1>2. CASE UNCHANGED seen
  BY <1>1, <1>2, FeedKept DEF FeedInv, SentInOrder
<1>3. ASSUME NEW id \in SubIds, Write(p, id), event[p].seq # 0
      PROVE  FeedInv' /\ SentInOrder
  <2>1. p = Realtime BY <1>3 DEF FeedInv
  <2>2. at[p] # NoClient /\ ~Idle(p) BY <1>3 DEF Write, VisitInv
  <2>3. PICK k \in Messages : event[p].seq = k
    BY <1>3, <2>2, EventHasStream DEF TypeOK, Idle
  <2>4. PICK y \in Sockets \X SubIds : y = <<Owner(at[p]), id>>
    BY <2>2, ClientIsPair DEF TypeOK
  <2>5. seen' = [seen EXCEPT ![y] = @ \cup {k}] BY <1>3, <2>3, <2>4 DEF Write
  <2>6. \A x \in Sockets \X SubIds : seen'[x] \subseteq seen[x] \cup {k}
    BY <2>5 DEF TypeOK
  <2>7. \A x \in Sockets \X SubIds : seen[x] \subseteq Nat
    BY MessagesAreNumbers DEF TypeOK
  <2>8. SentInOrder
    <3> SUFFICES ASSUME losses = 0, NEW x \in Sockets \X SubIds,
                        NEW m \in seen'[x] \ seen[x], NEW n \in seen[x]
                 PROVE  n < m
        BY DEF SentInOrder
    <3>1. m = k BY <2>6
    <3>2. n <= k BY <2>1, <2>2, <2>3 DEF FeedInv
    <3> QED BY <2>3, <2>7, <3>1, <3>2, MessagesAreNumbers
  <2>9. FeedInv'
    <3>1. \A n : Ahead(n) => Ahead(n)' BY <1>1 DEF Ahead
    <3>2. Idle(Realtime)' <=> Idle(Realtime) BY <1>1 DEF Idle
    <3>3. k <= k BY <2>3, MessagesAreNumbers
    <3>4. losses' = 0 =>
            \A x \in Sockets \X SubIds : \A n \in seen'[x] :
              Ahead(n)' /\ n <= event'[Realtime].seq
      BY <1>1, <2>1, <2>2, <2>3, <2>6, <3>1, <3>3 DEF FeedInv
    <3> QED BY <1>1, <3>1, <3>2, <3>4 DEF FeedInv, Increasing
  <2> QED BY <2>8, <2>9
<1> QED
  BY <1>2, <1>3 DEF WriteStream, Enter, Write, WriteFails, Exit, history

LEMMA ConsumeFeed ==
  ASSUME TypeOK, VisitInv, FeedInv,
         \/ Consume \/ LoseLink
         \/ \E b \in Bells : Ring(b) \/ RingDone(b)
  PROVE  FeedInv' /\ UNCHANGED seen
<1>1. /\ Realtime \in Publishers /\ Bells \subseteq Publishers \ {Realtime}
      /\ losses \in Nat /\ Messages \subseteq Nat
      /\ buffer \in Seq(Messages) /\ ready \in Seq(Messages)
      /\ \A x \in Sockets \X SubIds : seen[x] \subseteq Messages
  BY HubAssumption, MessagesAreNumbers DEF Publishers, TypeOK
<1>2. UNCHANGED seen
  BY DEF Consume, Deliver, TakeDone, Resume, Take, TakeBad, LoseLink, Ring, RingDone,
         Snapshot, Finish, history
<1>3. SUFFICES FeedInv'
  BY <1>2
<1>4. CASE Deliver
  <2>1. UNCHANGED <<event, losses>> BY <1>4 DEF Deliver, pubVars
  <2>2. ready # <<>> /\ buffer' = Append(buffer, Head(ready)) /\ ready' = Tail(ready)
    BY <1>4 DEF Deliver
  <2>3. /\ \A i \in DOMAIN buffer' : \/ i \in DOMAIN buffer /\ buffer'[i] = buffer[i]
                                     \/ i = Len(buffer) + 1 /\ buffer'[i] = ready[1]
        /\ \A i \in DOMAIN ready' : i + 1 \in DOMAIN ready /\ ready'[i] = ready[i + 1]
        /\ 1 \in DOMAIN ready
        /\ DOMAIN ready' \subseteq Nat \ {0} /\ DOMAIN buffer = 1 .. Len(buffer)
        /\ Len(buffer) \in Nat
        /\ \A i \in DOMAIN ready : ready[i] \in Nat
        /\ \A i \in DOMAIN buffer : buffer[i] \in Nat
    <3>1. /\ DOMAIN ready = 1 .. Len(ready) /\ Len(ready) \in Nat \ {0}
          /\ DOMAIN buffer = 1 .. Len(buffer) /\ Len(buffer) \in Nat
          /\ Head(ready) = ready[1] /\ Head(ready) \in Messages
      BY <1>1, <2>2
    <3>2. /\ DOMAIN ready' = 1 .. (Len(ready) - 1)
          /\ \A i \in 1 .. (Len(ready) - 1) : ready'[i] = ready[i + 1]
      BY <1>1, <2>2
    <3>3. /\ DOMAIN buffer' = 1 .. (Len(buffer) + 1)
          /\ \A i \in 1 .. Len(buffer) : buffer'[i] = buffer[i]
          /\ buffer'[Len(buffer) + 1] = Head(ready)
      BY <1>1, <2>2, <3>1
    <3>4. /\ \A i \in DOMAIN ready : ready[i] \in Nat
          /\ \A i \in DOMAIN buffer : buffer[i] \in Nat
      <4>1. /\ \A i \in 1 .. Len(ready) : ready[i] \in Messages
            /\ \A i \in 1 .. Len(buffer) : buffer[i] \in Messages
        BY <1>1
      <4> QED BY <1>1, <3>1, <4>1
    <3> QED BY <3>1, <3>2, <3>3, <3>4
  <2>4. \A n : Ahead(n) => Ahead(n)' BY <2>3 DEF Ahead
  <2>5. CASE losses = 0
    <3>1. Increasing(ready') BY <2>3, <2>5 DEF FeedInv, Increasing
    <3>2. Increasing(buffer') BY <2>3, <2>5 DEF FeedInv, Increasing
    <3>3. \A i \in DOMAIN buffer', j \in DOMAIN ready' : buffer'[i] < ready'[j]
      BY <2>3, <2>5 DEF FeedInv, Increasing
    <3> QED BY <1>2, <2>1, <2>4, <2>5, <3>1, <3>2, <3>3 DEF FeedInv, Idle, Increasing
  <2>6. CASE losses # 0 BY <2>1, <2>6 DEF FeedInv
  <2> QED BY <2>5, <2>6
<1>5. CASE TakeDone
  <2>1. UNCHANGED <<buffer, ready, losses>> /\ event' = [event EXCEPT ![Realtime] = NoEvent]
    BY <1>5 DEF TakeDone, Finish
  <2>2. Idle(Realtime)' BY <1>1, <2>1 DEF Idle, TypeOK
  <2>3. \A p \in Publishers \ {Realtime} : event'[p].seq = 0
    BY <2>1 DEF TypeOK, FeedInv
  <2> QED BY <1>2, <2>1, <2>2, <2>3 DEF FeedInv, Ahead, Increasing
\* The head of the buffer goes: what is left is behind it.
<1>6. ASSUME buffer # <<>>, buffer' = Tail(buffer), UNCHANGED <<ready, losses>>,
             losses = 0
      PROVE  /\ Increasing(buffer')
             /\ \A i \in DOMAIN buffer' : Head(buffer) < buffer'[i]
             /\ \A i \in DOMAIN buffer', j \in DOMAIN ready' : buffer'[i] < ready'[j]
             /\ \A j \in DOMAIN ready' : Head(buffer) < ready'[j]
             /\ \A n : Ahead(n) => Ahead(n)' /\ n < Head(buffer)
  <2>1. /\ \A i \in DOMAIN buffer' : i + 1 \in DOMAIN buffer /\ buffer'[i] = buffer[i + 1]
        /\ 1 \in DOMAIN buffer /\ Head(buffer) = buffer[1]
        /\ DOMAIN buffer' \subseteq Nat \ {0}
    BY <1>1, <1>6
  <2>2. Increasing(buffer) /\ \A i \in DOMAIN buffer, j \in DOMAIN ready : buffer[i] < ready[j]
    BY <1>6 DEF FeedInv
  <2> QED BY <1>6, <2>1, <2>2 DEF Increasing, Ahead
<1>7. ASSUME NEW m \in Messages, Take(m) PROVE FeedInv'
  <2>1. /\ buffer # <<>> /\ buffer' = Tail(buffer) /\ UNCHANGED <<ready, losses>>
        /\ m = Head(buffer) /\ Idle(Realtime)
        /\ event' = [event EXCEPT ![Realtime] =
                       [stream |-> Feed[m], to |-> NoAccount, seq |-> m]]
    BY <1>7 DEF Take, Snapshot
  <2>2. event'[Realtime].seq = m BY <1>1, <2>1 DEF TypeOK
  <2>3. \A p \in Publishers \ {Realtime} : event'[p].seq = 0
    BY <2>1 DEF TypeOK, FeedInv
  <2>4. CASE losses = 0
    <3>1. Ahead(m)' BY <1>6, <2>1, <2>4 DEF FeedInv, Ahead
    <3>2. \A x \in Sockets \X SubIds : \A n \in seen[x] : Ahead(n)' /\ n < m
      BY <1>6, <2>1, <2>4 DEF FeedInv
    <3>3. \A x \in Sockets \X SubIds : \A n \in seen'[x] : Ahead(n)' /\ n <= m
      <4> SUFFICES ASSUME NEW x \in Sockets \X SubIds, NEW n \in seen[x]
                   PROVE  Ahead(n)' /\ n <= m
          BY <1>2
      <4>1. n \in Nat /\ m \in Nat BY <1>1
      <4> QED BY <3>2, <4>1
    <3>4. Increasing(ready') BY <2>1, <2>4 DEF FeedInv
    <3>5. /\ Increasing(buffer')
          /\ \A i \in DOMAIN buffer', j \in DOMAIN ready' : buffer'[i] < ready'[j]
      BY <1>6, <2>1, <2>4 DEF FeedInv
    <3> QED BY <2>2, <2>3, <3>1, <3>3, <3>4, <3>5 DEF FeedInv, Increasing
  <2>5. CASE losses # 0 BY <2>1, <2>3, <2>5 DEF FeedInv
  <2> QED BY <2>4, <2>5
<1>8. ASSUME NEW m \in Messages, TakeBad(m) PROVE FeedInv'
  <2>1. /\ buffer # <<>> /\ buffer' = Tail(buffer) /\ UNCHANGED <<ready, losses, event>>
        /\ Idle(Realtime)
    BY <1>8 DEF TakeBad, pubVars
  <2>2. CASE losses = 0
    <3>1. \A x \in Sockets \X SubIds : \A n \in seen'[x] : Ahead(n)'
      BY <1>2, <1>6, <2>1, <2>2 DEF FeedInv
    <3>2. Increasing(ready') BY <2>1, <2>2 DEF FeedInv
    <3>3. /\ Increasing(buffer')
          /\ \A i \in DOMAIN buffer', j \in DOMAIN ready' : buffer'[i] < ready'[j]
      BY <1>6, <2>1, <2>2 DEF FeedInv
    <3> QED BY <2>1, <3>1, <3>2, <3>3 DEF FeedInv, Idle, Increasing
  <2>3. CASE losses # 0 BY <2>1, <2>3 DEF FeedInv
  <2> QED BY <2>2, <2>3
<1>9. CASE LoseLink
  <2>1. losses' # 0 /\ UNCHANGED event BY <1>1, <1>9 DEF LoseLink, pubVars
  <2> QED BY <2>1 DEF FeedInv
<1>10. CASE Resume
  <2>1. buffer' = <<>> /\ UNCHANGED <<ready, losses, event>> /\ Idle(Realtime)
    BY <1>10 DEF Resume, pubVars
  <2>2. DOMAIN buffer' = {} BY <2>1
  <2> QED BY <1>2, <2>1, <2>2 DEF FeedInv, Ahead, Idle, Increasing
<1>11. ASSUME NEW b \in Bells, Ring(b) \/ RingDone(b) PROVE FeedInv'
  <2>1. UNCHANGED <<buffer, ready, losses>> BY <1>11 DEF Ring, RingDone, feedVars
  <2>2. \E e : e.seq = 0 /\ event' = [event EXCEPT ![b] = e]
    <3>1. [stream |-> Bell, to |-> BellTo[b], seq |-> 0].seq = 0 /\ NoEvent.seq = 0
      BY DEF NoEvent
    <3> QED BY <1>11, <3>1 DEF Ring, RingDone, Snapshot, Finish
  <2> QED BY <1>1, <1>2, <2>1, <2>2, OtherEvents, FeedKept
<1> QED
  BY <1>4, <1>5, <1>7, <1>8, <1>9, <1>10, <1>11 DEF Consume

LEMMA InitFeed == Init => FeedInv
<1> SUFFICES ASSUME Init PROVE FeedInv
    OBVIOUS
<1>1. \A p \in Publishers \ {Realtime} : event[p].seq = 0 BY DEF Init, NoEvent
<1>2. DOMAIN buffer = {} /\ Increasing(buffer) BY DEF Init, Increasing
<1>3. Increasing(ready) BY DEF Init, Increasing
<1>4. Idle(Realtime) BY DEF Init, Idle, Publishers
<1>5. \A x \in Sockets \X SubIds : seen[x] = {} BY DEF Init
<1> QED BY <1>1, <1>2, <1>3, <1>4, <1>5 DEF FeedInv

LEMMA StepFeed == IInv /\ FeedInv /\ [Next]_vars => FeedInv' /\ [SentInOrder]_vars
<1> SUFFICES ASSUME IInv, FeedInv, [Next]_vars PROVE FeedInv' /\ SentInOrder
    OBVIOUS
<1>1. TypeOK /\ VisitInv BY DEF IInv, PubInv
<1>2. UNCHANGED seen => SentInOrder BY DEF SentInOrder
<1>3. CASE \E s \in Sockets : Handle(s) \/ Break(s)
  BY <1>1, <1>2, <1>3, HandleFeed
<1>4. CASE \E p \in Publishers : WriteStream(p) BY <1>1, <1>4, WriteStreamFeed
<1>5. CASE Consume \/ LoseLink \/ \E b \in Bells : Ring(b) \/ RingDone(b)
  BY <1>1, <1>2, <1>5, ConsumeFeed
<1>6. CASE UNCHANGED vars
  BY <1>2, <1>6, FeedKept DEF vars, feedVars, pubVars, history, FeedInv
<1> QED BY <1>3, <1>4, <1>5, <1>6 DEF Next

\* Comments, likes and chat reach a subscription in the order of the queue, as
\* long as the broker's connection holds (realtime_consumer.go:
\* consumirMensajes; notification_hub.go: writeStream).
THEOREM FeedIsInOrder == Spec => FeedInOrder
<1>1. Spec => [][SentInOrder]_vars
  BY InitFeed, StepFeed, Invariance, PTL DEF Spec
<1> QED BY <1>1 DEF FeedInOrder, SentInOrder

-----------------------------------------------------------------------------
(* What the broker keeps of the feed. *)

\* What is not settled stands in one line, in the order of the feed: first what
\* the consumer was sent, which is the message it publishes and its buffer.
Line == unacked \o ready
InLine(k) == /\ settled = 1 .. k /\ Len(Line) = Len(Feed) - k
             /\ \A i \in 1 .. Len(Line) : Line[i] = k + i
InHand == IF Idle(Realtime) THEN <<>> ELSE <<event[Realtime].seq>>
LineInv ==
  /\ \E k \in 0 .. Len(Feed) : InLine(k)
  /\ link = "up" => unacked = InHand \o buffer
  /\ link = "down" => unacked = <<>>

LEMMA LineKept ==
  ASSUME LineInv, UNCHANGED <<link, ready, buffer, unacked, settled>>,
         event'[Realtime] = event[Realtime]
  PROVE  LineInv'
<1>1. InHand' = InHand BY DEF InHand, Idle, NoEvent
<1>2. \A k : InLine(k)' <=> InLine(k) BY DEF InLine, Line
<1> QED BY <1>1, <1>2 DEF LineInv

LEMMA LineTyped ==
  TypeOK => /\ Line \in Seq(Messages) /\ Len(Line) = Len(unacked) + Len(ready)
            /\ \A i \in 1 .. Len(unacked) : Line[i] = unacked[i]
            /\ \A i \in 1 .. Len(ready) : Line[Len(unacked) + i] = ready[i]
BY DEF TypeOK, Line

\* On an open channel the consumer settles the head of the line.
LEMMA SettlesFirst ==
  ASSUME TypeOK, LineInv, link = "up", unacked # <<>>, NEW m, m = unacked[1], Settle(m),
         UNCHANGED ready
  PROVE  /\ unacked' = Tail(unacked)
         /\ \E k \in 0 .. Len(Feed) : InLine(k)'
<1>1. PICK k \in 0 .. Len(Feed) : InLine(k) BY DEF LineInv
<1>2. /\ unacked \in Seq(Messages) /\ Len(unacked) \in Nat \ {0}
      /\ ready \in Seq(Messages) /\ Len(Feed) \in Nat
  BY HubAssumption DEF TypeOK
<1>3. PICK i \in DOMAIN unacked : unacked[i] = m /\ unacked' = Seqs!RemoveAt(unacked, i)
  BY DEF Settle
<1>4. \A j \in 1 .. Len(unacked) : unacked[j] = k + j
  BY <1>1, <1>2, LineTyped DEF InLine
<1>5. i = 1 BY <1>2, <1>3, <1>4
<1>6. unacked' = Tail(unacked)
  <2>1. unacked' = SubSeq(unacked, 1, 0) \o SubSeq(unacked, 2, Len(unacked))
    BY <1>2, <1>3, <1>5 DEF Seqs!RemoveAt
  <2> QED BY <1>2, <2>1
<1>7. Line' = Tail(Line)
  <2>1. Line' = Tail(unacked) \o ready BY <1>6 DEF Line
  <2> QED BY <1>2, <2>1 DEF Line
<1>8. Line \in Seq(Messages) /\ Len(Line) \in Nat \ {0}
  BY <1>2, LineTyped
<1>9. settled' = 1 .. (k + 1)
  <2>1. m = k + 1 BY <1>2, <1>4
  <2>2. settled' = settled \cup {m} BY DEF Settle
  <2> QED BY <1>1, <2>1, <2>2 DEF InLine
<1>10. InLine(k + 1)'
  <2>1. /\ Len(Line') = Len(Line) - 1
        /\ \A j \in 1 .. Len(Line') : Line'[j] = Line[j + 1]
    BY <1>7, <1>8
  <2> QED BY <1>1, <1>2, <1>8, <1>9, <2>1 DEF InLine
<1>11. k + 1 \in 0 .. Len(Feed)
  BY <1>1, <1>2, <1>8 DEF InLine
<1> QED BY <1>6, <1>10, <1>11

LEMMA ConsumeLine ==
  ASSUME TypeOK, LineInv, Consume \/ LoseLink
  PROVE  LineInv'
<1>1. /\ Realtime \in Publishers /\ event \in [Publishers -> Event \cup {NoEvent}]
      /\ ready \in Seq(Messages) /\ buffer \in Seq(Messages)
      /\ unacked \in Seq(Messages) /\ link \in {"up", "down"}
  BY DEF TypeOK, Publishers
<1>2. ASSUME Line' = Line, UNCHANGED settled PROVE \E k \in 0 .. Len(Feed) : InLine(k)'
  BY <1>2 DEF LineInv, InLine
<1>3. CASE Deliver
  <2>1. /\ ready # <<>> /\ ready' = Tail(ready)
        /\ buffer' = Append(buffer, Head(ready))
        /\ unacked' = Append(unacked, Head(ready))
        /\ link = "up" /\ UNCHANGED <<link, settled, event>>
    BY <1>3 DEF Deliver, pubVars
  <2>2. Line' = Line
    <3>1. Append(unacked, Head(ready)) \o Tail(ready) = unacked \o ready
      BY <1>1, <2>1
    <3> QED BY <2>1, <3>1 DEF Line
  <2>3. InHand' = InHand BY <2>1 DEF InHand, Idle, NoEvent
  <2>4. unacked' = InHand \o buffer'
    <3>1. unacked = InHand \o buffer /\ InHand \in Seq(Messages)
      <4>1. unacked = InHand \o buffer BY <2>1 DEF LineInv
      <4>2. ~Idle(Realtime) => event[Realtime].seq \in Messages
        <5> SUFFICES ASSUME ~Idle(Realtime) PROVE event[Realtime].seq \in Messages
            OBVIOUS
        <5>1. InHand = <<event[Realtime].seq>> BY DEF InHand
        <5>2. unacked[1] = event[Realtime].seq /\ Len(unacked) \in Nat \ {0}
          BY <1>1, <4>1, <5>1
        <5> QED BY <1>1, <5>2
      <4> QED BY <4>1, <4>2 DEF InHand
    <3>2. Head(ready) \in Messages BY <1>1, <2>1
    <3>3. \A r, t \in Seq(Messages) : \A h \in Messages :
            Append(r \o t, h) = r \o Append(t, h)
      OBVIOUS
    <3>4. Append(InHand \o buffer, Head(ready)) = InHand \o Append(buffer, Head(ready))
      BY <1>1, <3>1, <3>2, <3>3
    <3> QED BY <2>1, <3>1, <3>4
  <2> QED BY <1>2, <2>1, <2>2, <2>3, <2>4 DEF LineInv
<1>4. CASE TakeDone
  <2>1. /\ ~Idle(Realtime) /\ Settle(event[Realtime].seq)
        /\ event' = [event EXCEPT ![Realtime] = NoEvent]
        /\ UNCHANGED <<link, ready, buffer>>
    BY <1>4 DEF TakeDone, Published, Finish
  <2>2. InHand' = <<>> BY <1>1, <2>1 DEF InHand, Idle
  <2>3. CASE link = "up"
    <3>1. unacked = <<event[Realtime].seq>> \o buffer BY <2>1, <2>3 DEF LineInv, InHand
    <3>2. unacked # <<>> /\ unacked[1] = event[Realtime].seq /\ Tail(unacked) = buffer
      BY <1>1, <3>1
    <3>3. unacked' = buffer /\ \E k \in 0 .. Len(Feed) : InLine(k)'
      BY <2>1, <2>3, <3>2, SettlesFirst
    <3>4. buffer = <<>> \o buffer BY <1>1
    <3> QED BY <2>1, <2>2, <2>3, <3>3, <3>4 DEF LineInv
  <2>4. CASE link = "down"
    <3>1. UNCHANGED <<settled, unacked>> BY <2>1, <2>4 DEF Settle
    <3> QED BY <1>2, <2>1, <2>4, <3>1 DEF LineInv, Line
  <2> QED BY <1>1, <2>3, <2>4
<1>5. ASSUME NEW m \in Messages, Take(m) PROVE LineInv'
  <2>1. /\ buffer # <<>> /\ m = Head(buffer) /\ buffer' = Tail(buffer) /\ Idle(Realtime)
        /\ event' = [event EXCEPT ![Realtime] =
                       [stream |-> Feed[m], to |-> NoAccount, seq |-> m]]
        /\ UNCHANGED <<link, ready, unacked, settled>>
    BY <1>5 DEF Take, Snapshot
  <2>2. Feed[m] # NoStream BY <1>5 DEF Take
  <2>3. InHand' = <<m>>
    BY <1>1, <2>1, <2>2 DEF InHand, Idle, NoEvent
  <2>4. link = "up" => unacked = <<m>> \o buffer'
    <3>1. InHand \o buffer = buffer BY <1>1, <2>1 DEF InHand
    <3>2. <<Head(buffer)>> \o Tail(buffer) = buffer BY <1>1, <2>1
    <3> QED BY <2>1, <3>1, <3>2 DEF LineInv
  <2> QED BY <1>2, <2>1, <2>3, <2>4 DEF LineInv, Line
<1>6. ASSUME NEW m \in Messages, TakeBad(m) PROVE LineInv'
  <2>1. /\ buffer # <<>> /\ m = Head(buffer) /\ buffer' = Tail(buffer) /\ Idle(Realtime)
        /\ Settle(m) /\ UNCHANGED <<link, ready, event>>
    BY <1>6 DEF TakeBad, pubVars
  <2>2. InHand' = <<>> BY <2>1 DEF InHand, Idle, NoEvent
  <2>3. CASE link = "up"
    <3>1. unacked = <<>> \o buffer BY <2>1, <2>3 DEF LineInv, InHand
    <3>2. unacked = buffer /\ unacked # <<>> /\ unacked[1] = m BY <1>1, <2>1, <3>1
    <3>3. unacked' = Tail(buffer) /\ \E k \in 0 .. Len(Feed) : InLine(k)'
      BY <2>1, <2>3, <3>2, SettlesFirst
    <3>4. Tail(buffer) = <<>> \o Tail(buffer) BY <1>1, <2>1
    <3> QED BY <2>1, <2>2, <2>3, <3>3, <3>4 DEF LineInv
  <2>4. CASE link = "down"
    <3>1. UNCHANGED <<settled, unacked>> BY <2>1, <2>4 DEF Settle
    <3> QED BY <1>2, <2>1, <2>4, <3>1 DEF LineInv, Line
  <2> QED BY <1>1, <2>3, <2>4
<1>7. CASE LoseLink
  <2>1. /\ link' = "down" /\ unacked' = <<>> /\ ready' = unacked \o ready
        /\ UNCHANGED settled
    BY <1>7 DEF LoseLink
  <2>2. Line' = Line
    <3>1. <<>> \o (unacked \o ready) = unacked \o ready BY <1>1
    <3> QED BY <2>1, <3>1 DEF Line
  <2> QED BY <1>2, <2>1, <2>2 DEF LineInv
<1>8. CASE Resume
  <2>1. /\ link = "down" /\ Idle(Realtime) /\ link' = "up" /\ buffer' = <<>>
        /\ UNCHANGED <<ready, unacked, settled, event>>
    BY <1>8 DEF Resume, pubVars
  <2>2. InHand' = <<>> /\ unacked = <<>> BY <2>1 DEF InHand, Idle, NoEvent, LineInv
  <2> QED BY <1>2, <2>1, <2>2 DEF LineInv, Line
<1> QED BY <1>3, <1>4, <1>5, <1>6, <1>7, <1>8 DEF Consume

LEMMA InitLine == Init => LineInv
<1> SUFFICES ASSUME Init PROVE LineInv
    OBVIOUS
<1>1. Feed \in Seq(Topics \cup {NoStream}) /\ Len(Feed) \in Nat BY HubAssumption
<1>2. Messages = 1 .. Len(Feed) BY <1>1 DEF Messages
<1>3. ready \in Seq(Nat) /\ Len(ready) = Len(Feed) /\ \A i \in 1 .. Len(Feed) : ready[i] = i
  BY <1>1, <1>2 DEF Init
<1>4. Line = ready BY <1>3 DEF Init, Line
<1>5. InLine(0) BY <1>1, <1>3, <1>4 DEF Init, InLine
<1>6. Idle(Realtime) BY DEF Init, Idle, Publishers
<1> QED BY <1>1, <1>5, <1>6 DEF Init, LineInv, InHand

LEMMA StepLine == IInv /\ FeedInv /\ LineInv /\ [Next]_vars => LineInv'
<1> SUFFICES ASSUME IInv, FeedInv, LineInv, [Next]_vars PROVE LineInv'
    OBVIOUS
<1>1. TypeOK BY DEF IInv
<1>2. ASSUME NEW p \in Publishers \ {Realtime}, NEW e, e.seq = 0,
             event' = [event EXCEPT ![p] = e],
             UNCHANGED <<link, ready, buffer, unacked, settled>>
      PROVE  LineInv'
  BY <1>1, <1>2, OtherEvents, LineKept
<1>3. CASE UNCHANGED <<event, feedVars>> BY <1>3, LineKept DEF feedVars
<1>4. NoEvent.seq = 0 BY DEF NoEvent
<1>5. ASSUME NEW s \in Sockets, Handle(s) \/ Break(s) PROVE LineInv'
  <2>1. s \in Publishers \ {Realtime} BY HubAssumption DEF Publishers
  <2>2. ASSUME NEW topic \in Topics, Typing(s, topic) PROVE LineInv'
    <3>1. [stream |-> topic, to |-> NoAccount, seq |-> 0].seq = 0 OBVIOUS
    <3> QED BY <1>2, <2>1, <2>2, <3>1 DEF Typing, Snapshot, feedVars
  <2>3. CASE TypingDone(s)
    BY <1>2, <1>4, <2>1, <2>3 DEF TypingDone, Finish, feedVars
  <2> QED
    BY <1>3, <1>5, <2>2, <2>3
       DEF Handle, ConnectionInit, Anonymous, AckInit, Complete, Subscribe, Leave,
           Remove, Break, pubVars
<1>6. ASSUME NEW p \in Publishers, WriteStream(p) PROVE LineInv'
  BY <1>3, <1>6 DEF WriteStream, Enter, Write, WriteFails, Exit
<1>7. ASSUME NEW b \in Bells, Ring(b) \/ RingDone(b) PROVE LineInv'
  <2>1. b \in Publishers \ {Realtime} BY HubAssumption DEF Publishers
  <2>2. [stream |-> Bell, to |-> BellTo[b], seq |-> 0].seq = 0 OBVIOUS
  <2> QED BY <1>2, <1>4, <1>7, <2>1, <2>2 DEF Ring, RingDone, Snapshot, Finish, feedVars
<1>8. CASE Consume \/ LoseLink BY <1>1, <1>8, ConsumeLine
<1>9. CASE UNCHANGED vars BY <1>3, <1>9 DEF vars, pubVars
<1> QED BY <1>5, <1>6, <1>7, <1>8, <1>9 DEF Next

LEMMA LineInvariance == Spec => [](TypeOK /\ LineInv)
<1>1. IInv => TypeOK BY DEF IInv
<1> QED
  BY <1>1, InitFeed, StepFeed, InitLine, StepLine, Invariance, PTL DEF Spec

\* Through lost connections, unreadable bodies and any number of sockets, the
\* realtime queue is settled in its order: no message before those ahead of it
\* (realtime_consumer.go: consumirMensajes).
FeedSettlesInOrder == \A n \in settled, m \in Messages : m < n => m \in settled

\* The consumer settles its queue in order, for every feed and any number of lost
\* connections (realtime_consumer.go: consumirMensajes).
THEOREM SettledInOrder == Spec => []FeedSettlesInOrder
<1>1. TypeOK /\ LineInv => FeedSettlesInOrder
  <2> SUFFICES ASSUME LineInv, NEW n \in settled, NEW m \in Messages, m < n
               PROVE  m \in settled
      BY DEF FeedSettlesInOrder
  <2>1. PICK k \in 0 .. Len(Feed) : settled = 1 .. k BY DEF LineInv, InLine
  <2>2. m \in Nat /\ m >= 1 BY MessagesAreNumbers
  <2>3. k \in Nat BY HubAssumption
  <2> QED BY <2>1, <2>2, <2>3
<1> QED BY <1>1, LineInvariance, PTL

\* Every message of the realtime queue is settled or still with the broker; and
\* what the consumer publishes on an open channel is a delivery that channel
\* waits for, so that its Ack names a known delivery tag (realtime_consumer.go:
\* consumirMensajes).
FeedIsKept ==
  /\ \A m \in Messages : m \in settled
       <=> ~\E i \in 1 .. Len(unacked \o ready) : (unacked \o ready)[i] = m
  /\ link = "up" /\ ~Idle(Realtime) =>
       \E i \in DOMAIN unacked : unacked[i] = event[Realtime].seq

\* Every message of the realtime queue is settled or still with the broker, and
\* no Ack names a delivery of a channel that is gone (realtime_consumer.go:
\* consumirMensajes; connection_manager.go: handleReconnect).
THEOREM FeedVanishesNever == Spec => []FeedIsKept
<1>1. TypeOK /\ LineInv => FeedIsKept
  <2> SUFFICES ASSUME TypeOK, LineInv PROVE FeedIsKept
      OBVIOUS
  <2>1. PICK k \in 0 .. Len(Feed) : InLine(k) BY DEF LineInv
  <2>2. Len(Feed) \in Nat /\ Messages = 1 .. Len(Feed) BY HubAssumption DEF Messages
  <2>3. ASSUME NEW m \in Messages
        PROVE  m \in settled <=> ~\E i \in 1 .. Len(Line) : Line[i] = m
    <3>1. m \in 1 .. Len(Feed) /\ k \in 0 .. Len(Feed) BY <2>1, <2>2
    <3>2. CASE m <= k
      <4>1. m \in settled BY <2>1, <2>2, <3>1, <3>2 DEF InLine
      <4>2. ~\E i \in 1 .. Len(Line) : Line[i] = m
        BY <2>1, <2>2, <3>1, <3>2 DEF InLine
      <4> QED BY <4>1, <4>2
    <3>3. CASE m > k
      <4>1. m \notin settled BY <2>1, <2>2, <3>1, <3>3 DEF InLine
      <4>2. m - k \in 1 .. Len(Line) /\ k + (m - k) = m
        BY <2>1, <2>2, <3>1, <3>3 DEF InLine
      <4>3. Line[m - k] = m BY <2>1, <4>2 DEF InLine
      <4> QED BY <4>1, <4>2, <4>3
    <3> QED BY <2>2, <3>1, <3>2, <3>3
  <2>4. ASSUME link = "up", ~Idle(Realtime)
        PROVE  \E i \in DOMAIN unacked : unacked[i] = event[Realtime].seq
    <3>1. unacked = <<event[Realtime].seq>> \o buffer BY <2>4 DEF LineInv, InHand
    <3>2. buffer \in Seq(Messages) BY DEF TypeOK
    <3>3. 1 \in DOMAIN unacked /\ unacked[1] = event[Realtime].seq BY <3>1, <3>2
    <3> QED BY <3>3
  <2> QED BY <2>3, <2>4 DEF FeedIsKept, Line
<1> QED BY <1>1, LineInvariance, PTL
=============================================================================
