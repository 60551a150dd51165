------------------------ MODULE BrokerConnectionProofs ------------------------
(***************************************************************************)
(* Theorems about BrokerConnection, for every list of consumers, every set *)
(* of refused ones and of users of the pool, and any number of outages and *)
(* of failing channels.                                                    *)
(***************************************************************************)
EXTENDS BrokerConnection, TLAPS

\* Whoever is past Lock holds the mutex of the manager, and nobody else does.
MutexInv ==
  /\ \A c \in Consumers : pc[c] \in {"dial", "open"} => mu = c
  /\ mu # Nobody => pc[mu] \in {"dial", "open"}

\* Only the connection the manager knows is open, and no forgotten one is it; who
\* dials has seen that it is not.
OnlyCurrent ==
  \A k \in Connections : /\ conns[k] = "open" => k = current
                         /\ conns[k] = "forgotten" => k # current
DialInv ==
  \A c \in Consumers : pc[c] = "dial" => \A k \in Connections : conns[k] # "open"

ManagerInv == MutexInv /\ OnlyCurrent /\ DialInv
IInv == TypeOK /\ ManagerInv

LEMMA ConnectionNumbers == 1 \in Connections /\ 0 \notin Connections
BY BrokerAssumption DEF Connections

LEMMA OrderedConsumers == \A i \in DOMAIN Order : Order[i] \in Consumers
BY DEF Consumers

-----------------------------------------------------------------------------
LEMMA InitIInv == Init => IInv
<1> SUFFICES ASSUME Init PROVE IInv
  OBVIOUS
<1> USE DEF Init
<1>1. outages \in 0 .. MaxOutages /\ failures \in 0 .. MaxFailures
  BY BrokerAssumption
<1>2. TypeOK BY <1>1, ConnectionNumbers DEF TypeOK, Phases
<1>3. ManagerInv BY DEF ManagerInv, MutexInv, OnlyCurrent, DialInv
<1> QED BY <1>2, <1>3 DEF IInv

\* Steps of the process and of the pool, which leave the manager alone.
LEMMA ProcessStep ==
  ASSUME IInv,
         \/ ComeBack \/ Boot \/ StopHttp \/ ClosePool \/ PoolCloses \/ Exit
         \/ \E u \in PoolUsers : Acquire(u) \/ Release(u)
  PROVE  IInv'
<1> USE DEF IInv, TypeOK, ManagerInv, MutexInv, OnlyCurrent, DialInv, managerVars
<1>1. CASE ComeBack BY <1>1 DEF ComeBack
<1>2. CASE Declare BY <1>2 DEF Declare, Step, Phases
<1>3. CASE Reopen BY <1>3 DEF Reopen, Step, Phases, Works
<1>4. CASE DeclarePlain BY <1>4 DEF DeclarePlain, Step, Phases
<1>5. CASE Bind BY <1>5 DEF Bind, Step, Phases
<1>6. CASE Started BY <1>6 DEF Started, Phases
<1>7. ASSUME NEW i \in DOMAIN Order, StartConsumer(i) PROVE IInv'
  <2> DEFINE c == Order[i]
  <2>1. c \in Consumers /\ pc[c] = "new" BY <1>7, OrderedConsumers DEF StartConsumer
  <2>2. /\ pc' = [pc EXCEPT ![c] = IF Works(1) /\ shared /\ c \notin Refused
                                   THEN "consuming" ELSE "given up"]
        /\ chan' = IF Works(1) /\ shared /\ c \notin Refused
                   THEN [chan EXCEPT ![c] = 1] ELSE chan
        /\ onShared' \in {onShared, onShared \cup {c}} /\ shared' \in {shared, FALSE}
        /\ UNCHANGED <<phase, server, managerVars, held, outages, failures>>
    BY <1>7 DEF StartConsumer, Goto
  <2> HIDE DEF c
  <2>3. TypeOK' BY <2>1, <2>2, ConnectionNumbers
  <2>4. ManagerInv' BY <2>1, <2>2
  <2> QED BY <2>3, <2>4
<1>8. CASE StopHttp BY <1>8 DEF StopHttp, Phases
<1>9. CASE ClosePool BY <1>9 DEF ClosePool, Phases
<1>10. CASE PoolCloses BY <1>10 DEF PoolCloses, Phases
<1>11. CASE Exit BY <1>11 DEF Exit, Phases
<1>12. ASSUME NEW u \in PoolUsers, Acquire(u) \/ Release(u) PROVE IInv'
  BY <1>12 DEF Acquire, Release
<1> QED
  BY <1>1, <1>2, <1>3, <1>4, <1>5, <1>6, <1>7, <1>8, <1>9, <1>10, <1>11, <1>12
     DEF Boot

\* What happens to the connection from outside of the loops: nothing opens.
LEMMA ConnectionStep ==
  ASSUME IInv, GoDown \/ CloseBroker \/ \E k \in Connections : Notice(k)
  PROVE  IInv'
<1> USE DEF IInv, TypeOK, ManagerInv, MutexInv, OnlyCurrent, DialInv, managerVars
<1>1. CASE GoDown
  <2>1. outages' \in 0 .. MaxOutages
    <3>1. MaxOutages \in Nat BY BrokerAssumption
    <3>2. outages \in 0 .. MaxOutages /\ outages < MaxOutages /\ outages' = outages + 1
      BY <1>1 DEF GoDown
    <3> HIDE DEF IInv
    <3> QED BY <3>1, <3>2
  <2> QED BY <1>1, <2>1 DEF GoDown, Works
<1>2. CASE CloseBroker BY <1>2 DEF CloseBroker, Phases
<1>3. ASSUME NEW k \in Connections, Notice(k) PROVE IInv'
  BY <1>3 DEF Notice
<1> QED BY <1>1, <1>2, <1>3

\* The loop of a consumer: it dials only with the mutex, and only when it saw
\* that the manager's connection is closed.
LEMMA ResumeStep ==
  ASSUME IInv, NEW c \in Consumers, Resume(c)
  PROVE  IInv'
<1> USE DEF IInv, TypeOK, ManagerInv, MutexInv, OnlyCurrent, DialInv, managerVars, Goto
<1>1. CASE StreamEnds(c) BY <1>1 DEF StreamEnds
<1>2. CASE Lock(c)
  <2>1. IsClosed => \A k \in Connections : conns[k] # "open"
    BY ConnectionNumbers DEF IsClosed
  <2>2. TypeOK' BY <1>2 DEF Lock
  <2>3. ManagerInv' BY <1>2, <2>1, BrokerAssumption DEF Lock
  <2> QED BY <2>2, <2>3
<1>3. CASE Dial(c)
  <2>1. PICK k \in Connections : conns' = [conns EXCEPT ![k] = "open"] /\ current' = k
    BY <1>3 DEF Dial
  <2>2. TypeOK' BY <1>3, <2>1 DEF Dial
  <2>3. ManagerInv' BY <1>3, <2>1, BrokerAssumption DEF Dial
  <2> QED BY <2>2, <2>3
<1>4. CASE DialFails(c) BY <1>4, BrokerAssumption DEF DialFails
<1>5. CASE OpenChannel(c)
  <2>1. Works(current) => current \in Connections BY DEF Works
  <2>2. ~Works(current) => \A k \in Connections : conns[k] # "open" BY DEF Works
  <2>3. TypeOK' BY <1>5, <2>1, ConnectionNumbers DEF OpenChannel
  <2>4. ManagerInv' BY <1>5, <2>2, ConnectionNumbers, BrokerAssumption DEF OpenChannel
  <2> QED BY <2>3, <2>4
<1>6. CASE Register(c) BY <1>6 DEF Register
<1>7. CASE Wake(c) BY <1>7 DEF Wake
<1>8. CASE ChannelFails(c)
  <2>1. failures' \in 0 .. MaxFailures
    <3>1. MaxFailures \in Nat BY BrokerAssumption
    <3>2. failures \in 0 .. MaxFailures /\ failures < MaxFailures /\ failures' = failures + 1
      BY <1>8 DEF ChannelFails
    <3> HIDE DEF IInv
    <3> QED BY <3>1, <3>2
  <2>2. /\ current \in Connections /\ current' = 0
        /\ conns' = [conns EXCEPT ![current] = "forgotten"]
        /\ \A k \in Connections : conns'[k] # "open"
    BY <1>8 DEF ChannelFails, Works
  <2>3. TypeOK' BY <1>8, <2>1, <2>2 DEF ChannelFails
  <2>4. OnlyCurrent' /\ DialInv' BY <2>2, ConnectionNumbers
  <2>5. MutexInv' BY <1>8 DEF ChannelFails
  <2> QED BY <2>3, <2>4, <2>5
<1> QED BY <1>1, <1>2, <1>3, <1>4, <1>5, <1>6, <1>7, <1>8 DEF Resume

LEMMA StepIInv == IInv /\ [Next]_vars => IInv'
<1> SUFFICES ASSUME IInv, [Next]_vars PROVE IInv'
  OBVIOUS
<1>1. CASE UNCHANGED vars
  BY <1>1 DEF vars, managerVars, IInv, TypeOK, ManagerInv, MutexInv, OnlyCurrent, DialInv
<1> QED BY <1>1, ProcessStep, ConnectionStep, ResumeStep DEF Next, Stop

\* The parts of the invariant hold together, at every step.
LEMMA Invariance == Spec => []IInv
BY InitIInv, StepIInv, PTL DEF Spec

-----------------------------------------------------------------------------
(* The properties. *)

\* The variables keep their types, and who consumes has a channel.
THEOREM TypeCorrect == Spec => []TypeOK
BY Invariance, PTL DEF IInv


-----------------------------------------------------------------------------
(* How often the process dials. *)

\* While no connection is open, the next one is accounted for.
DialsInv ==
  /\ DialsFollowOutages
  /\ (\A k \in Connections : conns[k] # "open") =>
       \A k \in Connections : conns[k] # "unused" => k <= outages + failures + Closings
  /\ current # 0 => conns[current] # "unused"

LEMMA Counts ==
  TypeOK => /\ outages \in Nat /\ failures \in Nat /\ Closings \in {0, 1}
            /\ \A k \in Connections : k \in Nat
<1>1. MaxOutages \in Nat /\ MaxFailures \in Nat BY BrokerAssumption
<1>2. \A k \in Connections : k \in Nat BY <1>1 DEF Connections
<1>3. Closings \in {0, 1} BY DEF Closings
<1>4. TypeOK => outages \in 0 .. MaxOutages /\ failures \in 0 .. MaxFailures
  BY DEF TypeOK
<1>5. TypeOK => outages \in Nat /\ failures \in Nat BY <1>1, <1>4
<1> QED BY <1>2, <1>3, <1>5

LEMMA InitDials == Init => DialsInv
<1> SUFFICES ASSUME Init PROVE DialsInv
  OBVIOUS
<1>1. outages = 0 /\ failures = 0 /\ Closings = 0 BY DEF Init, Closings
<1>2. \A k \in Connections : conns[k] # "unused" => k = 1 /\ conns[1] = "open"
  BY DEF Init
<1>3. current = 1 /\ conns[1] = "open" BY ConnectionNumbers DEF Init
<1> QED BY <1>1, <1>2, <1>3, ConnectionNumbers DEF DialsInv, DialsFollowOutages

\* A step that opens and closes nothing, or only notices that one is dead.
LEMMA DialsKept ==
  ASSUME DialsInv, Closings' = Closings, outages' = outages, failures' = failures,
         current' \in {0, current},
         \A k \in Connections : /\ conns'[k] = "unused" <=> conns[k] = "unused"
                                /\ conns'[k] = "open" <=> conns[k] = "open",
         current # 0 => current \in Connections
  PROVE  DialsInv'
BY DEF DialsInv, DialsFollowOutages

\* The open connection is gone by an outage or by a failure, which is counted.
LEMMA OneMore ==
  ASSUME TypeOK, DialsInv, Closings' = Closings, current' \in {0, current},
         outages' + failures' = outages + failures + 1,
         outages' \in Nat, failures' \in Nat,
         \A k \in Connections : conns'[k] = "unused" <=> conns[k] = "unused"
  PROVE  DialsInv'
<1>1. \A k \in Connections : conns'[k] # "unused" => k <= outages' + failures' + Closings'
  BY Counts DEF DialsInv, DialsFollowOutages
<1>2. \A k \in Connections : conns'[k] # "unused" => k <= outages' + failures' + 1 + Closings'
  BY <1>1, Counts
<1>3. current' # 0 => conns'[current'] # "unused" BY DEF DialsInv, TypeOK
<1> QED BY <1>1, <1>2, <1>3 DEF DialsInv, DialsFollowOutages

LEMMA StepDials == IInv /\ DialsInv /\ [Next]_vars => DialsInv'
<1> SUFFICES ASSUME IInv, DialsInv, [Next]_vars PROVE DialsInv'
  OBVIOUS
<1>1. /\ TypeOK /\ OnlyCurrent /\ DialInv
      /\ conns \in [Connections -> {"unused", "open", "forgotten", "dead", "closed"}]
      /\ current \in {0} \cup Connections
  BY DEF IInv, ManagerInv, TypeOK
<1>2. CASE GoDown
  <2>1. /\ outages' = outages + 1 /\ failures' = failures /\ Closings' = Closings
        /\ current' = current
        /\ \A k \in Connections : conns'[k] = "unused" <=> conns[k] = "unused"
    BY <1>1, <1>2 DEF GoDown, Works, Closings
  <2>2. outages' \in Nat /\ failures' \in Nat /\ outages' + failures' = outages + failures + 1
    BY <1>1, <2>1, Counts
  <2> QED BY <1>1, <2>1, <2>2, OneMore
<1>3. CASE CloseBroker
  <2>1. /\ outages' = outages /\ failures' = failures /\ current' = current
        /\ Closings = 0 /\ Closings' = 1
        /\ conns' = IF current = 0 THEN conns ELSE [conns EXCEPT ![current] = "closed"]
    BY <1>3 DEF CloseBroker, Closings
  <2>2. \A k \in Connections : /\ conns'[k] # "open"
                               /\ conns'[k] = "unused" <=> conns[k] = "unused"
    BY <1>1, <2>1, ConnectionNumbers DEF OnlyCurrent, DialsInv
  <2>3. \A k \in Connections : conns'[k] # "unused" => k <= outages' + failures' + 1
    BY <1>1, <2>1, <2>2, Counts DEF DialsInv, DialsFollowOutages
  <2>4. \A k \in Connections : conns'[k] # "unused" => k <= outages' + failures' + 1 + Closings'
    BY <1>1, <2>1, <2>3, Counts
  <2> QED BY <1>1, <2>1, <2>2, <2>3, <2>4 DEF DialsInv, DialsFollowOutages
<1>4. ASSUME NEW c \in Consumers, Dial(c) PROVE DialsInv'
  <2>1. PICK k \in Connections :
          /\ conns[k] = "unused" /\ \A j \in 1 .. (k - 1) : conns[j] # "unused"
          /\ conns' = [conns EXCEPT ![k] = "open"] /\ current' = k
    BY <1>4 DEF Dial
  <2>2. outages' = outages /\ failures' = failures /\ Closings' = Closings
    BY <1>4 DEF Dial, Closings
  <2>3. \A j \in Connections : conns[j] # "unused" => j <= outages + failures + Closings
    BY <1>1, <1>4 DEF Dial, DialInv, DialsInv
  <2>4. k <= outages + failures + 1 + Closings
    <3>1. k - 1 \in Connections \/ k = 1
      BY BrokerAssumption DEF Connections
    <3>2. CASE k = 1 BY <1>1, <3>2, Counts
    <3>3. CASE k # 1
      <4>1. k - 1 \in Connections /\ k - 1 \in 1 .. (k - 1)
        BY <3>1, <3>3, BrokerAssumption DEF Connections
      <4>2. k - 1 <= outages + failures + Closings BY <2>1, <2>3, <4>1
      <4> QED BY <1>1, <4>2, Counts
    <3> QED BY <3>2, <3>3
  <2>5. \A j \in Connections : conns'[j] # "unused" => j <= outages' + failures' + 1 + Closings'
    BY <1>1, <2>1, <2>2, <2>3, <2>4, Counts
  <2>6. conns'[k] = "open" BY <1>1, <2>1
  <2> QED BY <2>1, <2>5, <2>6 DEF DialsInv, DialsFollowOutages
<1>5. ASSUME NEW k \in Connections, Notice(k) PROVE DialsInv'
  BY <1>1, <1>5, DialsKept DEF Notice, Closings
<1>6. CASE /\ UNCHANGED <<conns, outages, failures>> /\ current' \in {0, current}
           /\ Closings' = Closings
  BY <1>1, <1>6, DialsKept
<1>7. ASSUME Boot \/ StopHttp \/ ClosePool \/ PoolCloses \/ Exit PROVE DialsInv'
  <2>1. UNCHANGED <<conns, outages, failures, current>> /\ Closings' = Closings
    BY <1>7
       DEF Boot, Declare, Reopen, DeclarePlain, Bind, Step, Started, StartConsumer,
           StopHttp, ClosePool, PoolCloses, Exit, managerVars, Closings
  <2> QED BY <1>6, <2>1
<1>8. ASSUME NEW c \in Consumers, Resume(c) PROVE DialsInv'
  <2>1. CASE ChannelFails(c)
    <3>1. /\ outages' = outages /\ failures' = failures + 1 /\ current' = 0
          /\ Closings' = Closings
          /\ \A k \in Connections : conns'[k] = "unused" <=> conns[k] = "unused"
      BY <1>1, <2>1 DEF ChannelFails, Works, Closings
    <3>2. outages' \in Nat /\ failures' \in Nat /\ outages' + failures' = outages + failures + 1
      BY <1>1, <3>1, Counts
    <3> QED BY <1>1, <3>1, <3>2, OneMore
  <2>2. \/ Dial(c) \/ ChannelFails(c)
        \/ UNCHANGED <<conns, outages, failures, phase>> /\ current' \in {0, current}
    BY <1>8
       DEF Resume, StreamEnds, Lock, DialFails, OpenChannel, Register, Wake, managerVars
  <2> QED BY <1>4, <1>6, <2>1, <2>2 DEF Closings
<1>9. CASE ComeBack \/ (\E u \in PoolUsers : Acquire(u) \/ Release(u)) \/ UNCHANGED vars
  BY <1>6, <1>9 DEF ComeBack, Acquire, Release, vars, managerVars, Closings
<1> QED BY <1>2, <1>3, <1>5, <1>7, <1>8, <1>9 DEF Next, Stop

\* One dial per outage and per failing channel, and no other connection is ever leaked by consumers that redial
\* at once (rabbitmq_connection_manager.go: Channel).
THEOREM OneDialPerOutage == Spec => []DialsFollowOutages
<1>1. DialsInv => DialsFollowOutages BY DEF DialsInv
<1> QED BY <1>1, InitDials, StepDials, Invariance, PTL DEF Spec

\* One connection for all consumers, however many of them redial at once.
THEOREM OneConnectionAlways == Spec => []OneConnection
<1>1. IInv /\ DialsFollowOutages => OneConnection
  BY DEF IInv, ManagerInv, OnlyCurrent, OneConnection, Consuming, Works
<1> QED BY <1>1, Invariance, OneDialPerOutage, PTL

\* The bound on connections is none: whoever is to dial finds a number left, so
\* that only an outage keeps a consumer waiting (ConsumersReturn relies on it).
DialHasNumber ==
  (\E c \in Consumers : pc[c] = "dial") => \E k \in Connections : conns[k] = "unused"

\* DialHasNumber in every reachable state.
THEOREM BoundNeverBlocks == Spec => []DialHasNumber
<1>1. IInv /\ DialsInv => DialHasNumber
  <2> SUFFICES ASSUME IInv, DialsInv, NEW c \in Consumers, pc[c] = "dial"
               PROVE  \E k \in Connections : conns[k] = "unused"
    BY DEF DialHasNumber
  <2>1. MaxOutages + MaxFailures + 2 \in Connections BY BrokerAssumption DEF Connections
  <2>2. \A k \in Connections : conns[k] # "open" BY DEF IInv, ManagerInv, DialInv
  <2>3. /\ outages <= MaxOutages /\ outages \in Nat /\ MaxOutages \in Nat
        /\ failures <= MaxFailures /\ failures \in Nat /\ MaxFailures \in Nat
        /\ Closings \in {0, 1}
    <3>1. MaxOutages \in Nat /\ MaxFailures \in Nat BY BrokerAssumption
    <3>2. TypeOK /\ outages \in 0 .. MaxOutages /\ failures \in 0 .. MaxFailures
      BY DEF IInv, TypeOK
    <3>3. outages \in Nat /\ failures \in Nat /\ Closings \in {0, 1} BY <3>2, Counts
    <3> QED BY <3>1, <3>2, <3>3
  <2>4. ~(MaxOutages + MaxFailures + 2 <= outages + failures + Closings) BY <2>3
  <2> QED BY <2>1, <2>2, <2>4 DEF DialsInv
<1> QED BY <1>1, InitDials, StepDials, Invariance, PTL DEF Spec
=============================================================================
