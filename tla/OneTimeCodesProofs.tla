-------------------------- MODULE OneTimeCodesProofs --------------------------
(***************************************************************************)
(* Theorems about OneTimeCodes, for every set of jobs, addresses and       *)
(* challenges and any number of faults.                                    *)
(***************************************************************************)
EXTENDS OneTimeCodes, TLAPS

-----------------------------------------------------------------------------
(* The inductive invariant. *)

BeforeMail == {"new", "body", "entity", "template", "send"}

\* What the step of a job says of its mail; codes that are only mailed never get
\* to Redis.
StepInv ==
  /\ \A j \in Jobs :
       /\ step[j] = "cache" => Cached(j)
       /\ step[j] \in {"cache", "ok"} => j \in mailed
       /\ IsRequest(j) /\ step[j] \in BeforeMail => j \notin mailed
  /\ \A k \in Keys : redis[k] # NoCode => Cached(redis[k])

\* Between the template and Redis with a code for k.
Between(j, k) == Cached(j) /\ step[j] \in {"send", "cache"} /\ PurposeOf[j] = k

\* An undisturbed purpose has one code in hand, and what was mailed for it last
\* is that code or the one Redis has.
AloneInv ==
  \A k \in Keys \ disturbed : \A i, j \in Jobs : Between(i, k) /\ Between(j, k) => i = j
LastInv ==
  \A k \in Keys \ disturbed, j \in Jobs :
    step[j] = "cache" /\ PurposeOf[j] = k => lastMailed[k] = j

CodeInv == AcceptedCodeWasMailed /\ AnswerTellsMail /\ StepInv
RaceInv == AloneInv /\ LastInv /\ LastMailIsValid
IInv == TypeOK /\ CodeInv /\ RaceInv

-----------------------------------------------------------------------------
(* Lemmas about the constants and the two helpers that answer. *)

LEMMA KeyIsKey == \A j \in Jobs : KeyOf(j) \in Keys
BY DEF KeyOf, Keys

\* The code is kept under the key the auth service will look under, but for the
\* nameless login, whose purpose is the key of no code.
LEMMA KeyIsPurpose ==
  ASSUME NEW j \in Jobs, Cached(j)
  PROVE  IF Nameless(j) THEN /\ KeyOf(j) = <<"register", AddressOf[j]>>
                             /\ PurposeOf[j] = <<"login", NoChallenge>>
         ELSE KeyOf(j) = PurposeOf[j] /\ PurposeOf[j] # <<"login", NoChallenge>>
BY OneTimeCodesAssumption DEF KeyOf, Cached, Nameless

LEMMA PurposeIsKey == \A j \in Jobs : PurposeOf[j] \in Keys
BY OneTimeCodesAssumption DEF Purposes

\* No code is kept under the purpose of the nameless logins.
LEMMA NobodysKey ==
  ASSUME TypeOK, CodeInv, <<"login", NoChallenge>> \in Keys
  PROVE  redis[<<"login", NoChallenge>>] = NoCode
<1> DEFINE k == <<"login", NoChallenge>>
<1> SUFFICES ASSUME redis[k] # NoCode PROVE FALSE
  OBVIOUS
<1>1. redis[k] \in Jobs /\ Cached(redis[k]) BY DEF TypeOK, CodeInv, StepInv
<1>2. IF Nameless(redis[k]) THEN k = <<"register", AddressOf[redis[k]]>>
      ELSE k = PurposeOf[redis[k]]
  BY DEF CodeInv, AcceptedCodeWasMailed
<1> QED BY <1>1, <1>2, KeyIsPurpose

\* An error ends a request and gives a message back.
LEMMA FailEffect ==
  ASSUME TypeOK, NEW j \in Jobs, NEW status \in {"422", "500"}, Fail(j, status),
         step[j] # "done"
  PROVE  /\ step' = [step EXCEPT ![j] = IF IsRequest(j) THEN "done" ELSE "new"]
         /\ answer' \in [Jobs -> {"none", "200", "422", "500"}]
         /\ \A i \in Jobs \ {j} : answer'[i] = answer[i]
         /\ answer'[j] \in IF IsRequest(j) THEN {"422", "500"} ELSE {"none"}
BY DEF Fail, StatusOf, Goto, TypeOK, IsRequest

LEMMA Statuses == \A s \in DOMAIN ErrorStatus : ErrorStatus[s] \in {"422", "500"}
BY DEF ErrorStatus

-----------------------------------------------------------------------------
(* The invariant holds at first and is kept by every step. *)

LEMMA InitIInv == Init => IInv
<1> SUFFICES ASSUME Init PROVE IInv
  OBVIOUS
<1> USE DEF Init
<1>1. TypeOK BY OneTimeCodesAssumption DEF TypeOK, Steps
<1>2. CodeInv
  BY DEF CodeInv, AcceptedCodeWasMailed, AnswerTellsMail, StepInv, BeforeMail
<1>3. RaceInv
  BY DEF RaceInv, AloneInv, LastInv, LastMailIsValid, Between
<1> QED BY <1>1, <1>2, <1>3 DEF IInv

LEMMA TypeStep == TypeOK /\ [Next]_vars => TypeOK'
<1> SUFFICES ASSUME TypeOK, [Next]_vars PROVE TypeOK'
  OBVIOUS
<1> USE DEF TypeOK, Steps, Goto, Fault, history
<1>1. ASSUME NEW j \in Jobs, Start(j) PROVE TypeOK'
  BY <1>1 DEF Start, IsRequest
<1>2. ASSUME NEW j \in Jobs, Decode(j) PROVE TypeOK'
  <2>1. CASE Goto(j, "entity") /\ UNCHANGED answer BY <1>2, <2>1 DEF Decode
  <2>2. CASE Fail(j, ErrorStatus.unprocessableEntity)
    BY <1>2, <2>2, FailEffect, Statuses DEF Decode, IsRequest, ErrorStatus
  <2> QED BY <1>2, <2>1, <2>2 DEF Decode
<1>3. ASSUME NEW j \in Jobs, Validate(j) PROVE TypeOK'
  <2>1. CASE Goto(j, "template") /\ UNCHANGED answer BY <1>3, <2>1 DEF Validate
  <2>2. CASE Fail(j, ErrorStatus.entitiesDataInvalid)
    BY <1>3, <2>2, FailEffect, Statuses DEF Validate, IsRequest, ErrorStatus
  <2> QED BY <1>3, <2>1, <2>2 DEF Validate
<1>4. ASSUME NEW j \in Jobs, ParseTemplate(j) PROVE TypeOK'
  <2>1. disturbed' \subseteq Keys
    BY <1>4, PurposeIsKey DEF ParseTemplate, Disturb
  <2>2. CASE Goto(j, "send") /\ UNCHANGED answer
    BY <1>4, <2>1, <2>2 DEF ParseTemplate
  <2>3. CASE \E s \in {"422", "500"} : Fail(j, s)
    BY <1>4, <2>1, <2>3, FailEffect DEF ParseTemplate, IsRequest
  <2> QED BY <1>4, <2>2, <2>3, Statuses DEF ParseTemplate, ErrorStatus
<1>5. ASSUME NEW j \in Jobs, Send(j) PROVE TypeOK'
  BY <1>5, PurposeIsKey DEF Send, Mail, Cached
<1>6. ASSUME NEW j \in Jobs, SendFails(j) PROVE TypeOK'
  BY <1>6, FailEffect DEF SendFails, IsRequest, ErrorStatus
<1>7. ASSUME NEW j \in Jobs, SendUnreported(j) PROVE TypeOK'
  <2>1. /\ lastMailed' \in [Keys -> Jobs \cup {NoCode}]
        /\ disturbed' \subseteq Keys
        /\ mailed' \subseteq Jobs /\ unreported' \subseteq mailed'
        /\ faults' \in 0 .. MaxFaults
    BY <1>7, PurposeIsKey, OneTimeCodesAssumption DEF SendUnreported, Mail, Disturb
  <2> QED BY <1>7, <2>1, FailEffect DEF SendUnreported, IsRequest, ErrorStatus
<1>8. ASSUME NEW j \in Jobs, Cache(j) PROVE TypeOK'
  BY <1>8, KeyIsKey DEF Cache
<1>9. ASSUME NEW j \in Jobs, CacheFails(j) PROVE TypeOK'
  <2>1. /\ redis' \in [Keys -> Jobs \cup {NoCode}] /\ disturbed' \subseteq Keys
        /\ faults' \in 0 .. MaxFaults
    BY <1>9, KeyIsKey, PurposeIsKey, OneTimeCodesAssumption DEF CacheFails, Disturb
  <2> QED BY <1>9, <2>1 DEF CacheFails
<1>10. ASSUME NEW j \in Jobs, Succeed(j) PROVE TypeOK'
  BY <1>10 DEF Succeed, IsRequest
<1>11. ASSUME NEW j \in Jobs, AckLost(j) PROVE TypeOK'
  BY <1>11, OneTimeCodesAssumption DEF AckLost, IsRequest
<1>12. ASSUME NEW k \in Keys, Expire(k) PROVE TypeOK'
  BY <1>12 DEF Expire
<1>13. CASE Crash
  <2>1. disturbed' \subseteq Keys /\ faults' \in 0 .. MaxFaults
    BY <1>13, PurposeIsKey, OneTimeCodesAssumption DEF Crash
  <2> QED BY <1>13, <2>1 DEF Crash, InHand
<1>14. CASE UNCHANGED vars BY <1>14 DEF vars
<1> QED
  BY <1>1, <1>2, <1>3, <1>4, <1>5, <1>6, <1>7, <1>8, <1>9, <1>10, <1>11, <1>12,
     <1>13, <1>14 DEF Next, Handle

\* What every error path has in common for the codes: no mail, no key.
LEMMA FailCodes ==
  ASSUME TypeOK, CodeInv, NEW j \in Jobs, NEW status \in {"422", "500"},
         Fail(j, status), step[j] \in BeforeMail, UNCHANGED <<redis, mailed, unreported>>
  PROVE  CodeInv'
<1> USE DEF CodeInv, AcceptedCodeWasMailed, AnswerTellsMail, StepInv, BeforeMail,
            Cached, IsRequest
<1>1. /\ step' = [step EXCEPT ![j] = IF IsRequest(j) THEN "done" ELSE "new"]
      /\ \A i \in Jobs \ {j} : answer'[i] = answer[i]
      /\ answer'[j] \in IF IsRequest(j) THEN {"422", "500"} ELSE {"none"}
  BY FailEffect
<1> QED BY <1>1 DEF TypeOK

LEMMA CodeStep == TypeOK /\ CodeInv /\ [Next]_vars => CodeInv'
<1> SUFFICES ASSUME TypeOK, CodeInv, [Next]_vars PROVE CodeInv'
  OBVIOUS
<1> USE DEF CodeInv, AcceptedCodeWasMailed, AnswerTellsMail, StepInv, BeforeMail,
            Cached, IsRequest, Goto, history
<1>1. ASSUME NEW j \in Jobs, Start(j) PROVE CodeInv'
  BY <1>1 DEF Start, TypeOK
<1>2. ASSUME NEW j \in Jobs, Decode(j) PROVE CodeInv'
  <2>1. CASE Goto(j, "entity") /\ UNCHANGED answer
    BY <1>2, <2>1 DEF Decode, TypeOK
  <2>2. CASE Fail(j, ErrorStatus.unprocessableEntity)
    BY <1>2, <2>2, FailCodes DEF Decode, ErrorStatus
  <2> QED BY <1>2, <2>1, <2>2 DEF Decode
<1>3. ASSUME NEW j \in Jobs, Validate(j) PROVE CodeInv'
  <2>1. CASE Goto(j, "template") /\ UNCHANGED answer
    BY <1>3, <2>1 DEF Validate, TypeOK
  <2>2. CASE Fail(j, ErrorStatus.entitiesDataInvalid)
    BY <1>3, <2>2, FailCodes DEF Validate, ErrorStatus
  <2> QED BY <1>3, <2>1, <2>2 DEF Validate
<1>4. ASSUME NEW j \in Jobs, ParseTemplate(j) PROVE CodeInv'
  <2>1. CASE Goto(j, "send") /\ UNCHANGED answer
    BY <1>4, <2>1 DEF ParseTemplate, TypeOK
  <2>2. CASE \E s \in {"422", "500"} : Fail(j, s)
    BY <1>4, <2>2, FailCodes DEF ParseTemplate
  <2> QED BY <1>4, <2>1, <2>2 DEF ParseTemplate, ErrorStatus
<1>5. ASSUME NEW j \in Jobs, Send(j) PROVE CodeInv'
  BY <1>5 DEF Send, Mail, TypeOK
<1>6. ASSUME NEW j \in Jobs, SendFails(j) PROVE CodeInv'
  BY <1>6, FailCodes DEF SendFails, ErrorStatus
<1>7. ASSUME NEW j \in Jobs, SendUnreported(j) PROVE CodeInv'
  <2>1. /\ step[j] = "send" /\ mailed' = mailed \cup {j} /\ redis' = redis
        /\ unreported' = unreported \cup {j}
    BY <1>7 DEF SendUnreported, Mail
  <2>2. /\ step' = [step EXCEPT ![j] = IF IsRequest(j) THEN "done" ELSE "new"]
        /\ \A i \in Jobs \ {j} : answer'[i] = answer[i]
        /\ answer'[j] \in IF IsRequest(j) THEN {"422", "500"} ELSE {"none"}
    BY <1>7, <2>1, FailEffect DEF SendUnreported, ErrorStatus
  <2> QED BY <2>1, <2>2 DEF TypeOK
<1>8. ASSUME NEW j \in Jobs, Cache(j) PROVE CodeInv'
  BY <1>8, KeyIsKey, KeyIsPurpose, OneTimeCodesAssumption DEF Cache, TypeOK
<1>9. ASSUME NEW j \in Jobs, CacheFails(j) PROVE CodeInv'
  <2>1. CASE redis' = redis BY <1>9, <2>1 DEF CacheFails, TypeOK
  <2>2. CASE redis' = [redis EXCEPT ![KeyOf(j)] = j]
    BY <1>9, <2>2, KeyIsKey, KeyIsPurpose, OneTimeCodesAssumption
       DEF CacheFails, TypeOK
  <2> QED BY <1>9, <2>1, <2>2 DEF CacheFails
<1>10. ASSUME NEW j \in Jobs, Succeed(j) PROVE CodeInv'
  BY <1>10 DEF Succeed, TypeOK
<1>11. ASSUME NEW j \in Jobs, AckLost(j) PROVE CodeInv'
  BY <1>11 DEF AckLost, TypeOK
<1>12. ASSUME NEW k \in Keys, Expire(k) PROVE CodeInv'
  BY <1>12 DEF Expire, TypeOK
<1>13. CASE Crash BY <1>13 DEF Crash, InHand, Steps, TypeOK
<1>14. CASE UNCHANGED vars BY <1>14 DEF vars
<1> QED
  BY <1>1, <1>2, <1>3, <1>4, <1>5, <1>6, <1>7, <1>8, <1>9, <1>10, <1>11, <1>12,
     <1>13, <1>14 DEF Next, Handle

\* Steps that leave Redis, mails and the jobs between the template and Redis
\* alone, or take jobs from there that had not been mailed.
LEMMA RaceKept ==
  ASSUME TypeOK, RaceInv, redis' = redis, lastMailed' = lastMailed,
         disturbed \subseteq disturbed',
         \A i \in Jobs : step'[i] \in {"send", "cache"} => step'[i] = step[i],
         \A i \in Jobs : step[i] = "cache" /\ PurposeOf[i] \notin disturbed'
                          => step'[i] = "cache"
  PROVE  RaceInv'
BY DEF RaceInv, AloneInv, LastInv, LastMailIsValid, Between

LEMMA FailRace ==
  ASSUME TypeOK, RaceInv, NEW j \in Jobs, NEW status \in {"422", "500"},
         Fail(j, status), step[j] \in BeforeMail, redis' = redis,
         lastMailed' = lastMailed, disturbed' = disturbed
  PROVE  RaceInv'
<1>1. step' = [step EXCEPT ![j] = IF IsRequest(j) THEN "done" ELSE "new"]
  BY FailEffect DEF BeforeMail
<1> QED BY <1>1, RaceKept DEF BeforeMail, TypeOK

LEMMA RaceStep == TypeOK /\ CodeInv /\ RaceInv /\ [Next]_vars => RaceInv'
<1> SUFFICES ASSUME TypeOK, CodeInv, RaceInv, [Next]_vars PROVE RaceInv'
  OBVIOUS
<1> USE DEF Goto, history
<1>1. ASSUME NEW j \in Jobs, Start(j) PROVE RaceInv'
  BY <1>1, RaceKept DEF Start, TypeOK
<1>2. ASSUME NEW j \in Jobs, Decode(j) PROVE RaceInv'
  <2>1. CASE Goto(j, "entity") BY <1>2, <2>1, RaceKept DEF Decode, TypeOK
  <2>2. CASE Fail(j, ErrorStatus.unprocessableEntity)
    BY <1>2, <2>2, FailRace DEF Decode, ErrorStatus, BeforeMail
  <2> QED BY <1>2, <2>1, <2>2 DEF Decode
<1>3. ASSUME NEW j \in Jobs, Validate(j) PROVE RaceInv'
  <2>1. CASE Goto(j, "template") BY <1>3, <2>1, RaceKept DEF Validate, TypeOK
  <2>2. CASE Fail(j, ErrorStatus.entitiesDataInvalid)
    BY <1>3, <2>2, FailRace DEF Validate, ErrorStatus, BeforeMail
  <2> QED BY <1>3, <2>1, <2>2 DEF Validate
<1>4. ASSUME NEW j \in Jobs, ParseTemplate(j) PROVE RaceInv'
  <2>1. CASE Goto(j, "send") /\ UNCHANGED answer
    <3> DEFINE Other == \E i \in Jobs \ {j} : Between(i, PurposeOf[j])
    <3>1. /\ step[j] = "template" /\ step' = [step EXCEPT ![j] = "send"]
          /\ redis' = redis /\ lastMailed' = lastMailed
          /\ disturbed \subseteq disturbed'
          /\ Other /\ Cached(j) => PurposeOf[j] \in disturbed'
      BY <1>4, <2>1 DEF ParseTemplate, Disturb, Fail, Between, TypeOK
    <3>2. \A i \in Jobs, k \in Keys : Between(i, k)' =>
            IF i = j THEN Cached(j) /\ k = PurposeOf[j] ELSE Between(i, k)
      BY <3>1 DEF Between, Cached, TypeOK
    <3>3. AloneInv'
      <4> SUFFICES ASSUME NEW k \in Keys \ disturbed', NEW a \in Jobs, NEW b \in Jobs,
                          Between(a, k)', Between(b, k)'
                   PROVE  a = b
        BY DEF AloneInv
      <4>1. CASE a = j BY <3>1, <3>2, <4>1
      <4>2. CASE b = j BY <3>1, <3>2, <4>2
      <4>3. CASE a # j /\ b # j BY <3>1, <3>2, <4>3 DEF RaceInv, AloneInv
      <4> QED BY <4>1, <4>2, <4>3
    <3>4. LastInv' BY <3>1 DEF RaceInv, LastInv, TypeOK
    <3>5. LastMailIsValid' BY <3>1 DEF RaceInv, LastMailIsValid, TypeOK
    <3> QED BY <3>3, <3>4, <3>5 DEF RaceInv
  <2>2. CASE UNCHANGED disturbed /\ \E s \in {"422", "500"} : Fail(j, s)
    BY <1>4, <2>2, FailRace DEF ParseTemplate, BeforeMail
  <2> QED BY <1>4, <2>1, <2>2 DEF ParseTemplate, ErrorStatus
<1>5. ASSUME NEW j \in Jobs, Send(j) PROVE RaceInv'
  <2>1. /\ step[j] = "send" /\ redis' = redis /\ disturbed' = disturbed
        /\ step' = [step EXCEPT ![j] = IF Cached(j) THEN "cache" ELSE "ok"]
        /\ lastMailed' = IF Cached(j) THEN [lastMailed EXCEPT ![PurposeOf[j]] = j]
                         ELSE lastMailed
    BY <1>5 DEF Send, Mail
  <2>2. CASE ~Cached(j) BY <2>1, <2>2, RaceKept DEF TypeOK
  <2>3. CASE Cached(j)
    <3>1. \A i \in Jobs, k \in Keys : Between(i, k)' => Between(i, k)
      BY <2>1, <2>3 DEF Between, Cached, TypeOK
    <3>2. AloneInv' BY <2>1, <3>1 DEF RaceInv, AloneInv
    <3>3. LastInv'
      <4> SUFFICES ASSUME NEW k \in Keys \ disturbed, NEW i \in Jobs,
                          step'[i] = "cache", PurposeOf[i] = k
                   PROVE  lastMailed'[k] = i
        BY <2>1 DEF LastInv
      <4>1. CASE i = j BY <2>1, <2>3, <4>1 DEF TypeOK
      <4>2. CASE i # j
        <5>1. Cached(i) /\ step[i] = "cache"
          BY <2>1, <4>2 DEF CodeInv, StepInv, TypeOK
        <5>2. PurposeOf[j] # k
          BY <2>1, <2>3, <4>2, <5>1 DEF RaceInv, AloneInv, Between
        <5> QED BY <2>1, <5>1, <5>2 DEF RaceInv, LastInv, TypeOK
      <4> QED BY <4>1, <4>2
    <3>4. LastMailIsValid'
      BY <2>1, <2>3 DEF RaceInv, LastMailIsValid, TypeOK
    <3> QED BY <3>2, <3>3, <3>4 DEF RaceInv
  <2> QED BY <2>2, <2>3
<1>6. ASSUME NEW j \in Jobs, SendFails(j) PROVE RaceInv'
  BY <1>6, FailRace DEF SendFails, ErrorStatus, BeforeMail
<1>7. ASSUME NEW j \in Jobs, SendUnreported(j) PROVE RaceInv'
  <2>1. /\ step[j] = "send" /\ redis' = redis /\ disturbed \subseteq disturbed'
        /\ \A k \in Keys \ disturbed' : lastMailed'[k] = lastMailed[k]
    BY <1>7 DEF SendUnreported, Mail, Disturb, TypeOK
  <2>2. step' = [step EXCEPT ![j] = IF IsRequest(j) THEN "done" ELSE "new"]
    BY <1>7, <2>1, FailEffect DEF SendUnreported, ErrorStatus
  <2> QED BY <2>1, <2>2
       DEF RaceInv, AloneInv, LastInv, LastMailIsValid, Between, TypeOK
<1>8. ASSUME NEW j \in Jobs, Cache(j) PROVE RaceInv'
  <2>1. Cached(j) /\ KeyOf(j) \in Keys /\ PurposeOf[j] \in Keys
    BY <1>8, KeyIsKey, PurposeIsKey DEF Cache, CodeInv, StepInv
  <2>2. /\ step[j] = "cache" /\ step' = [step EXCEPT ![j] = "ok"]
        /\ redis' = [redis EXCEPT ![KeyOf(j)] = j]
        /\ lastMailed' = lastMailed /\ disturbed' = disturbed
    BY <1>8 DEF Cache
  <2>3. AloneInv' /\ LastInv'
    BY <2>2 DEF RaceInv, AloneInv, LastInv, Between, TypeOK
  <2>4. ASSUME NEW k \in Keys \ disturbed, k # KeyOf(j), k # PurposeOf[j]
        PROVE  \/ redis'[k] \in {lastMailed[k], NoCode} \/ Nameless(redis'[k])
               \/ \E i \in Jobs : step'[i] = "cache" /\ PurposeOf[i] = k
    BY <2>2, <2>4 DEF RaceInv, LastMailIsValid, TypeOK
  <2>5. ASSUME Nameless(j) PROVE LastMailIsValid'
    <3>1. redis'[KeyOf(j)] = j BY <2>1, <2>2 DEF TypeOK
    <3>2. PurposeOf[j] = <<"login", NoChallenge>> /\ PurposeOf[j] # KeyOf(j)
      BY <2>1, <2>5, KeyIsPurpose
    <3>3. redis'[PurposeOf[j]] = NoCode
      BY <2>1, <2>2, <3>2, NobodysKey DEF TypeOK
    <3> QED BY <2>2, <2>4, <2>5, <3>1, <3>3 DEF LastMailIsValid
  <2>6. ASSUME ~Nameless(j) PROVE LastMailIsValid'
    <3>1. KeyOf(j) = PurposeOf[j] BY <2>1, <2>6, KeyIsPurpose
    <3>2. redis'[KeyOf(j)] = j BY <2>1, <2>2 DEF TypeOK
    <3>3. PurposeOf[j] \notin disturbed => lastMailed[PurposeOf[j]] = j
      BY <2>1, <2>2 DEF RaceInv, LastInv
    <3> QED BY <2>2, <2>4, <3>1, <3>2, <3>3 DEF LastMailIsValid
  <2> QED BY <2>3, <2>5, <2>6 DEF RaceInv
<1>9. ASSUME NEW j \in Jobs, CacheFails(j) PROVE RaceInv'
  <2>1. Cached(j) /\ KeyOf(j) \in Keys
    BY <1>9, KeyIsKey DEF CacheFails, CodeInv, StepInv
  <2>2. /\ step[j] = "cache" /\ step' = [step EXCEPT ![j] = "ok"]
        /\ lastMailed' = lastMailed /\ disturbed' = disturbed \cup {PurposeOf[j]}
    BY <1>9, <2>1 DEF CacheFails, Disturb
  <2>3. AloneInv' /\ LastInv'
    BY <2>2 DEF RaceInv, AloneInv, LastInv, Between, TypeOK
  <2>4. ASSUME NEW k \in Keys \ disturbed'
        PROVE  redis'[k] = redis[k] \/ Nameless(redis'[k])
    <3>1. k # PurposeOf[j] BY <2>2, <2>4
    <3>2. redis'[k] = redis[k] \/ (k = KeyOf(j) /\ redis'[k] = j)
      BY <1>9, <2>1 DEF CacheFails, TypeOK
    <3> QED BY <2>1, <3>1, <3>2, KeyIsPurpose
  <2>5. LastMailIsValid' BY <2>2, <2>4 DEF RaceInv, LastMailIsValid, TypeOK
  <2> QED BY <2>3, <2>5 DEF RaceInv
<1>10. ASSUME NEW j \in Jobs, Succeed(j) PROVE RaceInv'
  BY <1>10, RaceKept DEF Succeed, TypeOK
<1>11. ASSUME NEW j \in Jobs, AckLost(j) PROVE RaceInv'
  BY <1>11, RaceKept DEF AckLost, TypeOK
<1>12. ASSUME NEW k \in Keys, Expire(k) PROVE RaceInv'
  BY <1>12 DEF Expire, RaceInv, AloneInv, LastInv, LastMailIsValid, Between, TypeOK
<1>13. CASE Crash
  BY <1>13, RaceKept DEF Crash, InHand, Steps, TypeOK
<1>14. CASE UNCHANGED vars
  BY <1>14 DEF vars, RaceInv, AloneInv, LastInv, LastMailIsValid, Between
<1> QED
  BY <1>1, <1>2, <1>3, <1>4, <1>5, <1>6, <1>7, <1>8, <1>9, <1>10, <1>11, <1>12,
     <1>13, <1>14 DEF Next, Handle

\* The parts of the invariant hold together, at every step.
LEMMA Invariance == Spec => []IInv
<1>1. IInv /\ [Next]_vars => IInv' BY TypeStep, CodeStep, RaceStep DEF IInv
<1> QED BY InitIInv, <1>1, PTL DEF Spec

-----------------------------------------------------------------------------
(* The properties. *)

\* The variables keep their types, and only requests that are over have an
\* answer.
THEOREM TypeCorrect == Spec => []TypeOK
BY Invariance, PTL DEF IInv

\* SetCache follows a mail that went out, under the key of its purpose.
THEOREM AcceptedWasMailed == Spec => []AcceptedCodeWasMailed
BY Invariance, PTL DEF IInv, CodeInv

\* Whatever else runs, the code of an undisturbed purpose's last mail is the
\* valid one.
THEOREM LastMailValid == Spec => []LastMailIsValid
BY Invariance, PTL DEF IInv, RaceInv

\* No 200 without a mail, no error with one unless the provider's answer was
\* lost.
THEOREM ClientIsTold == Spec => []AnswerTellsMail
BY Invariance, PTL DEF IInv, CodeInv
=============================================================================
