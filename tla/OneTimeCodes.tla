---------------------------- MODULE OneTimeCodes ----------------------------
(***************************************************************************)
(* The mails with a one-time code and the codes Redis accepts afterwards.  *)
(* A job comes from the queue (SendOtpService, in a worker of              *)
(* AuthEventConsumer) or over HTTP: POST /emailotpRegister generates a     *)
(* code, mails it and keeps it in Redis, POST /emailotp mails the code of  *)
(* its caller.  All of them run side by side, and none locks anything:     *)
(* the provider and Redis are two calls, with nothing that ties them.      *)
(***************************************************************************)
EXTENDS Naturals, FiniteSets

CONSTANTS
  Jobs,        \* messages and requests; each has a code of its own
  RouteOf,     \* "event", "register" or "emailotp"
  AddressOf,   \* data.Email
  TemplateOf,  \* TypeTemplated of a message
  ChallengeOf, \* ChallengeID of a message, or NoChallenge
  PurposeOf,   \* what the code is meant for, and under which key the auth
               \* service will look for it: the challenge of a login
  NoChallenge, NoCode,
  MaxFaults    \* bound: crashes, lost acks, Redis errors and unreported mails

Keys == {"register"} \X {AddressOf[j] : j \in Jobs}
          \cup {"login"} \X {ChallengeOf[j] : j \in Jobs}
Purposes == {PurposeOf[j] : j \in Jobs}

ASSUME OneTimeCodesAssumption ==
  /\ RouteOf \in [Jobs -> {"event", "register", "emailotp"}]
  /\ \A j \in Jobs : RouteOf[j] # "event" => ChallengeOf[j] = NoChallenge
  /\ Purposes \subseteq Keys
  \* a login is for its challenge, also when its message forgot to name it: then
  \* nobody can look for the code; all else is for the address
  /\ \A j \in Jobs : RouteOf[j] # "emailotp" =>
       PurposeOf[j] =
         IF RouteOf[j] = "event" /\ TemplateOf[j] = "login_verification"
         THEN <<"login", ChallengeOf[j]>> ELSE <<"register", AddressOf[j]>>
  /\ NoCode \notin Jobs /\ MaxFaults \in Nat

VARIABLES
  step,      \* of a job: the call it makes next
  answer,    \* the status its HTTP client got, or "none"
  redis,     \* the code under a key, named by its job
  mailed,    \* jobs whose mail the provider sent
  faults,
  \* history
  lastMailed,  \* the last job mailed for a purpose, and meant for Redis
  unreported,  \* jobs mailed without the provider's answer arriving
  disturbed    \* purposes with two codes in hand at once, or a call that failed

history == <<lastMailed, unreported, disturbed>>
vars == <<step, answer, redis, mailed, faults, history>>

Steps == {"new", "body", "entity", "template", "send", "cache", "ok", "done", "lost"}

TypeOK ==
  /\ step \in [Jobs -> Steps]
  /\ answer \in [Jobs -> {"none", "200", "422", "500"}]
  /\ redis \in [Keys -> Jobs \cup {NoCode}]
  /\ lastMailed \in [Keys -> Jobs \cup {NoCode}]
  /\ mailed \subseteq Jobs /\ unreported \subseteq mailed
  /\ disturbed \subseteq Keys /\ faults \in 0 .. MaxFaults
  /\ \A j \in Jobs : answer[j] # "none" => RouteOf[j] # "event" /\ step[j] = "done"

Init ==
  /\ step = [j \in Jobs |-> "new"] /\ answer = [j \in Jobs |-> "none"]
  /\ redis = [k \in Keys |-> NoCode] /\ lastMailed = [k \in Keys |-> NoCode]
  /\ mailed = {} /\ unreported = {} /\ disturbed = {} /\ faults = 0

\* Mutant: every code under its address.
KeyByAddress(j) == <<"register", AddressOf[j]>>

\* cacheKey of SendOtpService, and the one of emailotpRegister, which has no
\* challenge.
KeyOf(j) == IF TemplateOf[j] = "login_verification" /\ ChallengeOf[j] # NoChallenge
            THEN <<"login", ChallengeOf[j]>> ELSE <<"register", AddressOf[j]>>

IsRequest(j) == RouteOf[j] # "event"
Cached(j) == RouteOf[j] # "emailotp"
Goto(j, call) == step' = [step EXCEPT ![j] = call]
Fault == faults < MaxFaults /\ faults' = faults + 1
InHand(j) == step[j] \in Steps \ {"new", "done", "lost"}

-----------------------------------------------------------------------------
(* Answers. *)

\* History: the code of j may not be the one Redis has.
Disturb(j) ==
  disturbed' = IF Cached(j) THEN disturbed \cup {PurposeOf[j]} ELSE disturbed

\* The constructors of errors.go: only a template that is not there is a 500.
ErrorStatus == [unprocessableEntity |-> "422", badRequestDataSystem |-> "422",
                entitiesDataInvalid |-> "422", internalServer |-> "500"]

\* ErrorHandler: an AppError carries its status.  The handler of /emailotp makes
\* a 422 of every error, the other one passes it on.
StatusOf(j, status) == IF RouteOf[j] = "emailotp" THEN "422" ELSE status

\* Mutant: the handler answers and goes on.
FailUnreturned(j, status) ==
  Goto(j, "send") /\ answer' = [answer EXCEPT ![j] = StatusOf(j, status)]

\* The use case returns an error: the client gets it, a message is requeued.
Fail(j, status) ==
  IF IsRequest(j)
  THEN Goto(j, "done") /\ answer' = [answer EXCEPT ![j] = StatusOf(j, status)]
  ELSE Goto(j, "new") /\ UNCHANGED answer

\* SendOk, or the ack of a message.
Succeed(j) ==
  /\ step[j] = "ok" /\ Goto(j, "done")
  /\ answer' = IF IsRequest(j) THEN [answer EXCEPT ![j] = "200"] ELSE answer
  /\ UNCHANGED <<redis, mailed, faults, history>>

\* The ack of a message goes nowhere: its connection is gone, and it is
\* delivered again.
AckLost(j) ==
  /\ step[j] = "ok" /\ ~IsRequest(j) /\ Fault
  /\ Goto(j, "new")
  /\ UNCHANGED <<answer, redis, mailed, history>>

-----------------------------------------------------------------------------
(* The calls of a job, in their order. *)

\* A worker takes the message, whose code is there; a request arrives.
Start(j) ==
  /\ step[j] = "new"
  /\ Goto(j, IF IsRequest(j) THEN "body" ELSE "template")
  /\ UNCHANGED <<answer, redis, mailed, faults, history>>

\* The body is JSON, or not.
Decode(j) ==
  /\ step[j] = "body"
  /\ \/ Goto(j, "entity") /\ UNCHANGED answer
     \/ Fail(j, ErrorStatus.unprocessableEntity)
  /\ UNCHANGED <<redis, mailed, faults, history>>

\* NewEntityOtp: address, a code of six characters and the fingerprint, also
\* where the code is not used.
Validate(j) ==
  /\ step[j] = "entity"
  /\ \/ Goto(j, "template") /\ UNCHANGED answer
     \/ Fail(j, ErrorStatus.entitiesDataInvalid)
  /\ UNCHANGED <<redis, mailed, faults, history>>

\* ParseFiles reads the template, each time, and Execute fills it in.
ParseTemplate(j) ==
  /\ step[j] = "template"
  /\ \/ /\ Goto(j, "send") /\ UNCHANGED answer
        /\ IF \E i \in Jobs \ {j} : /\ Cached(i) /\ step[i] \in {"send", "cache"}
                                     /\ PurposeOf[i] = PurposeOf[j]
           THEN Disturb(j) ELSE UNCHANGED disturbed
     \/ /\ UNCHANGED disturbed
        /\ \/ Fail(j, ErrorStatus.internalServer)
           \/ Fail(j, ErrorStatus.badRequestDataSystem)
  /\ UNCHANGED <<redis, mailed, faults, lastMailed, unreported>>

\* The provider sends the mail.
Mail(j) ==
  /\ mailed' = mailed \cup {j}
  /\ lastMailed' = IF Cached(j) THEN [lastMailed EXCEPT ![PurposeOf[j]] = j] ELSE lastMailed

Send(j) ==
  /\ step[j] = "send" /\ Mail(j)
  /\ Goto(j, IF Cached(j) THEN "cache" ELSE "ok")
  /\ UNCHANGED <<answer, redis, faults, unreported, disturbed>>

\* Mutant: the code is kept before it is sent.
SendFailsCached(j) ==
  /\ step[j] = "send" /\ Fail(j, ErrorStatus.badRequestDataSystem)
  /\ redis' = IF Cached(j) THEN [redis EXCEPT ![KeyOf(j)] = j] ELSE redis
  /\ UNCHANGED <<mailed, faults, history>>

SendFails(j) ==
  /\ step[j] = "send" /\ Fail(j, ErrorStatus.badRequestDataSystem)
  /\ UNCHANGED <<redis, mailed, faults, history>>

\* The provider sent it and its answer is lost: an error, like any other.
SendUnreported(j) ==
  /\ step[j] = "send" /\ Fail(j, ErrorStatus.badRequestDataSystem) /\ Mail(j) /\ Fault
  /\ unreported' = unreported \cup {j} /\ Disturb(j)
  /\ UNCHANGED redis

\* SetCache overwrites whatever the key holds, for five minutes.
Cache(j) ==
  /\ step[j] = "cache" /\ Goto(j, "ok")
  /\ redis' = [redis EXCEPT ![KeyOf(j)] = j]
  /\ UNCHANGED <<answer, mailed, faults, history>>

\* Mutant: the error of SetCache is returned.
CacheErrorReturned(j) ==
  /\ step[j] = "cache" /\ Fail(j, ErrorStatus.internalServer) /\ Fault
  /\ Disturb(j)
  /\ UNCHANGED <<redis, mailed, lastMailed, unreported>>

\* Nobody looks at its error, nor knows whether Redis took the code.
CacheFails(j) ==
  /\ step[j] = "cache" /\ Goto(j, "ok") /\ Fault
  /\ Disturb(j)
  /\ redis' \in {redis, [redis EXCEPT ![KeyOf(j)] = j]}
  /\ UNCHANGED <<answer, mailed, lastMailed, unreported>>

\* The five minutes are over.
Expire(k) ==
  /\ redis[k] # NoCode
  /\ redis' = [redis EXCEPT ![k] = NoCode]
  /\ UNCHANGED <<step, answer, mailed, faults, history>>

\* The process dies: requests are lost, messages come back.
Crash ==
  /\ Fault
  /\ step' = [j \in Jobs |-> IF ~InHand(j) THEN step[j]
                             ELSE IF IsRequest(j) THEN "lost" ELSE "new"]
  /\ disturbed' = disturbed \cup {PurposeOf[j] : j \in {i \in Jobs : step[i] = "cache"}}
  /\ UNCHANGED <<answer, redis, mailed, lastMailed, unreported>>

-----------------------------------------------------------------------------
Handle(j) ==
  \/ Decode(j) \/ Validate(j) \/ ParseTemplate(j)
  \/ Send(j) \/ SendFails(j) \/ SendUnreported(j)
  \/ Cache(j) \/ CacheFails(j) \/ Succeed(j) \/ AckLost(j)

Next ==
  \/ \E j \in Jobs : Start(j) \/ Handle(j)
  \/ \E k \in Keys : Expire(k)
  \/ Crash

Spec == Init /\ [][Next]_vars

-----------------------------------------------------------------------------
(* Properties. *)

\* A login whose message names no challenge: SendOtpService keeps its code under
\* the address, where it stands for a registration (NotificationServices.go:57).
Nameless(j) ==
  RouteOf[j] = "event" /\ TemplateOf[j] = "login_verification" /\ ChallengeOf[j] = NoChallenge

\* Redis accepts no code that was not mailed for the purpose its key stands for:
\* a failed mail, a crash or a job of another address or login never leaves one.
\* The one exception is the nameless login, and it goes to its own address.
AcceptedCodeWasMailed ==
  \A k \in Keys : redis[k] # NoCode =>
    /\ redis[k] \in mailed
    /\ IF Nameless(redis[k]) THEN k = <<"register", AddressOf[redis[k]]>>
       ELSE k = PurposeOf[redis[k]]

\* The code of the last mail of a purpose is the one Redis accepts until it
\* expires, whatever jobs of other purposes and other routes do meanwhile:
\* unless a nameless login of the address overwrote it, two jobs of the purpose
\* were between mail and cache at once, or a call between the two failed.
LastMailIsValid ==
  \A k \in Keys \ disturbed :
    \/ redis[k] \in {lastMailed[k], NoCode} \/ Nameless(redis[k])
    \/ \E j \in Jobs : step[j] = "cache" /\ PurposeOf[j] = k

\* The status tells the client whether a mail is on its way: 200 only after the
\* provider took it, an error only without it, or when the provider's own
\* answer was lost.
AnswerTellsMail ==
  \A j \in Jobs :
    /\ answer[j] = "200" => j \in mailed
    /\ answer[j] \in {"422", "500"} /\ j \in mailed => j \in unreported
=============================================================================
