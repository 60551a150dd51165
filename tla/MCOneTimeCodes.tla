--------------------------- MODULE MCOneTimeCodes ---------------------------
(* Small instances of OneTimeCodes for TLC. *)
EXTENDS OneTimeCodes, TLC

CONSTANTS e1, e2, e3, r1, o1, login, address

\* Of one address: the message of a registration, the one of a login and one of a
\* login that names no challenge, a request for a new code and one that only mails.
MCRouteOf ==
  [j \in Jobs |-> IF j = r1 THEN "register" ELSE IF j = o1 THEN "emailotp" ELSE "event"]
MCAddressOf   == [j \in Jobs |-> address]
MCTemplateOf  == [j \in Jobs |-> IF j \in {e2, e3} THEN "login_verification" ELSE "register"]
MCChallengeOf == [j \in Jobs |-> IF j = e2 THEN login ELSE NoChallenge]
MCPurposeOf ==
  [j \in Jobs |-> IF j \in {e2, e3} THEN <<"login", MCChallengeOf[j]>> ELSE <<"register", address>>]
=============================================================================
