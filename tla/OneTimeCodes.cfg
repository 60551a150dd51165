SPECIFICATION Spec
CONSTANTS
  e1 = e1  e2 = e2  e3 = e3  r1 = r1  o1 = o1  login = login  address = address
  Jobs = {e1, e2, e3, r1, o1}
  RouteOf <- MCRouteOf
  AddressOf <- MCAddressOf
  TemplateOf <- MCTemplateOf
  ChallengeOf <- MCChallengeOf
  PurposeOf <- MCPurposeOf
  NoChallenge = NoChallenge
  NoCode = NoCode
  MaxFaults = 1
INVARIANTS TypeOK AcceptedCodeWasMailed LastMailIsValid AnswerTellsMail
CHECK_DEADLOCK FALSE
