SPECIFICATION Spec
CONSTANTS
  m1 = m1  m2 = m2  m3 = m3  m4 = m4  m5 = m5  w1 = w1  w2 = w2
  NoMessage = NoMessage
  Messages = {m1, m2, m4}
  KindOf <- MCKindOf
  Workers = {w1, w2}
  DeadLettering = {TRUE}
  MaxTimers = 2
  MaxFaults = 0
INVARIANTS OtpIsNotSetAside
CHECK_DEADLOCK FALSE
