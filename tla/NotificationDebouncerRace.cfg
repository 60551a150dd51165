SPECIFICATION Spec
CONSTANTS
  e1 = e1  e2 = e2  k1 = k1  p1 = p1  p2 = p2  w1 = w1  w2 = w2
  NoKey = NoKey  NoEvent = NoEvent
  Events = {e1, e2}
  Keys = {k1}
  KeyOf <- OneKey
  Processes = {p1}
  Workers = {w1, w2}
  Home <- Together
  LongOutage = FALSE
  MaxFaults = 0
INVARIANTS NothingIsLost
CHECK_DEADLOCK FALSE
