SPECIFICATION Spec
CONSTANTS
  e1 = e1  e2 = e2  k1 = k1  p1 = p1  p2 = p2  w1 = w1  w2 = w2
  NoKey = NoKey  NoEvent = NoEvent
  Events = {e1, e2}
  Keys = {k1}
  KeyOf <- OneKey
  Processes = {p1, p2}
  Workers = {w1, w2}
  Home <- Apart
  LongOutage = TRUE
  MaxFaults = 1
SYMMETRY Symmetry
INVARIANTS
  TypeOK QuietKeysLoseNothing QuietKeysAreScheduled LockExcludes CountedOnce
CHECK_DEADLOCK FALSE
