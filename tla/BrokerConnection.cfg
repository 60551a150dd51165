SPECIFICATION FairSpec
CONSTANTS
  auth = auth  notify = notify  realtime = realtime
  PoolUsers = {notify}
  Nobody = Nobody
  Order <- StartOrder
  Refused = {realtime}
  OldQueue = TRUE
  MaxOutages = 2
  MaxFailures = 1
INVARIANTS TypeOK OneConnection
PROPERTIES ConsumersReturn StopCompletes
CHECK_DEADLOCK FALSE
