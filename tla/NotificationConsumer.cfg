SPECIFICATION FairSpec
CONSTANTS
  m1 = m1  m2 = m2  m3 = m3  m4 = m4 
  login = login  subscribed = subscribed  commented = commented
  w1 = w1  w2 = w2
  NoEvent = NoEvent
  Messages <- MCMessages
  Events <- MCEvents
  EventOf <- MCEventOf
  CategoryOf <- MCCategoryOf
  Catalog <- MCCatalog
  Workers = {w1, w2}
  Prefetch = 2
  MaxAttempts = 1
  DeadLettering = {TRUE, FALSE}
  MaxFaults = 1
INVARIANTS
  TypeOK AckedIsKept OnePlace OneHandler OneRowPerEvent
  DeliveriesMatchCategory PushOnceAfterStore
PROPERTIES EveryMessageSettles ImplementsContract
CHECK_DEADLOCK FALSE
