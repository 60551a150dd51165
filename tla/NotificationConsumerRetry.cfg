SPECIFICATION Spec
CONSTANTS
  m1 = m1  m2 = m2  m3 = m3  m4 = m4 
  login = login  subscribed = subscribed  commented = commented
  w1 = w1  w2 = w2
  NoEvent = NoEvent
  Messages <- RetryMessages
  Events <- RetryEvents
  EventOf <- RetryEventOf
  CategoryOf <- RetryCategoryOf
  Catalog <- MCCatalog
  Workers = {w1, w2}
  Prefetch = 2
  MaxAttempts = 1
  DeadLettering = {TRUE}
  MaxFaults = 1
PROPERTIES AsideAfterMaxAttempts
CHECK_DEADLOCK FALSE
