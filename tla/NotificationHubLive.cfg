SPECIFICATION FairSpec
CONSTANTS
  s1 = s1  s2 = s2  viewer = viewer  other = other  video = video  b1 = b1  b2 = b2
  Bell = Bell  NoStream = NoStream  NoAccount = NoAccount  NoClient = NoClient
  Realtime = Realtime
  Sockets = {s1}
  Accounts = {viewer, other}
  SubIds = {1}
  Topics = {video}
  Feed <- BadBetween
  Bells = {}
  BellTo <- ToEach
  MaxInits = 2
  MaxLosses = 1
INVARIANTS HubKnowsOpenSockets
PROPERTIES FeedInOrder EveryMessageIsSettled
CHECK_DEADLOCK FALSE
