SPECIFICATION Spec
CONSTANTS
  s1 = s1  s2 = s2  viewer = viewer  other = other  video = video  b1 = b1  b2 = b2
  Bell = Bell  NoStream = NoStream  NoAccount = NoAccount  NoClient = NoClient
  Realtime = Realtime
  Sockets = {s1, s2}
  Accounts = {viewer, other}
  SubIds = {1}
  Topics = {video}
  Feed <- NothingQueued
  Bells = {b1, b2}
  BellTo <- ToEach
  MaxInits = 1
  MaxLosses = 0
SYMMETRY Symmetry
INVARIANTS TypeOK OneWriter
PROPERTIES ImplementsGateway
CHECK_DEADLOCK FALSE
