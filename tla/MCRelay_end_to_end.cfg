SPECIFICATION FairRelaySpec
CONSTANTS
  Clients = {c1}
  NoCursor = NoCursor
  Cursors = {0}
  Numbers = {1, 2, 3, 4}
  PdsSeqs = {}
  Hosts = {h1}
  InitialHosts = {h1}
  Workers = {w1}
  BufferSize = 1
  SaveEvery = 2
  BaseDelay = 1
  MaxDelay = 1
  DbFails = FALSE
  MaxSeq = 2
  MaxRestarts = 1
CHECK_DEADLOCK FALSE
INVARIANTS
  RowsFollowHost
  NothingLostEndToEnd
PROPERTY
  EventsArrive
