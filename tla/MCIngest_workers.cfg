SPECIFICATION FairSpec
CONSTANTS
  Hosts = {h1}
  InitialHosts = {h1}
  Workers = {w1, w2}
  BufferSize = 2
  SaveEvery = 2
  BaseDelay = 1
  MaxDelay = 1
  DbFails = FALSE
  MaxSeq = 4
  MaxRestarts = 0
CHECK_DEADLOCK FALSE
INVARIANTS
  TypeOK
  StreamOrder
PROPERTIES
  StopReturns
  ClientsEnd
  CatchesUp
  RunningLosesNothing
