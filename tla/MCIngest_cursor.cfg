SPECIFICATION Spec
CONSTANTS
  Hosts = {h1}
  InitialHosts = {h1}
  Workers = {w1}
  BufferSize = 2
  SaveEvery = 1
  BaseDelay = 1
  MaxDelay = 1
  DbFails = TRUE
  MaxSeq = 4
  MaxRestarts = 2
CHECK_DEADLOCK FALSE
INVARIANT
  NothingLostBelowCursor
PROPERTY
  SavedAdvances
