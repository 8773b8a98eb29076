SPECIFICATION FairSpec
CONSTANTS
  Clients = {c1}
  Workers = {w1}
  NoCursor = NoCursor
  Cursors = {0}
  PdsSeqs = {1}
  BroadcastCap = 1
  SendCap = 2
  BatchSize = 1
  MaxEvents = 2
CHECK_DEADLOCK FALSE
PROPERTIES
  DeadWriterLeaves
  NothingStaysQueued
  NobodyBlocks
