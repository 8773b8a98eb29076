SPECIFICATION Spec
CONSTANTS
  Clients = {c1}
  Workers = {w1}
  NoCursor = NoCursor
  Cursors = {0}
  PdsSeqs = {1}
  BroadcastCap = 2
  SendCap = 2
  BatchSize = 2
  MaxEvents = 3
SYMMETRY Symmetry
CHECK_DEADLOCK FALSE
INVARIANT ResumePointSound
