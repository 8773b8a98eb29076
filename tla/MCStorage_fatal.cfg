SPECIFICATION Spec
CONSTANTS
  Hosts = {h1, h2}
  Workers = {w1, w2}
  NoHost = NoHost
  MaxCalls = 4
  MaxRestarts = 1
SYMMETRY Symmetry
CHECK_DEADLOCK FALSE
INVARIANT NoFatalError
