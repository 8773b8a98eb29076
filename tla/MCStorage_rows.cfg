SPECIFICATION Spec
CONSTANTS
  Hosts = {h1, h2}
  Workers = {w1, w2}
  NoHost = NoHost
  MaxCalls = 5
  MaxRestarts = 1
SYMMETRY Symmetry
CHECK_DEADLOCK FALSE
INVARIANTS EventsKeepTheirHost CursorsKeepTheirHost
PROPERTY SafeOnceSettled
