SPECIFICATION MonitorSpec
CONSTANTS
  Workers = {w1, w2}
  Rejections = {"no_signature"}
  MaxCommits = 2
  Hosts = {h1, h2}
SYMMETRY Symmetry
INVARIANTS
  NeverOvercounted
  VerdictsExact
  VerificationVerdict
  WorstWins
  IngestVerdict
