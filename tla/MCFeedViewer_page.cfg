SPECIFICATION Spec
CONSTANTS
  Sockets = {s1, s2, s3}
  NoSocket = NoSocket
  Histories <- AnyCard
  Unstored <- TwoUnstored
  FeedLimit = 2
  MaxCount = 3
SYMMETRY Symmetry
CHECK_DEADLOCK FALSE
INVARIANTS
  TypeOK
  NoDuplicates
  ConnectedReceives
  EitherCopyAlike
  DeletionsStayDeletions
  CardsToldInFull
