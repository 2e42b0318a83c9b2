SPECIFICATION FairSpec
CONSTANTS
  p1 = p1
  p2 = p2
  Partition = {p1}
  Grace = 1
  SmartStop = TRUE
  Replies = {"ok", "fail"}
  Enders = {"delete"}
INVARIANTS
  TypeOK
  NoOrphan
  NothingServedAfterShutdown
PROPERTIES
  ShutdownEnds
  AssignedServed
  RevokedClosed
  CutOffStops
CHECK_DEADLOCK FALSE
