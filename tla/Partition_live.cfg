SPECIFICATION FairSpec
CONSTANTS
  c1 = c1
  c2 = c2
  Consumer = {c1}
  w1 = w1
  w2 = w2
  Worker = {w1}
  LogEnd = 2
  MaxFetch = 2
  StartAt = 0
  SharedLock = TRUE
  Style = {"saves", "silent", "rewinds"}
  Outcomes = {"ok", "refused", "lostReply"}
  Faults = {"cancel", "trim"}
PROPERTIES
  CloseEnds
  SavedCommitted
CHECK_DEADLOCK FALSE
