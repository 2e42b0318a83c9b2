SPECIFICATION Spec
CONSTANTS
  c1 = c1
  c2 = c2
  Consumer = {c1}
  w1 = w1
  w2 = w2
  Worker = {w1, w2}
  LogEnd = 3
  MaxFetch = 2
  StartAt = 0
  SharedLock = TRUE
  Style = {"saves"}
  Outcomes = {"ok", "refused"}
  Faults = {"cancel", "crash", "trim"}
INVARIANTS
  AtLeastOnce
CHECK_DEADLOCK FALSE
