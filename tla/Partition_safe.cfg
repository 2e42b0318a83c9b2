SPECIFICATION Spec
CONSTANTS
  c1 = c1
  c2 = c2
  Consumer = {c1, c2}
  w1 = w1
  w2 = w2
  Worker = {w1, w2}
  LogEnd = 2
  MaxFetch = 1
  StartAt = 0
  SharedLock = FALSE
  Style = {"saves"}
  Outcomes = {"ok", "falseOk"}
  Faults = {"crash", "trim"}
INVARIANTS
  TypeOK
  LossAccounted
  OneOpenProcess
SYMMETRY Symmetric
CHECK_DEADLOCK FALSE
