SPECIFICATION FairFetchSpec
CONSTANTS
  Consumer = {c1}
  Worker = {w1}
  LogEnd = 4
  MaxFetch = 2
  StartAt = 0
  SharedLock = TRUE
  Style = {"saves"}
  Outcomes = {"ok", "refused"}
  Faults = {"cancel", "trim"}
  Garbled = {2}
INVARIANTS
  FetchType
  GarbledNotPassed
PROPERTIES
  ImplementsPulls
  FetchEnds
  DeliveredUpToGarbled
CHECK_DEADLOCK FALSE
