SPECIFICATION CloseSpec
CONSTANTS
  c1 = c1
  c2 = c2
  c3 = c3
  t1 = t1
  t2 = t2
  None = None
  Timer = Timer
  Call = {c1, c2}
  Invalid = {}
  Topic = {t1}
  TopicOf <- OneTopic
  SizeOf <- Sizes
  CountOf <- Single
  WireOf <- WireSizes
  GroupOverhead = 1
  TotalSizeLnBytes = 4
  MaxBlockSec = 1
  MaxBatchSize = 5
  MaxBatchCount = 2
  HardBatchSize = 7
  MaxSendWorkerCount = 1
  Retries = 1
INVARIANTS
  AccumulatorFlushed
PROPERTIES
  ImplementsDelivery
  CloseReturns
CHECK_DEADLOCK FALSE
