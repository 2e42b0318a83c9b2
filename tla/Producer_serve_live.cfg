SPECIFICATION ServeSpec
CONSTANTS
  c1 = c1
  c2 = c2
  c3 = c3
  t1 = t1
  t2 = t2
  None = None
  Timer = Timer
  Call = {c1, c2, c3}
  Invalid = {}
  Topic = {t1, t2}
  TopicOf <- TwoTopics
  SizeOf <- Sizes
  CountOf <- Single
  WireOf <- WireSizes
  GroupOverhead = 1
  TotalSizeLnBytes = 3
  MaxBlockSec <- Forever
  MaxBatchSize = 4
  MaxBatchCount = 2
  HardBatchSize = 5
  MaxSendWorkerCount = 1
  Retries = 1
PROPERTIES
  EveryLogResolved
  EveryCallReturns
