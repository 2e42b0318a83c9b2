SPECIFICATION ServeSpec
CONSTANTS
  c1 = c1
  c2 = c2
  c3 = c3
  t1 = t1
  t2 = t2
  None = None
  Timer = Timer
  Call = {c1, c2, c3}
  Invalid = {}
  Topic = {t1}
  TopicOf <- OneTopic
  SizeOf <- Sizes
  CountOf <- Single
  WireOf <- WireSizes
  GroupOverhead = 1
  TotalSizeLnBytes = 7
  MaxBlockSec = 1
  MaxBatchSize = 6
  MaxBatchCount = 2
  HardBatchSize = 8
  MaxSendWorkerCount = 2
  Retries = 1
INVARIANTS
  TypeOK
  SingleOwner
  AtMostOneCallback
  NothingDropped
  QuotaConserved
  QuotaCap
  SendCap
  BatchSizeLimit
PROPERTIES
  SealedFrozen
