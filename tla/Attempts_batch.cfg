SPECIFICATION Spec
CONSTANTS
  Answers = {0, 200, 400, 401, 403, 404, 413, 429, 500}
  BaseRetryBackoffMs = 2
  MaxRetryBackoffMs = 3
  Retries = 3
  MaxReservedAttempts = 2
  Int64s = 8
INVARIANTS
  TypeOK
  ResultFaithful
  SendBudget
CHECK_DEADLOCK FALSE
