SPECIFICATION Spec
CONSTANTS
  MaxRetries = 3
  MaxDeletes = 3
  Faults = {"request", "reply", "busy", "soft", "page"}
INVARIANTS
  TypeOK
  DeletedGone
PROPERTIES
  CreatedMine
CHECK_DEADLOCK FALSE
