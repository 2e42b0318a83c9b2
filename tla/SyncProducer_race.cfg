SPECIFICATION Spec
CONSTANTS
  c1 = c1
  Caller = {c1}
  Requests <- Batches
  LogOverhead = 1
  MaxValue = 10
  MaxLogSize = 20
  r1 = r1
  r2 = r2
  r3 = r3
  Reset = {r1, r2, r3}
  First = First
  None = None
  Torn = Torn
INVARIANTS
  TypeOK
  ModeKept
  Fresh
SYMMETRY Symmetric
