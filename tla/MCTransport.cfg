SPECIFICATION AllSpec
CONSTANTS
  A = A
  B = B
  f1 = f1
  f2 = f2
  f3 = f3
  NULL = NULL
CHECK_DEADLOCK FALSE
INVARIANTS  PackagesKeep
