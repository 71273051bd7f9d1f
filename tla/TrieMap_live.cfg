CONSTANTS
  root_size = 1
  max_depth = 3
  kArrayNodeSizeBits = 1
  kHashWordLength = 8
  kMaxDepth = 10
  Thread = {t1, t2}
  k0 = k0
  k1 = k1
  k2 = k2
  Key = {k0, k2}
  Value = {v1}
  Node = {a1, a2, a3}
  HashFn <- Hash2Deep
  NULL = NULL
  ARRAY = ARRAY
  FREE = FREE
  ABSENT = ABSENT
  PENDING = PENDING
SPECIFICATION FairSpec
PROPERTIES
  SomeCallReturns
CHECK_DEADLOCK FALSE
