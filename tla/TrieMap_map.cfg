\* Two threads, two values; k1 parts from the others below the root, k2 from k0
\* below level 1.
CONSTANTS
  root_size = 1
  max_depth = 3
  kArrayNodeSizeBits = 1
  kHashWordLength = 8
  kMaxDepth = 10
  Thread = {t1, t2}
  k0 = k0
  k1 = k1
  k2 = k2
  Key = {k0, k1, k2}
  Value = {v1, v2}
  Node = {a1, a2, a3}
  HashFn <- Hash3
  NULL = NULL
  ARRAY = ARRAY
  FREE = FREE
  ABSENT = ABSENT
  PENDING = PENDING
SPECIFICATION Spec
SYMMETRY Symmetry
INVARIANTS
  OneNodePerKey
  UndisturbedInsertKept
PROPERTIES
  ImplementsMap
CHECK_DEADLOCK FALSE
