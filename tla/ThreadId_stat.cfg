CONSTANTS
  Thread = {t1, t2, t3, t4}
  kMaxNumThreads = 3
  WordSize = 10
  kInvalidId = kInvalidId
  stat_size = 2
SPECIFICATION Spec
SYMMETRY Symmetry
INVARIANTS
  StatEntryExists
CHECK_DEADLOCK FALSE
