CONSTANTS
  Thread = {t0, t1}
  Tid0 = t0
  t0 = t0
  k0 = k0
  k1 = k1
  Key = {k0, k1}
  Value = {v1, v2}
  HashFn <- SameTag
  size_ = 1
  kTagShift = 1
  kTagRange = 2
  root_size_ = 1
  kWarmUp = 1
  NULL = NULL
  ABSENT = ABSENT
  PENDING = PENDING
SPECIFICATION Spec
SYMMETRY Symmetry
INVARIANTS
  TypeOK
  CachedArePresent
  StaleOnlyPastCache
CHECK_DEADLOCK FALSE
