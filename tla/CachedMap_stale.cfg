CONSTANTS
  Thread = {t0}
  Tid0 = t0
  t0 = t0
  k0 = k0
  k1 = k1
  Key = {k0}
  Value = {v1, v2}
  HashFn <- Alone
  size_ = 1
  kTagShift = 1
  kTagRange = 2
  root_size_ = 1
  kWarmUp = 2
  NULL = NULL
  ABSENT = ABSENT
  PENDING = PENDING
SPECIFICATION Spec
INVARIANTS
  RegularReads
CHECK_DEADLOCK FALSE
