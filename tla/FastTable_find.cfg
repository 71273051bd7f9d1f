CONSTANTS
  Thread = {t1, t2}
  k0 = k0
  k1 = k1
  k2 = k2
  Key = {k0, k1, k2}
  Node = {a1, a2, a3}
  HashFn <- Hashes
  size_ = 1
  kTagShift = 1
  kTagRange = 2
  NULL = NULL
  FREE = FREE
SPECIFICATION Spec
SYMMETRY Symmetry
INVARIANTS
  FoundAlive
CHECK_DEADLOCK FALSE
