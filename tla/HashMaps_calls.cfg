CONSTANTS
  Thread = {t1, t2}
  Key = {k1}
  Value = {v0, v1}
  Node = {a1, a2, a3}
  zero = v0
  NULL = NULL
  kOccupied = kOccupied
  kTries = 2
  FREE = FREE
  ABSENT = ABSENT
  PENDING = PENDING
SPECIFICATION FairSpec
INVARIANTS
  TypeOK
  OneOwner
  ReadAlive
  OnePlace
  RetiresPointer
PROPERTIES
  ImplementsMap
  SomeCallReturns
