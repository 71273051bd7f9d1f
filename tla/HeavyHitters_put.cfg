CONSTANTS
  i0 = i0
  i1 = i1
  i2 = i2
  i3 = i3
  i4 = i4
  i5 = i5
  Item = {i0, i1, i2, i3, i4, i5}
  NULLITEM = NULLITEM
  hash <- Hashes
  hashsize = 3
  _size = 5
  kListed = 2
  kMaxPuts = 8
  Few = {i1, i2, i3, i4}
  m = 3
  narrow <- AllFit
  bsize = 3
  Counter = {c1, c2, c3, c4}
SPECIFICATION Spec
SYMMETRY Symmetry
INVARIANTS
  TypeOK
  FoundWhereItIs
  ChainsEnd
  WithinDelta
  HotTracked
  HotListed
  IndexMatches
  NoDuplicates
  ErrorIsRounds
PROPERTIES
  ImplementsSpaceSaving
  ImplementsMisraGries
CHECK_DEADLOCK FALSE
