SPECIFICATION OrderlySpec
CHECK_DEADLOCK FALSE
CONSTANTS
  t1 = t1
  t2 = t2
  t3 = t3
  e1 = e1
  e2 = e2
  e3 = e3
  Threads = {t1, t2}
  Entries = {e1, e2}
  Keys = {4, 5}
  NoEntry = NoEntry
  NoThread = NoThread
  NoBucket = NoBucket
  LongKeys = {}
  Strings = {5}
  NullKey = 4
  Hash <- KeyHash
  Content <- OwnWord
  Compare = "hash64_cmp"
  Sizes <- ThreeBuckets
  UIntMod = 1024
  MaxGens = 2
  Threshold = 2
  MaxUsed = 3
  Unsafe = FALSE
SYMMETRY Symm
INVARIANTS WaitsEnd CountCoversOccupied
PROPERTY ChangesUnderLock
