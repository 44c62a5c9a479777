SPECIFICATION FairSpec
CONSTANTS
  t1 = t1
  t2 = t2
  t3 = t3
  e1 = e1
  e2 = e2
  e3 = e3
  Threads = {t1}
  Entries = {e1, e2, e3}
  Keys = {1, 2, 3}
  NoEntry = NoEntry
  NoThread = NoThread
  NoBucket = NoBucket
  LongKeys = {3}
  Strings = {}
  NullKey = 1
  Hash <- KeyHash
  Content <- OwnWord
  Compare = "memcmp"
  Sizes <- Grow
  UIntMod = 1024
  MaxGens = 3
  Threshold = 1
  MaxUsed = 3
  Unsafe = TRUE
INVARIANTS NoFault EachEntryOnce Placement
PROPERTIES ImplementsEntryTable SomeCallReturns
