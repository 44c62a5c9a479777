SPECIFICATION FairSpec
CONSTANTS
  t1 = t1
  t2 = t2
  t3 = t3
  e1 = e1
  e2 = e2
  e3 = e3
  Threads = {t1, t2}
  Entries = {e1, e2}
  Keys = {1, 2}
  NoEntry = NoEntry
  NoThread = NoThread
  NoBucket = NoBucket
  LongKeys = {}
  Strings = {}
  NullKey = 1
  Hash <- Collide
  Content <- OwnWord
  Compare = "hash64_cmp"
  Sizes <- TwoBuckets
  UIntMod = 1024
  MaxGens = 1
  Threshold = 1
  MaxUsed = 2
  Unsafe = FALSE
INVARIANTS TypeOK EachEntryOnce
PROPERTIES ImplementsEntryTable SomeCallReturns
