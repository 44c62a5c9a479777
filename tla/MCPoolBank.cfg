SPECIFICATION Spec
CONSTANTS
  Threads = {t1, t2}
  NPools = {0, 1, 2}
  PoolSz = 2
  CountMod = 3
  MaxBanks = 2
  Foreign = Foreign
SYMMETRY Symm
INVARIANTS TypeOK ObjectsInOnePlace PutAnswersRight BlocksAccounted
PROPERTIES NullMeansEmpty OnlyLateFailureLeaks
CHECK_DEADLOCK TRUE
