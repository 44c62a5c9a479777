SPECIFICATION Spec
CONSTANTS
  t1 = t1
  t2 = t2
  t3 = t3
  NoThread = NoThread
  Threads = {t1, t2, t3}
  MayFail = TRUE
SYMMETRY Symm
INVARIANTS DisabledWithoutTable
CHECK_DEADLOCK FALSE
