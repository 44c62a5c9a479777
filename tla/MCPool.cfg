SPECIFICATION Spec
CONSTANTS
  t1 = t1
  t2 = t2
  t3 = t3
  Threads = {t1, t2, t3}
  PSz = 2
  ObjSz = 1
  CountMod = 2
  Start = 10
  Foreign = {9, 12}
SYMMETRY Symm
INVARIANTS TypeOK IInv NoDoubleLending NoLeak PutNeverWeird
PROPERTY ImplementsObjectPool
