SPECIFICATION FairSpec
CONSTANTS
  t1 = t1
  t2 = t2
  t3 = t3
  NoThread = NoThread
  Threads = {t1, t2, t3}
  MayFail = TRUE
INVARIANTS TypeOK HeaderBankOnce EnabledWithoutBank EnabledNeedsRefusal
INVARIANTS ReportFindsTable OnlyFailureReturns
PROPERTIES EnabledStays SomeCallReturns
CHECK_DEADLOCK FALSE
