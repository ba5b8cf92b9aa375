\* All operations by three callers, any of which may be dropped at an await.
SPECIFICATION FairSpec
CONSTANTS
  Tasks = {t1, t2, t3}
  Keys = {k1}
  MaxCalls = 4
  NoTask = NoTask
INVARIANTS BaseInv InitOnce SingleIOPerKey SpinnerHasInitializer
PROPERTIES FreshResult CallsReturn
CHECK_DEADLOCK FALSE
