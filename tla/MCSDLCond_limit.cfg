SPECIFICATION FairSpec
CONSTANTS
  t1 = t1
  t2 = t2
  t3 = t3
  None = None
  Threads = {t1, t2, t3}
  Timed = {t1}
PROPERTIES LimitedWaitReturns
CHECK_DEADLOCK FALSE
