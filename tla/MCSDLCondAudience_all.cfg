SPECIFICATION AudienceSpec
CONSTANTS
  t1 = t1
  t2 = t2
  t3 = t3
  None = None
  Threads = {t1, t2, t3}
  Timed = {t1, t2, t3}
INVARIANTS SignalsAccounted RestartsAWaiter
PROPERTIES ImplementsCondVar SignalReturns WokenReturns
CHECK_DEADLOCK FALSE
