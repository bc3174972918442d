SPECIFICATION FairSpec
CONSTANTS
  t1 = t1
  t2 = t2
  None = None
  Timers = {t1, t2}
  Intervals = {3}
  Returns = {0, 1}
  W = 12
  Slice = 2
  Resolution = 2
  Start = 4
  MaxLag = 4
  MaxLate = 2
INVARIANTS ListSound AgeKnown
PROPERTIES NotEarly Punctual EachCalled
