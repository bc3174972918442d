SPECIFICATION Spec
CONSTANTS
  f1 = f1
  f2 = f2
  small = small
  large = large
  NoFrame = NoFrame
  NoBmp = NoBmp
  Frames = {f1, f2}
  Dims = {small}
  N = 2
  Cap = 2
  MaxRefresh = 2
INVARIANTS OneRefresh
