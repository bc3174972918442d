SPECIFICATION Spec
CONSTANTS
  Blocks = {b1, b2, b3, b4}
  Literal = Literal
  NULL = NULL
  MaxSeeks = 2
  QueueLimit = 2
SYMMETRY Symmetry
INVARIANTS FreesAllocated
CHECK_DEADLOCK FALSE
