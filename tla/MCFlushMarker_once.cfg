SPECIFICATION Spec
CONSTANTS
  Blocks = {b1, b2, b3, b4}
  Literal = Literal
  NULL = NULL
  MaxSeeks = 1
  QueueLimit = 2
SYMMETRY Symmetry
INVARIANTS MarkersRecognised FreesAllocated ReadsAllocated
CHECK_DEADLOCK FALSE
