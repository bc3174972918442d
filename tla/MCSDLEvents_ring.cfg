SPECIFICATION Spec
CONSTANTS
  a = a
  b = b
  Nothing = Nothing
  Messages = {a, b}
  M = 4
  Burst = 2
SYMMETRY Symmetry
INVARIANTS PeepComplete HeldIntact NoneIgnored ExposeOnce
PROPERTIES ImplementsQueue
