SPECIFICATION FairSpec
CONSTANTS
  p = p
  q = q
  s1 = s1
  s2 = s2
  i1 = i1
  i2 = i2
  Global = Global
  None = None
  Makers = {p, q}
  Structs = {s1, s2}
  Ids = {i1, i2}
  Chunk = 1
INVARIANTS MemoryAlive ListSound
PROPERTIES OwnErrBuf CreateReturns
