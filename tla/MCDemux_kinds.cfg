SPECIFICATION FairSpec
CONSTANTS
  p1 = p1
  p2 = p2
  Nothing = Nothing
  Targets = {p1, p2}
  FileStreams <- ThreeStreams
  Sizes = {1, 2}
  MaxSize = 1
  MaxSeeks = 1
INVARIANTS BytesAccounted BytesBounded SleepsOnlyWhenEmpty DecoderFlushed SeekExact
PROPERTIES SeekServed ReaderGoesOn
CHECK_DEADLOCK FALSE
