SPECIFICATION Spec
CONSTANTS
  p1 = p1
  p2 = p2
  Nothing = Nothing
  Targets = {p1, p2}
  FileStreams <- AudioOnly
  Sizes = {1}
  MaxSize = 0
  MaxSeeks = 0
INVARIANTS RoutedByKind
CHECK_DEADLOCK FALSE
