SPECIFICATION MCSpec
CONSTANTS
  Null = Null
  Patterns <- AllPatterns
  Strings <- SomeStrings
  key = key
  x = x
  y = y
  None = None
  Key = {key}
  Text = {x, y}
  Elems = {x, y}
  TheKey = key
  MinI64 <- MCMin
  MaxI64 = 4
  Second = 2
  Earliest = 1
  Latest = 3
  MaxLen = 3
INVARIANTS
  Decides
  RangeExact
  TtlTold
PROPERTIES
  Progress
SYMMETRY Symmetry
