SPECIFICATION Spec
CONSTANTS
  Chars = {"x", ":", " ", "CR", "LF"}
  RawSize = 3
  MaxParams = 1
  MaxLine = 5
  MaxBroken = 4
  MaxRaw = 6
  Repeated = {"x"}
INVARIANTS
  WithinRaw
