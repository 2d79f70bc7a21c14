SPECIFICATION Spec
CONSTANTS
  Lines <- FileLines
  Opts <- CommandLine
  Kilo = 4
  SpeedMod = 4096
  MaxLines = 1
  MaxOpts = 1
  MaxStarts = 1
INVARIANTS
  SpeedAsDocumented
CHECK_DEADLOCK FALSE
