SPECIFICATION Spec
CONSTANTS
  CmdLen = 3
  LineLen = 3
  OutCap = 7
  InCap = 5
  Tls = TRUE
  Partial = FALSE
  Signals = "never"
  Faults = TRUE
  Watch = "select"
  MaxReplies = 1
  MaxCommands = 2
  MaxLines = 2
INVARIANTS
  OutputWhole
