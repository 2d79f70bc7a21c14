SPECIFICATION FairSpec
CONSTANTS
  CmdLen = 3
  LineLen = 3
  OutCap = 7
  InCap = 5
  Tls = FALSE
  Partial = TRUE
  Signals = "fdwatch"
  Faults = TRUE
  Watch = "poll"
  MaxReplies = 1
  MaxCommands = 3
  MaxLines = 2
INVARIANTS
  BuffersHaveRoom
PROPERTIES
  IsChannel
  InputHandled
  OutputWritten
  BreakNoticed
