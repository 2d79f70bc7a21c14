SPECIFICATION Spec
CONSTANTS
  fa = fa
  fb = fb
  Files <- TwoFiles
  FileLen <- LenSmall
  p1 = p1
  p2 = p2
  Ports <- TwoPorts
  Kinds = {"send", "ssend", "reverse"}
  Sizeless = TRUE
  StrictAck = FALSE
  PortsShared = FALSE
  Confirm = TRUE
  Verify = FALSE
  Watch = "select"
  Chunk = 2
  AckMod = 2
  ListenPort = 1
  QuitFits = FALSE
  Faults = TRUE
  MaxSessions = 2
  MaxRuns = 2
SYMMETRY PortsAlike
INVARIANTS
  OffsetsAgree
  FilesIntact
  AckCurrent
PROPERTIES
  IsTransfer
