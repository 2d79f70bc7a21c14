SPECIFICATION FairSpec
CONSTANTS
  fa = fa
  fb = fb
  p1 = p1
  p2 = p2
  Files <- TwoFiles
  FileLen <- LenEven
  Ports = {1}
  Kinds = {"send", "ssend"}
  Sizeless = FALSE
  StrictAck = FALSE
  PortsShared = TRUE
  Confirm = TRUE
  Verify = FALSE
  Watch = "select"
  Chunk = 2
  AckMod = 1
  ListenPort = 1
  QuitFits = FALSE
  Faults = TRUE
  MaxSessions = 2
  MaxRuns = 1
INVARIANTS
  CountersAgree
PROPERTIES
  QuitWhenAllFinished
  SessionsEnd
