SPECIFICATION FairSpec
CONSTANTS
  fa = fa
  fb = fb
  p1 = p1
  p2 = p2
  Files <- TwoFiles
  FileLen <- LenTwo
  Ports = {1, 2}
  Kinds = {"send"}
  Sizeless = FALSE
  StrictAck = TRUE
  PortsShared = FALSE
  Confirm = TRUE
  Verify = FALSE
  Watch = "select"
  Chunk = 2
  AckMod = 4
  ListenPort = 1
  QuitFits = TRUE
  Faults = FALSE
  MaxSessions = 2
  MaxRuns = 1
PROPERTIES
  Delivered
  EndsByItself
CHECK_DEADLOCK FALSE
