SPECIFICATION Spec
CONSTANTS
  fa = fa
  fb = fb
  p1 = p1
  p2 = p2
  Files <- TwoFiles
  FileLen <- LenTwo
  Ports = {1, 2}
  Kinds = {"send"}
  Sizeless = FALSE
  StrictAck = FALSE
  PortsShared = FALSE
  Confirm = TRUE
  Verify = TRUE
  Watch = "select"
  Chunk = 2
  AckMod = 4
  ListenPort = 1
  QuitFits = FALSE
  Faults = TRUE
  MaxSessions = 2
  MaxRuns = 1
INVARIANTS
  LastDownloadFinished
