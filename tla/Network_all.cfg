SPECIFICATION NetworkFairSpec
CONSTANTS
  MaxAddresses = 3
  Systems = {"Linux", "Windows"}
  NumChannels = 2
  NumDownloads = 2
  Logins = {"none", "valid", "short"}
  NoDelay = NoDelay
  Delays = {1, NoDelay}
  Room = 16
  MaxTime = 3
  MaxNoise = 3
  Transfers = {d1}
  Limit = 2
  Buffer = 2
  Second = 4
  Factor = 1
  Window = 3
  SleepMod = 64
  MaxUnmeasured = 10
  Garbage = {0, 5}
  Completions = TRUE
INVARIANTS
  OutcomeTrue
  AskedOnce
  AverageInWindow
PROPERTIES
  ConnectionDecides
  EachInTurn
  RequestsAsked
  LimitKept
  LetsGo
CHECK_DEADLOCK FALSE
