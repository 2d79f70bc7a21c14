SPECIFICATION StartupSpec
CONSTANTS
  Lines <- FileLines
  Opts <- CommandLine
  Kilo = 4
  SpeedMod = 4096
  MaxLines = 2
  MaxOpts = 2
  MaxStarts = 2
  Word <- WordsWritten
  MaxWords = 5
  TextChars = {"NUL", "LF", " ", "dq", "sq", "0", "a", "bs", "x"}
  TextLen = 4
  MaxNumber = 30
  ArgChars = {"a", "b", " ", "TAB", ","}
  ArgLen = 6
  PathChars = {"a", "/", "bs"}
  PathLen = 3
  SdsLimit <- HeaderLimits
  SdsHdr <- HeaderSizes
  SdsWidest = 4
  SdsPrealloc = 4
  SdsStatic = 2
  SdsBytes = {"a", "b"}
  SdsMaxLen = 4
  SdsMaxAdd = 2
  Chains <- ChainsPresented
  Authorities = {"i", "r", "o"}
  SystemStore = {"o"}
  RandomNames = {"n1", "n2"}
  UserFiles <- FilesInFolder
  MaxSslStarts = 3
  MaxLinks = 2
  nfiles = 3
INVARIANTS
  SettingsAsWritten
  GetoptAsWritten
  ArgumentsRead
  TextKept
  SdsWithin
  SdsIsString
  TrustDecided
  TrustKept
  AnswersByBuild
PROPERTIES
  IsWatchSet
  SelectIsWatchSet
CHECK_DEADLOCK FALSE
