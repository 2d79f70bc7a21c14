SPECIFICATION LinesSpec
CONSTANTS
  Chars = {"x", ":", "!", "@", " ", "CR", "LF"}
  RawSize = 8
  MaxParams = 2
  MaxLine = 10
  MaxBroken = 4
  MaxRaw = 4
  Repeated = {"x"}
  Nicknames <- NickNames
  Slots = 3
  Unknown <- UnknownCommands
  CodedGlyphs = {"a", "0x02", "0x03", "0x0F", "1", ","}
  TaggedGlyphs = {"a", "[", "]", "/B"}
  TagColours <- ColourTags
  MessageLen = 6
  BlockLen = 2
  MaxPad = 1
  LengthMod = 64
  HashSize = 2
  ReadSizes = {5}
  HashFiles = {"f", "g"}
  Forms <- NoticeForms
  Sizes = {0, 5, 11}
  MaxThreads = 2
INVARIANTS
  ParsedAsGrammar
  RawKept
  LinesRecognised
  StringsFreedOnce
  ColoursKept
  VerdictTrue
CHECK_DEADLOCK FALSE
