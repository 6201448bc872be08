SPECIFICATION HSpec
CONSTANTS
  SourceSizes = {4}
  MaxWrite = 1
  MaxEdits = 1
  MaxJobs = 1
  SpillThreshold = 2
  FillChunk = 1
  AppendMayFail = TRUE
  Window = 2
  Any = Any
  ZeroLetter = "z"
  FrameBudget = 3
  MaxResults = 2
  Texts <- MCTexts
  Unreadables <- MCUnreadables
  Patterns <- MCPatterns
  Replacements <- MCReplacements
  Ranges <- MCRanges
  Typed <- MCTyped
INVARIANTS
  SearcherStaysInRange
  BlockingCallsAgree
PROPERTIES
  FindAllIsExact
  NextIsNearest
  MatchesAreGenuine
  ReplaceAllIsExact
  ReplaceAllUndoesAtOnce
  JobEnds
CHECK_DEADLOCK FALSE
