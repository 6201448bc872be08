SPECIFICATION WSpec
CONSTANTS
  WINDOW = 2
  EXPORT_WINDOW = 4
  RECORD_WINDOW = 3
  FRAME_BUDGET = 3
  Unreadable = 256
  WordModulus = 1024
  AdlerPrime = 251
  AdlerChunk = 2
  ChartPoints = 2
  SmallestBlock = 2
  LargestBlock = 4
  ShortestSwept = 3
  SIGNATURES <- MCSignatures
  MAX_REC_LEN = 250
  ADDR_LIMIT = 16777220
  MAX_PARTS = 6
  MAX_RESULTS = 2
  TabSets <- MCTabSets
  FileSets <- MCFileSets
  PartNames <- MCPartNames
  Selections <- MCSelections
  AnalysisJobs <- MCAnalysis
  ToolJobs <- MCTools
  SecondJobs <- MCSecond
  Froms = {0, 2, 5}
  DiskMayFail = TRUE
  MaxMoves = 2
INVARIANTS
  ResultsAreWhole
  NothingLostInParts
  OnlyChangesPanic
  NothingHalfWritten
  RecordsReadBack
PROPERTIES
  JobsEnd
  DifferencesAreReal
CHECK_DEADLOCK FALSE
