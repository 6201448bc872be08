SPECIFICATION SSpec
CONSTANTS
  SourceSizes = {3}
  MaxWrite = 1
  MaxEdits = 2
  SpillThreshold = 3
  FillChunk = 1
  AppendMayFail = FALSE
  BlockSize = 2
  Capacity = 1
  MaxSaves = 2
  TabPaths = {"file", "none"}
  SaveAsPaths = {"other"}
  Backups = {TRUE}
  BadBlocks = {{}, {0}}
  DiskMayFail = TRUE
  ReadsMayFail = TRUE
INVARIANTS
  UnreadableNeverSaved
  RewriteIsAtomic
  BackupKeepsThePrevious
  CacheIsTruthful
PROPERTIES
  SavesTheDocument
CHECK_DEADLOCK FALSE
