SPECIFICATION SSpec
CONSTANTS
  SourceSizes = {3}
  MaxWrite = 1
  MaxEdits = 1
  SpillThreshold = 3
  FillChunk = 1
  AppendMayFail = FALSE
  BlockSize = 2
  Capacity = 1
  MaxSaves = 2
  TabPaths = {"file"}
  SaveAsPaths = {"other"}
  Backups = {FALSE}
  BadBlocks = {{}}
  DiskMayFail = FALSE
  ReadsMayFail = FALSE
INVARIANT SavedFileIsTheDocument
CHECK_DEADLOCK FALSE
