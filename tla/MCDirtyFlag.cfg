SPECIFICATION HSpec
CONSTANTS
  SourceSizes = {2}
  MaxWrite = 2
  MaxEdits = 3
  SpillThreshold = 3
  FillChunk = 1
  AppendMayFail = FALSE
CHECK_DEADLOCK FALSE
INVARIANT DirtyWhenChanged
