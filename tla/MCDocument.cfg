SPECIFICATION HSpec
CONSTANTS
  SourceSizes = {0, 2}
  MaxWrite = 2
  MaxEdits = 3
  SpillThreshold = 3
  FillChunk = 1
  AppendMayFail = TRUE
INVARIANTS
  PiecesInStores
  ReadsTheContent
  ModifiedIsExact
  UndoNeverPanics
  SavedDepthNamesSavedVersion
  SavesInPlace
PROPERTIES
  ImplementsVersionHistory
CHECK_DEADLOCK FALSE
