SPECIFICATION PanelsSpec
CONSTANTS
  WINDOW = 6
  Unreadable = 256
  DEFAULT_CAP = 6
  AUTO_MAX = 5
  NotANumber <- MCNotANumber
  KeyOf <- MCKeyOf
  NumberOf <- MCNumberOf
  MAX_BITS = 1000
  StepBudget = 2
  MAX_INSNS = 12
  RegionCap = 14
  MAX_SPAN = 12
  MAX_WALKED = 6
  Images <- MCImages
  EditsOf <- MCEditsOf
  InitialTabs <- MCInitialTabs
  Selections <- MCSelections
  Composed <- MCComposed
  Arguments <- MCArguments
  Names <- MCNames
  Descriptions <- MCDescriptions
  Paths <- MCPaths
  ContentAt <- MCContentAt
  Sidecars <- MCSidecars
  NoPath = NoPath
  MaxTabs = 3
  MaxSteps = 2
  MaxMarks = 3
  MaxMoves = 4
INVARIANTS
  TreesShowTheFile
  ListingsAreComplete
  FunctionsPairOnce
  RecipesGiveBack
  BookmarksSurvive
CHECK_DEADLOCK FALSE
