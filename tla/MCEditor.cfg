SPECIFICATION WSpec
CONSTANTS
  Columns = 2
  MaxTyped = 1
  MaxLength = 2
  Paths = {p, q}
  NoPath = NoPath
  RecentCap = 2
  Lengths = {1}
  Budgets <- MCBudgets
  Captured <- MCCaptured
  MaxRebinds = 2
INVARIANTS
  RunsStayApart
  
PROPERTIES
  KeysReachTheirActions
  OneStepToUndo
  UnsavedWorkIsKept
CHECK_DEADLOCK FALSE
