SPECIFICATION WSpec
CONSTANTS
  Columns = 2
  MaxTyped = 1
  MaxLength = 2
  Paths = {p, q}
  NoPath = NoPath
  RecentCap = 2
  Lengths = {1}
  Budgets <- MCClosing
  Captured <- MCCaptured
  MaxRebinds = 0
PROPERTIES
  SearchStaysInItsTab
CHECK_DEADLOCK FALSE
