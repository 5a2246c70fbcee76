SPECIFICATION Spec
CONSTANTS
  Items = {1, 2}
  MaxCalls = 3
  MaxChanges = 1
  MaxOffset = 1
  Outputs <- MCOutputs
  Queries = {"a", "b"}
  ViewHeights = {0, 2, 3}
  DiffArgs = {1, 2}
  DiffFiles <- MCDiffFiles
  LinesOf <- MCLinesOf
  DiffWidths = {2, 4}
  DiffHeights = {3}
  MaxDiffLoads = 1
  Windows <- MCWindows
  Pointers <- MCPointers
  Percents = {50}
  Increment = 85
  MaxStale = 1
INVARIANTS PreviewIsSound
PROPERTIES OpLogIsSound DiffIsSound LayoutIsSound
CHECK_DEADLOCK FALSE
