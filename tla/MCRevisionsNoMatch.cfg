SPECIFICATION Spec
CONSTANTS
  Logs <- MCLogs
  Names = {"", "@", "a", "a0", "a1", "a2", "b", "b1", "c", "c1"}
  Targets = {""}
  LogBatching = {TRUE}
  BatchSize = 1
  MaxTag = 2
INVARIANT NoMatchingIsTrue
CHECK_DEADLOCK FALSE
