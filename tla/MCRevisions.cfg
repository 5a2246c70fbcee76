SPECIFICATION FairSpec
CONSTANTS
  Logs <- MCLogs
  Names = {"", "@", "a", "a0", "a1", "a2", "b", "b1", "c", "c1"}
  Targets = {""}
  LogBatching = {TRUE, FALSE}
  BatchSize = 1
  MaxTag = 2
INVARIANTS ListIsSound LatestLoadShown
PROPERTIES GrowingKeepsSelection LoadsEnd
CHECK_DEADLOCK FALSE
