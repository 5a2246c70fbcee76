SPECIFICATION Spec
CONSTANTS
  Changes = {1, 2}
  MaxVersion = 1
  MaxChecked = 1
  MaxStarts = 1
  MaxMoves = 2
  MaxCmds = 2
  MaxAsked = 2
INVARIANTS TargetsAreSound AbandonsWhatIsMarked
CHECK_DEADLOCK FALSE
