SPECIFICATION FairSpec
CONSTANTS
  Commands = {fetch, push}
  NoCommand = NoCommand
  HistoryLimit = 1
  MaxId = 3
  MaxTag = 2
INVARIANTS HistoryIsSound ShownWhileItRuns SpinnerTurns
PROPERTIES MessagesStay CommandIsReported
CHECK_DEADLOCK FALSE
