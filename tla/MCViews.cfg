SPECIFICATION Spec
CONSTANTS
  Files = {1, 2}
  DRevisions = {1, 2}
  MaxLoads = 2
  MaxDetailCmds = 1
  MaxText = 3
  MaxVersions = 2
  ERevisions = {1, 2}
  ARevisions = {1, 2}
  Diffs <- MCDiffs
  MaxComments = 1
  MaxRequests = 4
  MaxAnswers = 2
  Paths = {1, 2}
  Words = {1, 2}
  MaxPatchLines = 8
  maxRelatedPairingLines = 2
  BookmarkLists <- MCBookmarkLists
  Contexts <- MCContexts
  PaneQueries = {0, 2}
  MaxPaneLoads = 2
  MaxPaneCmds = 1
INVARIANTS DetailsAreSound PatchIsExact PaneIsSound
PROPERTIES AnnotationIsSound KillIsUndone RestoreKeepsVersion
CHECK_DEADLOCK FALSE
