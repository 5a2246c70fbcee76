SPECIFICATION Spec
CONSTANTS
  MenuBookmarks <- MCMenuBookmarks
  MenuMovables <- MCMenuMovables
  MenuRemotes <- MCMenuRemotes
  RemotePrefixes <- MCRemotePrefixes
  ConflictedNames = {}
  MainNames = {1}
  MenuContext <- MCMenuContext
  GitSelections <- MCGitSelections
  MenuTexts <- MCMenuTexts
  MaxMenuRuns = 1
  Bindings <- MCBindings
  Chains <- MCChains
  Properties = {"marked"}
  ActionWhen <- MCActionWhen
  ConfiguredLua = {"script"}
  BuiltIns = {"down", "top", "push", "git", "scroll", "apply"}
  Handles <- MCHandles
  StatusInputs = {"input"}
  TypedTexts = {1}
  PathCount = 2
  Alike <- MCAlike
  ListMax = 2
  SuggestMode = "off"
  HistoryModes = {"exec"}
  OtherLines = {1}
  MaxMsgs = 2
  MaxLines = 1
  MaxSearches = 1
  Characters = {"a", "(", ")", ",", "=", " ", "'"}
  NameChars = {"a", "b"}
  TokenEnds = {" ", ",", "("}
  SourceItems <- MCSourceItems
  RemoteItems <- MCRemoteItems
  Arguments <- MCArguments
  ValidRevsets <- MCValid
  DefaultRevset <- MCDefault
  MaxHistoryItems = 2
  MaxText = 4
  MaxRevsets = 1
  ChooseOptions <- MCOptions
  PickerItems <- MCItems
  HelpGroupsOf <- MCHelpGroups
  Words = {"a", "b", "c"}
  ListHeights = {1, 3}
  HelpCols = {1, 2, 3}
INVARIANTS MenuIsSound StatusIsSound RevsetIsSound
PROPERTIES KeysAreSound DialogsAreSound
CHECK_DEADLOCK FALSE
