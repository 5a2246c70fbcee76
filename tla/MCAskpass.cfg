SPECIFICATION FairSpec
CONSTANTS
  fetch = fetch  touch = touch  pin = pin
  Subs = {fetch}
  Conns = {touch, pin}
  SubOf <- AsksTwice
  None = None
  MaxKeys = 2
INVARIANTS NoPanic PasswordOnlyForItsPrompt PromptsMatchHelpers
PROPERTIES PromptsEnd
CHECK_DEADLOCK FALSE
