SPECIFICATION FairSpec
CONSTANTS
  fetch = fetch  touch = touch  pin = pin
  Subs = {fetch}
  Conns = {touch, pin}
  SubOf <- AsksTwice
  None = None
  MaxKeys = 2
PROPERTY PromptCleansItself
CHECK_DEADLOCK FALSE
