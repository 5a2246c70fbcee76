SPECIFICATION FairSpec
CONSTANTS
  MaxWaits = 3
  MaxCmds = 2
  MaxLayers = 2
INVARIANTS CallsNest EffectsBeforeResume
PROPERTIES ActionReturns
CHECK_DEADLOCK FALSE
