SPECIFICATION Spec
CONSTANTS
  Dialogs = {"bookmarks", "choose", "picker", "history"}
  MaxLayers = 3
  MaxMsgs = 2
  MaxOpLayers = 1
INVARIANTS LayersAreSound
PROPERTIES PlainCloseKeepsComments OneCloseOneLayer
CHECK_DEADLOCK FALSE
