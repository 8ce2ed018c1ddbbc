CONSTANTS
  g1 = g1
  v1 = v1
  v2 = v2
  byHand = byHand
  Guis = {g1}
  Visualizers = {}
  Standalone = byHand
SPECIFICATION FairSpec
PROPERTY GuiLaunchesVisualizer
CHECK_DEADLOCK FALSE
