CONSTANTS
  g1 = g1
  v1 = v1
  v2 = v2
  byHand = byHand
  Guis = {g1}
  Visualizers = {v1, v2}
  Standalone = byHand
SPECIFICATION VisFairSpec
INVARIANT NilIsNeverUsed
INVARIANT ExitNeedsTwoStops
PROPERTY RestartFindsPort
PROPERTY StopIsHonoured
CHECK_DEADLOCK FALSE
