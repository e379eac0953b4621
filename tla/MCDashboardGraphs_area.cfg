SPECIFICATION Spec
CONSTANTS
  m1 = m1
  Metrics <- MCMetrics
  Ids <- MCIds
  None = None
  MaxGraphs = 3
  MaxSize = 3
INVARIANTS ViewFollowsStore CloseNeverRemovesEarlier ClicksOpenMenus
PROPERTY KeyFallsBehindOnlyByOuterCall
