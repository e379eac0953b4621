SPECIFICATION FairRefreshSpec
CONSTANTS
  g1 = g1
  Graphs <- MCGraphs
  NoRange = NoRange
  MaxEntries = 4
  MaxImages = 2
  MaxRange = 2
INVARIANTS OneRefreshTask
PROPERTIES RefreshOnlyWhilePressed RangeShown
