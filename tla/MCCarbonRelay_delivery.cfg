SPECIFICATION FairSpec
CONSTANTS
  d1 = d1  d2 = d2  m1 = m1  m2 = m2
  Destinations <- TwoDestinations
  Metrics <- TwoMetrics
  Methods <- AllMethods
  Ring <- TwoRings
  Rules <- TwoRules
  Replication = 1  MaxQueue = 1  Batch = 1
  MaxRetries = 2  UseFlowControl = TRUE
  MaxPoints = 2  MaxLosses = 2
INVARIANTS PointsKept PointsOnce
  StopWaitsForClients
PROPERTIES BufferDrains
