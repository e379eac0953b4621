SPECIFICATION FairSpec
CONSTANTS
  m1 = m1  m2 = m2  v1 = v1  None = None
  Metrics <- TwoMetrics
  Timestamps <- TwoTimestamps
  Values <- OneValue
  MaxCacheSize = 2  LowWatermark = 2
  Strategies <- SnapshotOrMax
  UseFlowControl = TRUE  SelfMetrics = TRUE
  Arriving <- ThreePoints  MaxBatch = 1  MaxDrift = 1
INVARIANTS SizeWithinLimit CountNeverOverstates ChosenIsCached
PROPERTIES ShedOnlyWhenFull AcceptedPointLands ImplementsLedger CachedPointDrained
