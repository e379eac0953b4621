SPECIFICATION FairSpec
CONSTANTS
  m1 = m1  m2 = m2  v1 = v1  None = None
  Metrics <- TwoMetrics
  Timestamps <- TwoTimestamps
  Values <- OneValue
  MaxCacheSize = 2  LowWatermark = 2
  Strategies <- OnlySorted
  UseFlowControl = TRUE  SelfMetrics = TRUE
  Arriving <- TwoPoints  MaxBatch = 1  MaxDrift = 0
PROPERTIES ReceiversResume
