SPECIFICATION ReadSpec
CONSTANTS
  m1 = m1  m2 = m2  None = None
  Metrics <- TwoMetrics
  Timestamps <- OneTimestamp
  LimitCreates = TRUE  MaxTokens = 1
  DatabaseFails = TRUE  CarbonLinkFails = TRUE  Watched <- OneMetric
INVARIANTS LeavesOnlyLate
PROPERTIES MissesOnlyInHand PointPersisted NewMetricCreated WriterStops
