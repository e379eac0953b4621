SPECIFICATION BucketSpec
CONSTANTS
  Capacity = 4  Rate = 1  MaxCost = 2
  Reconfigure = TRUE  NewCapacity = 1  NewRate = 2
  MaxTime = 6
INVARIANTS RateBound LevelWithinCapacity
CHECK_DEADLOCK FALSE
