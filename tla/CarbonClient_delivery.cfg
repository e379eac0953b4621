SPECIFICATION Reachable
CONSTANTS
  MaxQueue = 3  Watermarks = {2, 3}  Batch = 2
  RatioReset = TRUE  MaxPoints = 4  MaxOwn = 1
INVARIANTS SendScheduled QueuedUntilSent
PROPERTIES SentInOrder SpaceIsNoticed StopCompletes
