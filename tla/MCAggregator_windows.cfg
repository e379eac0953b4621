SPECIFICATION FairSpec
CONSTANTS
  a1 = a1  a2 = a2
  Aggregates <- TwoAggregates
  MaxIntervals = 1  LastInterval = 1  MaxTime = 3
  MaxPoints = 2  MaxEdits = 2
INVARIANTS OneTaskPerBuffer WindowComplete
PROPERTIES PointsAggregated BuffersReleased RulesFollowFile
