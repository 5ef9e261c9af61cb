CONSTANTS
  Bins = 2
  Sweep = 2
  MaxRuns = 3
  MaxEpochs = 3
SPECIFICATION FairSpec
INVARIANTS
  ValidTableIsCurrent
  FeedForwardIsValid
PROPERTIES
  GoodMapPublished
  ImplementsFeedForward
  ImplementsHandoff
CHECK_DEADLOCK FALSE
