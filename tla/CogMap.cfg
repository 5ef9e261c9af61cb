CONSTANTS
  Bins = 2
  Points = 2
  VSteps = 2
  SettleN = 1
  AverageN = 1
  ZeroN = 1
  HoldN = 1
  Counts = 4
  BinWidth = 2
  Travel = 4
  Slip = 1
  Rate = 1
  Den = 1
  IMax = 2
  CountMax = 2
  TimeoutN = 26
  Watched = 1
SPECIFICATION Spec
INVARIANTS
  TimesOutOverBudget
  SumsBounded
  SweepStartsClean
PROPERTY AngleStepsUnexcited
