CONSTANTS
  IdlePeriods = 1
  Attempts = 3
  MaxCorruptions = 2
  Words = 2
  MaxIsrs = 5
  SnapWords = 2
  ReportEvery = 2
SPECIFICATION LoopSpec
INVARIANTS
  VerdictIsRight
  CopyIsConsistent
  WindowsDisjoint
  SnapshotIsOneStep
  StartsReadyEndsOff
CHECK_DEADLOCK FALSE
