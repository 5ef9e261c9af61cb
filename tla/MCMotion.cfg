CONSTANTS
  ArmPeriods = 1
  TripPeriods = 1
  IdlePeriods = 1
  CalSamples = 0
  Turn = 4
  Div = 2
  Window = 2
  OverspeedCounts = 2
  BucketMax = 3
  Rotors <- MCRotors
  Entries = {0, 1}
  Direction = "reverse"
  Rates = {1, 5000}
  Thetas = {4095, 4097}
  Supplies = {"arm"}
  Loads = {"inside"}
  Families = {{"IDLE", "DC", "OPENLOOP"}, {"IDLE", "IDENT", "CURRENT", "SPEED", "MAP"}}
  MaxOlSteps = 4
SPECIFICATION Spec
INVARIANTS
  OpenLoopExact
  SpeedIsDisplacement
  OverspeedIsCaught
  FreshPowerUp
CHECK_DEADLOCK FALSE
