CONSTANTS
  ArmPeriods = 3
  TripPeriods = 2
  IdlePeriods = 2
  Horizon = 3
  MaxBad = 3
SPECIFICATION ContractSpec
INVARIANTS
  TripsOnBadStreak
PROPERTIES
  ArmsAfterStreaks
  FallsOnlyForCause
