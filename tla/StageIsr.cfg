CONSTANTS
  ArmPeriods = 2
  TripPeriods = 2
  IdlePeriods = 2
  CalSamples = 1
  OverrunFaultCount = 2
  GapTops = 3
  SuperviseMinIsrs = 1
  Commands = {"IDLE", "VOLTAGE", "CURRENT", "IDENT", "MAP", "UNKNOWN"}
  Events = {"data", "slow"}
SPECIFICATION Spec
INVARIANTS
  OnlyBoundedVectorDrives
  PoweredModePermitted
  MapNeverOutlivesPower
PROPERTIES
  ArmsWithZeroVector
