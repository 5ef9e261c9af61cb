CONSTANTS
  ArmPeriods = 1
  TripPeriods = 1
  IdlePeriods = 2
  CalSamples = 1
  OverrunFaultCount = 2
  GapTops = 2
  SuperviseMinIsrs = 1
  Commands = {"IDLE", "IDENT"}
  Events = {"data"}
SPECIFICATION Spec
INVARIANT IdentNeverOutlivesFault
