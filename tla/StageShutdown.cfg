CONSTANTS
  ArmPeriods = 1
  TripPeriods = 1
  IdlePeriods = 2
  CalSamples = 1
  OverrunFaultCount = 1
  GapTops = 2
  SuperviseMinIsrs = 1
  Commands = {"IDLE", "MAP"}
  Events = {"exception", "oops", "silence", "pins", "tick"}
SPECIFICATION FairSpec
PROPERTIES
  ShutdownIsFinal
  FatalSwitchesOff
  SilenceSwitchesOff
  BrokenPinsSwitchOff
CHECK_DEADLOCK FALSE
