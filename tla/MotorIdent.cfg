CONSTANTS
  ReachedN = 2
  ServoTimeoutN = 3
  AlignHoldN = 2
  RPoints = 2
  RSettleN = 2
  RAvgN = 2
  LTotal = 4
  LDiscard = 2
  RotDirectionN = 3
  RotSettleN = 1
  OvercurrentN = 2
  RunTimeoutN = 67
SPECIFICATION Spec
INVARIANTS
  NeverRunTimeout
  DoneIsComplete
PROPERTIES
  AngleSwitchesUnexcited
  TerminalIsLatched
