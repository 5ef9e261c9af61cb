CONSTANTS
  Len = 5
  Pre = 2
  On = 2
  Refs = {0, 1, 2}
  MaxSeq = 3
SPECIFICATION FairSpec
INVARIANTS
  CaptureIsOneStep
PROPERTIES
  RequestsInOrder
  ImplementsHandoff
  DeferredRequestServed
CHECK_DEADLOCK FALSE
