CONSTANT MaxRuns = 5
SPECIFICATION FairSpec
INVARIANTS
  CalibIsOfLastRun
PROPERTIES
  PublishedOnceInOrder
  ResultPublished
CHECK_DEADLOCK FALSE
