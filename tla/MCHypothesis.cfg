SPECIFICATION Spec
CONSTANTS
  MaxHypotheses = 4
  RequestLimit = 3
  MaxBatch = 2
  MaxRuns = 2
  MaxFaults = 2
INVARIANTS WaitsBehindWork OnePlaceEach OneFormPerId  FinishClosesStack
PROPERTIES RunEnds KeepsLifecycle
CHECK_DEADLOCK FALSE
