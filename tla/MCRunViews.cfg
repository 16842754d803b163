SPECIFICATION ViewSpec
CONSTANTS
  MaxHypotheses = 3
  RequestLimit = 2
  MaxBatch = 2
  MaxRuns = 2
  MaxFaults = 1
  StepBudget = 1
  MaxRowFaults = 1
INVARIANTS  EventsStreamedOnce
CHECK_DEADLOCK FALSE
