SPECIFICATION Spec
CONSTANTS
    MaxCalls = 4
    MaxForms = 1
    MaxObs = 2
INVARIANT AcknowledgedIsKept
INVARIANT RowsAreTrue
INVARIANT NarrativesResolve
CHECK_DEADLOCK FALSE
