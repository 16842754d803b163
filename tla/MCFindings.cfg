SPECIFICATION CaseSpec
CONSTANTS
    Reviewer = {r1}
    Overlap = FALSE
    LedgerCuts = TRUE
    MaxObs = 2
    MaxInterp = 2
    MaxFinding = 2
    MaxLedger = 2
INVARIANT FindingsResolve
INVARIANT ApprovedIsSealed
INVARIANT SealedIsAccountedFor
INVARIANT ReportIsVouchedFor
PROPERTY NothingRecordedIsLost
PROPERTY RemovedIsArchived
CONSTRAINT SealsOrObservations
