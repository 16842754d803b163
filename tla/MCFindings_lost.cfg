SPECIFICATION CaseSpec
CONSTANTS
    Reviewer = {r1}
    Overlap = TRUE
    LedgerCuts = FALSE
    MaxObs = 2
    MaxInterp = 1
    MaxFinding = 1
    MaxLedger = 1
PROPERTY NothingRecordedIsLost
