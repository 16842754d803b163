SPECIFICATION Spec
CONSTANTS
    File <- ThreeBlocks
    SizeKnown = TRUE
    MaxRetries = 2
    MaxFaults = 4
    MaxArchiveDepth = 2
    MaxLimit = 2
    HeaderScan = 2
    MaxFiles = 2
    MaxText = 3
    ZeroSkip = 2
INVARIANT AccuracyIsAsScored
INVARIANT ReportIsBorneOut
INVARIANT GatesAreFaithful
INVARIANT AnswersAreWhole
INVARIANT EvidenceIsExtracted
INVARIANT IndexAccountsForEvidence
INVARIANT PinsStayTrue
INVARIANT ResumedIsWhole
PROPERTY DownloadGetsThere
CHECK_DEADLOCK FALSE
