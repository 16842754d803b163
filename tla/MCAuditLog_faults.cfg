SPECIFICATION Spec
CONSTANTS
    LoggerStream = {"disk"}
    ChainStream = {"findings"}
    Fault = {"torn", "fsync"}
    MaxWrites = 4
    MaxSeq = 3
INVARIANT VerifierAgrees
INVARIANT VerifiedMeansComplete
PROPERTY BreakIsPermanent
