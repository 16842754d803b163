SPECIFICATION Spec
CONSTANTS
    LoggerStream = {"disk"}
    ChainStream = {"findings"}
    Fault = {}
    MaxWrites = 4
    MaxSeq = 4
INVARIANT UniqueAuditIds
INVARIANT ChainIntact

