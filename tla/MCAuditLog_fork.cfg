SPECIFICATION Spec
CONSTANTS
    LoggerStream = {"cli"}
    ChainStream = {"cli"}
    Fault = {}
    MaxWrites = 3
    MaxSeq = 3
INVARIANT ChainIntact
