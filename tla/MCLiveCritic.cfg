SPECIFICATION Spec
CONSTANTS
    Question = {q1}
    Contradicted <- SomeContradicted
    Interval = 2
    MaxBounces = 1
    OutputRetries = 2
    RequestLimit = 4
    MaxObs = 2
    MaxInterp = 2
    MaxRows = 3
INVARIANTS NoSilentSkip DetectorFloor PendingIsLogged GateOutcome
