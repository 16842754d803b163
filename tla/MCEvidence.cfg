SPECIFICATION Spec
CONSTANTS
    i1 = i1
    i2 = i2
    x1 = x1
    x2 = x2
    Image = {i1, i2}
    Stem <- SameStem
    Indexer = {x1, x2}
    Profile = {"targeted", "plaso"}
    Forced = {TRUE, FALSE}
    Mortal = {"register", "prepare", "index"}
    MaxFaults = 1
    MaxId = 6
SYMMETRY Symmetry
INVARIANTS OneBuild PreparedAreTraceable RecordedIsComplete
PROPERTY StableWhileServing
CHECK_DEADLOCK FALSE
