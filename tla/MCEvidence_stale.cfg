SPECIFICATION Spec
CONSTANTS
    i1 = i1
    i2 = i2
    x1 = x1
    x2 = x2
    Image = {i1, i2}
    Stem <- OwnStem
    Indexer = {x1}
    Profile = {"plaso"}
    Forced = {TRUE, FALSE}
    Mortal = {"index"}
    MaxFaults = 1
    MaxId = 8
INVARIANT CurrentIsComplete
CHECK_DEADLOCK FALSE
