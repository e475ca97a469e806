CONSTANTS
    Keys <- TwoKeys
    NumLevels = 3
    MaxMemCompactLevel = 1
    MaxWrites = 4
    MaxSnapshots = 1
SPECIFICATION Spec
INVARIANT
    ReadsCorrect
CHECK_DEADLOCK FALSE
