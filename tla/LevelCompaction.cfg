CONSTANTS
    Keys <- TwoKeys
    NumLevels = 3
    MaxMemCompactLevel = 1
    MaxWrites = 4
    MaxSnapshots = 1
SPECIFICATION Spec
INVARIANTS
    TypeOK
    ReadsCorrectUnsplit
    LevelsOrdered
CHECK_DEADLOCK FALSE
