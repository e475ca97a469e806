CONSTANTS
    w1 = w1
    w2 = w2
    w3 = w3
    Writes <- MCWrites
    SyncWrites <- MCSync
    Before <- MCBefore
    WriteBuffer = 0
    CompactionTrigger = 1
    StopTrigger = 2
    MaxCrashes = 2
    MaxFaults = 1
    MaxReads = 1
    MaxTrouble = 2
SPECIFICATION FairSpec
INVARIANTS
    TypeOK
    SyncedDurable
    AckedKept
    AckedVisible
    NeededExist
PROPERTY
    WritesReturn
CHECK_DEADLOCK FALSE
