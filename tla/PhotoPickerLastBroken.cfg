CONSTANTS
    N = 2
    Broken <- LastBroken
    MaxPicks = 1
    MaxViews = 2
    NoPhoto = NoPhoto
SPECIFICATION FairSpec
PROPERTY
    GridComplete
CHECK_DEADLOCK FALSE
