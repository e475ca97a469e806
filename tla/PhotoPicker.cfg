CONSTANTS
    N = 3
    Broken <- SecondBroken
    MaxPicks = 2
    MaxViews = 2
    NoPhoto = NoPhoto
SPECIFICATION FairSpec
INVARIANTS
    TypeOK
    HeaderInRange
    HeaderShowsSelection
    SharedWasSelected
PROPERTY
    GridComplete
CHECK_DEADLOCK FALSE
