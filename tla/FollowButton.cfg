CONSTANTS
    me = me
    alice = alice
    bob = bob
    cell = cell
    Users <- MCUsers
    Me = me
    Cells <- OneCell
    Header = Header
    MaxDisplays = 3
    MaxTaps = 2
    NoUser = NoUser
SPECIFICATION FairSpec
INVARIANTS
    TypeOK
    ButtonTruthful
    TapAsLabelled
    NoSelfFollow
PROPERTY
    ButtonLoads
CHECK_DEADLOCK FALSE
