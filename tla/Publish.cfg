CONSTANTS
    alice = alice
    bob = bob
    p1 = p1
    Users <- MCUsers
    Posts <- OnePost
    Owner <- AliceOwnsOne
    MaxTaps <- BobTwice
    MaxFaults <- AliceOnce
    MaxDrops <- AliceOnce
    MaxTrouble <- AliceOnce
    Leavers <- AliceLeaves
SPECIFICATION FairSpec
INVARIANTS
    TypeOK
    NoDanglingPost
PROPERTIES
    UploadSettles
    FanoutDelivered
    FollowerFed
CHECK_DEADLOCK FALSE
