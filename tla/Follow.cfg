CONSTANTS
    alice = alice
    bob = bob
    p1 = p1
    Users <- MCUsers
    Posts <- OnePost
    Owner <- AliceOwnsOne
    MaxTaps <- BobThrice
    MaxFaults <- BobOnce
    MaxDrops <- BobOnce
    MaxTrouble <- BobOnce
    Leavers <- NoLeavers
SPECIFICATION Spec
INVARIANTS
    FeedComplete
    StaleOnlyByFanout
    RelationSymmetric
PROPERTIES
    FollowersRefines
CHECK_DEADLOCK FALSE
