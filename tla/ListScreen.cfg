CONSTANTS
    p1 = p1
    p2 = p2
    dangling = dangling
    orphan = orphan
    h1 = h1
    h2 = h2
    Ids <- MCIds
    CreationDate <- MCDate
    Fetchable <- MCFetchable
    Ownerless <- MCOwnerless
    Headers <- TwoHeaders
    NoHeader = NoHeader
    MaxAdds <- MCAdds
    MaxChanges = 1
SPECIFICATION FairSpec
INVARIANTS
    TypeOK
    ShownPerAdd
    StatsCounted
PROPERTY
    ListedIsShown
CHECK_DEADLOCK FALSE
