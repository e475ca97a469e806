CONSTANTS
    v1 = v1
    v2 = v2
    u1 = u1
    u2 = u2
    bad = bad
    Views <- TwoViews
    Urls <- MCUrls
    BadUrls <- OneBad
    MaxLoads = 4
    Nothing = Nothing
SPECIFICATION Spec
INVARIANTS
    TypeOK
    ImageSettles
CHECK_DEADLOCK FALSE
