SPECIFICATION FairSpec
CONSTANTS
    c1 = c1
    c2 = c2
    Caller <- TwoCallers
    Roles <- AllRoles
    Entries <- PrimaryWithFallback
    MaxFailures = 3
    InitialBackoff = 1
    MaxBackoff = 1
    Keys = 1
INVARIANTS TrackerConsistent NoNeedlessFailure
PROPERTIES Recovers
