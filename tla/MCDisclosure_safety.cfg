SPECIFICATION Spec
CHECK_DEADLOCK FALSE
CONSTANTS
    c1 = c1
    c2 = c2
    c3 = c3
    Facts = {1, 2, 3, 4}
    OwnerOf <- PairOwners
    TypeOf <- PairKinds
    Sensitive = {}
    CodeOf <- PairCodes
    Cites <- PairShown
    RootOf <- Roots
    Safe = {1}
    Seeded = {1, 2, 3}
    Terms <- PairTerms
    Requests <- PairRequests
    Compiles = {k1}
    AggregateMin = 3
    ViewLifetime = 2
    Horizon = 1
    MaxVersion = 8
    MaxViews = 2
    None = None
INVARIANTS
    TypeOK
    ViewStillAuthorized
    OnlyOfferedIsShared
    OpenDraftKeepsItsGrants
