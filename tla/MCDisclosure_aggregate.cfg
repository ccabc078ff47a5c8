SPECIFICATION Spec
CHECK_DEADLOCK FALSE
CONSTANTS
    c1 = c1
    c2 = c2
    c3 = c3
    Facts = {1, 2, 3}
    OwnerOf <- Owners
    TypeOf <- Kinds
    Sensitive = {}
    CodeOf <- Codes
    Cites <- Shown
    RootOf <- Roots
    Safe = {1}
    Seeded = {1, 2, 3}
    Terms <- Aggregating
    Requests <- Counting
    Compiles = {k1}
    AggregateMin = 3
    ViewLifetime = 2
    Horizon = 0
    MaxVersion = 6
    MaxViews = 2
    None = None
INVARIANTS
    AggregatesHideContributors
