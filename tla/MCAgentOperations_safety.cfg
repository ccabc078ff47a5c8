SPECIFICATION OperationsSpec
CONSTANTS
    Actions = {a1, a2}
    Investigations = {i1}
    Drafts = {a1}
    None = None
    MaxEpoch = 5
    MaxViews = 2
INVARIANTS
    TypeOK
    OneOpenAction
    VerifyingMeansPromise
    OperationSaysWhatHappened
PROPERTIES
    DecidedOnCurrentInputs
    ReadinessReallyRemains
    NothingStaleIsApplied
    ImplementsLifecycle
CHECK_DEADLOCK FALSE
