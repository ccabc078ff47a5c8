SPECIFICATION Spec
CONSTANTS
    Workers = {w1, w2}
    None = None
    FenceLifetime = 2
    MinFenceWindow = 1
    ApprovalExpiry = 3
    ViewExpiry = 3
    Horizon = 4
    MaxEpoch = 1
    OperatorAttestation = FALSE
SYMMETRY WorkerSymmetry
INVARIANTS
    TypeOK
    AtMostOneSesCall
    OutcomeIsTruthful
    ClearedNeverGoesOut
    FenceHasHolder
PROPERTIES
    FenceKeepsAuthority
    ImplementsAttempt
CHECK_DEADLOCK FALSE
