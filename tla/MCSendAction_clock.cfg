SPECIFICATION Spec
CONSTANTS
    Workers = {w1}
    None = None
    FenceLifetime = 2
    MinFenceWindow = 1
    ApprovalExpiry = 3
    ViewExpiry = 3
    Horizon = 4
    MaxEpoch = 1
    OperatorAttestation = FALSE
PROPERTIES
    AuthorityStandsAtCall
CHECK_DEADLOCK FALSE
