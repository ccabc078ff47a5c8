SPECIFICATION Spec
CONSTANTS
    Ops = {o1, o2}
    Inputs = {1, 2}
    Workers = {w1, w2}
    Watchers = {d1, d2}
    None = None
    Due = 1
    Window = 0
    Retries = 1
    Horizon = 1
    Spare = 1
    Faults = 1
INVARIANTS
    TypeOK
    SucceededMeansScheduled
    ModelCalledOnce
    NoUnguardedRequest
    FiringIsHeard
PROPERTIES
    ImplementsPromise
SYMMETRY DeadlineSymmetry
CHECK_DEADLOCK FALSE
