SPECIFICATION Spec
CONSTANTS
    Ops = {o1, o2}
    Workers = {w1, w2}
    None = None
    Spare = 1
    Faults = {"worker", "sender", "connection", "ambiguous", "deferral", "withdrawal", "duplicate", "event"}
SYMMETRY Interchangeable
INVARIANTS
    TypeOK
PROPERTIES
    TerminalIsFinal
CHECK_DEADLOCK FALSE
