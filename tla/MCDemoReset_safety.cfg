SPECIFICATION Spec
CHECK_DEADLOCK FALSE
CONSTANTS
    r1 = r1
    r2 = r2
    r3 = r3
    k1 = k1
    None = None
    Cases = {c1, c2}
    DemoCase = c1
    Actions = {a1}
    Operations = {o1}
    Resets = {r1, r2, r3}
    Keys = {k1}
    KeyOf <- MCKeyOf
    MaxFaults = 2
SYMMETRY Symmetry
INVARIANTS
    TypeOK
    OldWorldIsGone
    InFlightKeepsItsRecord
    DestroyedOnce
