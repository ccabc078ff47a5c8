SPECIFICATION FairSpec
CONSTANTS
    Ops = {o1}
    Workers = {w1, w2}
    None = None
    Spare = 1
    Faults = {"worker"}
PROPERTIES
    SentIsProjected
CHECK_DEADLOCK FALSE
