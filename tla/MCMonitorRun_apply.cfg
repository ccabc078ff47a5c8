SPECIFICATION Spec
CONSTANTS
    Ops = {o1, o2}
    Cases = {1, 2, 3}
    Messages = {1, 2, 3, 4, 5}
    Reports = {1, 2, 3, 4, 5, 6, 7, 8}
    Cites <- Readings
    Issue <- Subjects
    CandidateOf <- Derived
    Answers <- Contended
    MinReports = 2
    ItemBudget = 2
    MaxFacts = 2
    SeedCase = 1
    SeedReports = {1, 2}
    Faults = {"crash", "slow", "duplicate", "write", "read", "agent"}
    MaxMoves = 1
    MaxEvents = 3
SYMMETRY Interchangeable
CHECK_DEADLOCK FALSE
INVARIANTS
    TypeOK
    RecordIsHonest
    CaseIsWhatWasCommitted
    CaseStaysSound
    OwnWorkIsNoConflict
    
