CONSTANTS
    Procs = {p1, p2}
    Vals = {0, 1}
    PIPSIZ = 2
    BSIZE = 2
    MaxCount = 3
    Faults = TRUE
SPECIFICATION FairSpec
INVARIANTS
    LockIsHeld
    ReaderWillWake
    WriterWillWake
    EndsMatch
PROPERTIES  SleepersWake
