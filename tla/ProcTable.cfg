SPECIFICATION Spec
CONSTANTS
    p1 = p1
    p2 = p2
    p3 = p3
    NoPid = NoPid
    Pid = {p1, p2, p3}
    MAXPROCS = 3
    MaxConnected = 2
    MaxDetached = 1
    MaxInterrupts = 1
CHECK_DEADLOCK FALSE
INVARIANTS
    TypeOK
    EntriesOwned
PROPERTIES
    Refinement
    WaitReturns
