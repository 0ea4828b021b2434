SPECIFICATION Spec
CONSTANTS
    p1 = p1
    p2 = p2
    Pid = {p1, p2}
    NBKG = 2
    MAX_BKGJOBS = 2
    MaxQueries = 2
    MaxEvents = 2
INVARIANTS
    TypeOK
    JobsListed
PROPERTIES
    AnswersQuery
    WaitEnds
