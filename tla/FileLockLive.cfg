SPECIFICATION FairSpec
CONSTANTS
    p1 = p1
    p2 = p2
    Proc = {p1, p2}
    FILELOCK_PERIOD = 1
    FILEWAIT_PERIOD = 1
    MAX_DELAY = 2
    MIN_TIMELEFT = 1
    Permanent = TRUE
    MaxTime = 1
    MaxDead = 1
PROPERTIES
    LockoutEnds
    PermitReturns
CHECK_DEADLOCK FALSE
