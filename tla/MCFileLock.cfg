SPECIFICATION Spec
CONSTANTS
    p1 = p1
    p2 = p2
    Proc = {p1, p2}
    FILELOCK_PERIOD = 1
    FILEWAIT_PERIOD = 2
    MAX_DELAY = 2
    MIN_TIMELEFT = 1
    Permanent = FALSE
    MaxTime = 2
    MaxDead = 1
SYMMETRY Symmetry
INVARIANTS
    TypeOK
    UnbrokenExclusion
    OwnStamp
    OneBreaker
    BreakSpacing
PROPERTY
    Refinement
CHECK_DEADLOCK FALSE
