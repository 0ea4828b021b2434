SPECIFICATION Spec
CONSTANTS
    p1 = p1
    p2 = p2
    n1 = n1
    n2 = n2
    NoName = NoName
    Proc = {p1, p2}
    Name = {n1, n2}
    MAX_LONGFNAMES = 2
    MAX_DEGENERACY = 2
    RADIX = 1
    Ops = {"open", "delete"}
    MayFail = TRUE
    MaxDead = 1
SYMMETRY Symmetry
PROPERTIES
    LockProtocol
    OnePairChanges
CHECK_DEADLOCK FALSE
