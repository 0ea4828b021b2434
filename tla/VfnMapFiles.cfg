SPECIFICATION Spec
CONSTANTS
    p1 = p1
    p2 = p2
    n1 = n1
    n2 = n2
    n3 = n3
    NoName = NoName
    Proc = {p1, p2}
    Name = {n1, n2, n3}
    MAX_LONGFNAMES = 2
    MAX_DEGENERACY = 4
    RADIX = 2
    Ops = {"open", "alloc", "delete", "rename"}
    MayFail = TRUE
    MaxDead = 0
SYMMETRY Symmetry
CONSTRAINT Unharmed
INVARIANTS
    TypeOK
    FilesFound
CHECK_DEADLOCK FALSE
