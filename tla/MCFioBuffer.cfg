SPECIFICATION Spec
CONSTANTS
    a = a
    b = b
    Junk = Junk
    EOF = EOF
    Char = {a, b}
    Modes = {"ro", "append", "new"}
    CancelModes = {"ro"}
    BLKSIZE = 2
    BufSizes = {2, 3}
    MaxXfer = 2
    MaxSize = 4
    MayFail = TRUE
SYMMETRY Symmetry
INVARIANT
    TypeOK
PROPERTIES
    Refinement
    KernelContract
    OnlyStrayFails
    EndOfFile
CHECK_DEADLOCK FALSE
