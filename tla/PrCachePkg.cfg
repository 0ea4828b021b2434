SPECIFICATION Spec
CONSTANTS
    p1 = p1
    p2 = p2
    p3 = p3
    x1 = x1
    x2 = x2
    NoPid = NoPid
    NoExe = NoExe
    Pid = {p1, p2, p3}
    Exe = {x1, x2}
    MAXSUBPROC = 2
    Sizes = {2}
    ResizeBusy = FALSE
    MaxDepth = 3
    MaxPno = 3
    MaxEvents = 0
    Packages = TRUE
SYMMETRY Symmetry
PROPERTIES
    PruneComplete
