SPECIFICATION Spec
CONSTANTS
    IPC_MAGIC = 2
    Data = {1, 2}
    MaxRecord = 2
    Limits = {1, 2}
    PipeSize = 3
    MaxRecords = 3
    MaxReads = 4
    MaxInterrupts = 2
CHECK_DEADLOCK FALSE
INVARIANTS
    TypeOK
    InStep
PROPERTIES
    Records
    ReadEnds
