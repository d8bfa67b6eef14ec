SPECIFICATION Spec
CONSTANTS
    x = x
    y = y
    z = z
    r1 = r1
    r2 = r2
    Addr <- MCAddr
    Reg <- MCReg
    Instr <- Mixed
    RobSize = 3
    LqSize = 2
    SqSize = 2
    SchedulerSize = 3
    MaxInstr = 4
INVARIANTS
    LoadsServed
    ReadsYoungestStore
    MemOpsExact
    StoresInOrder
    RawRespected
CHECK_DEADLOCK FALSE
