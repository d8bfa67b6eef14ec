SPECIFICATION Spec
CONSTANTS
    x = x
    y = y
    z = z
    r1 = r1
    r2 = r2
    Addr <- MCAddr
    Reg <- MCReg
    Instr <- DoubleStores
    RobSize = 3
    LqSize = 2
    SqSize = 3
    SchedulerSize = 3
    MaxInstr = 3
INVARIANTS
    ForwardingConsistent
CHECK_DEADLOCK FALSE
