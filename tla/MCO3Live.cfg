SPECIFICATION FairSpec
CONSTANTS
    x = x
    y = y
    z = z
    r1 = r1
    r2 = r2
    Addr <- MCAddr
    Reg <- MCReg
    Instr <- SingleLoads
    RobSize = 4
    LqSize = 1
    SqSize = 2
    SchedulerSize = 4
    MaxInstr = 5
PROPERTIES
    RetiresUnlessExhausted
CHECK_DEADLOCK FALSE
