CONSTANTS
    Addr = {a1, a2}
    NoAddr = NoAddr
    Way = {0}
    RqSize = 2
    WqSize = 1
    PqSize = 1
    MshrSize = 1
    L1iMshrSize = 1
    L1dMshrSize = 1
SPECIFICATION FairSpec
INVARIANTS
    OneAnswerOwed
PROPERTIES
    ReadAnswered
CHECK_DEADLOCK FALSE
