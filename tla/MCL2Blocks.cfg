CONSTANTS
    Addr = {a1, a2, a3}
    NoAddr = NoAddr
    Way = {0, 1}
    RqSize = 2
    WqSize = 1
    PqSize = 1
    MshrSize = 2
    L1iMshrSize = 0
    L1dMshrSize = 2
SYMMETRY Interchangeable
SPECIFICATION Spec
INVARIANTS
    DirtyKept
    FillsSound
CHECK_DEADLOCK FALSE
