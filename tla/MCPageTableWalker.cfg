CONSTANTS
    Levels = 3
    Fan = 2
    Page = {1, 2, 5}
    Translation0 = 8
    DramPages = 6
    PsclWays <- MCPsclWays
    StlbMshr = 2
    StlbWays = 2
    PtwRqSize = 2
    PtwPqSize = 1
SPECIFICATION FairSpec
INVARIANTS
    PagingConsistent
    OneWalkPerMiss
    WalksSound
PROPERTIES
    DemandAnswered
CHECK_DEADLOCK FALSE
