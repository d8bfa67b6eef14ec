CONSTANTS
    Code <- MCCode
    IfetchSize = 2
    DecodeSize = 2
    RobSize = 1
    FetchWidth = 1
    DecodeWidth = 2
    RetireWidth = 2
    DecodeLatency = 0
    BtbSet = 1
    BtbWay = 1
    WarmUp = 0
    MaxInstr = 6
SPECIFICATION FairSpec
INVARIANTS
    StallExplained
    BtbUpToDate
PROPERTIES
    TraceRetires
CHECK_DEADLOCK FALSE
