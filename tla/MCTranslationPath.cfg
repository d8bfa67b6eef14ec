CONSTANTS
    Page = {1, 2, 3}
    RqSize = 1
    WqSize = 1
    PqSize = 1
    DtlbRq = 1
    DtlbMshr = 1
    StlbRq = 2
    StlbMshr = 1
    Processed = 3
SPECIFICATION FairSpec
INVARIANTS
    WaitersNamed
PROPERTY Translated
CHECK_DEADLOCK FALSE
