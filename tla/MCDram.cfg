CONSTANTS
    a1 = a1  a2 = a2  a3 = a3  b1 = b1  b2 = b2  r1 = r1  r2 = r2
    Addr = {a1, a2, a3}
    NoAddr = NoAddr
    Bank = {b1, b2}
    Row = {r1, r2}
    BankOf <- MCBankOf
    RowOf <- MCRowOf
    NoRow = NoRow
    RqSize = 2
    WqSize = 3
    tRP = 1
    tRCD = 1
    tCAS = 2
    TurnAround = 1
    ReturnTime = 2
    MaxAge = 0
    MaxCycle = 1000
SPECIFICATION TimedSpec
VIEW View
INVARIANTS
    BankOwnership
    ScheduledExact
    NoRequestLost
    PointersFresh
    OpenRowIsActive
    SomeoneServed
PROPERTY TurnAroundRespected
