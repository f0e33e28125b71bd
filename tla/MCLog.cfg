SPECIFICATION FairSpec
CONSTANTS
    p1 = p1
    p2 = p2
    p3 = p3
    b1 = b1
    b2 = b2
    b3 = b3
    d0 = d0
    d1 = d1
    Proc = {p1, p2}
    NoProc = NoProc
    Block = {b1, b2}
    Data = {d0, d1}
    NoData = NoData
    LOGSIZE = 2
    MAXOPBLOCKS = 1
    NLOG = 3
    MaxCrashes = 2
INVARIANTS
    ReservationInv
    PinInv
    SleeperHasWaker
    LogInv
PROPERTIES
    AbsSpec
    LogEnds
