SPECIFICATION Spec
CONSTANTS
    o1 = o1
    o2 = o2
    c1 = c1
    c2 = c2
    a = a
    b = b
    NoCall = NoCall
    Orders = {o1}
    Conns = {c1, c2}
    Calls = {a, b}
    CallOrder <- RivalOrder
    CallConn <- RivalConn
    Qty = 1
    MaxFaults = 1
    MaxCrashes = 1
    MaxOps = 1
    TimelySend = TRUE
INVARIANT OneSend
INVARIANT SendInv
INVARIANT RefusedMeansNoVenueOrder
INVARIANT ClaimFence
PROPERTY FinishedStaysFinished
