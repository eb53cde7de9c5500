SPECIFICATION Spec
CONSTANTS
    o1 = o1
    o2 = o2
    c1 = c1
    c2 = c2
    a = a
    b = b
    NoCall = NoCall
    Orders = {o1, o2}
    Conns = {c1}
    Calls = {a, b}
    CallOrder <- TwinOrder
    CallConn <- SharedConn
    Qty = 1
    MaxFaults = 1
    MaxCrashes = 0
    MaxOps = 0
    TimelySend = TRUE
INVARIANT NothingForgotten

