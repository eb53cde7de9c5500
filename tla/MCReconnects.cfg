SPECIFICATION StreamSpec
CONSTANTS
    o1 = o1
    o2 = o2
    c1 = c1
    c2 = c2
    a = a
    b = b
    NoCall = NoCall
    Orders = {o1}
    Conns = {c1}
    Calls = {a}
    CallOrder <- LoneOrder
    CallConn <- LoneConn
    Qty = 2
    MaxFaults = 1
    MaxCrashes = 1
    MaxOps = 1
    TimelySend = TRUE
PROPERTY SendsResolve
