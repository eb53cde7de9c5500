SPECIFICATION Spec
CONSTANTS
    x = x
    y = y
    Group = Group
    NoAccount = NoAccount
    Accounts = {x, y}
    LastFee = 3
    Executed = {1, 3}
    PageSize = 2
    MaxFaults = 1
    MaxStops = 1
    MaxOps = 2
INVARIANT TypeOK
INVARIANT ChargedOnce
INVARIANT CursorCovers
INVARIANT SkipReportedOnce
INVARIANT OneFeeTarget
INVARIANT FeeInv
PROPERTY FeesSettle
PROPERTY ReadyFeesBooked
