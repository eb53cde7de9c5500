SPECIFICATION FairSpec
CONSTANTS
    a = a
    b = b
    t = t
    NoRequest = NoRequest
    Requests = {a, b, t}
    OpsOf <- Lockers
PROPERTY EveryRequestAnswered
