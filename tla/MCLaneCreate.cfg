SPECIFICATION Spec
CONSTANTS
    a = a
    b = b
    t = t
    NoRequest = NoRequest
    Requests = {a, t}
    OpsOf <- Creation
INVARIANT CreateSettles
