SPECIFICATION Spec
CONSTANTS
    a = a
    b = b
    t = t
    NoRequest = NoRequest
    Requests = {a, b, t}
    OpsOf <- AnyTwo
SYMMETRY Swap
INVARIANT TypeOK
INVARIANT LaneOnLiveEngine
INVARIANT OneRestartOwner
INVARIANT DivergenceIsTold
INVARIANT LaneSeesWhole
PROPERTY NoAdmissionIntoDoubt
