CONSTANTS
    r1 = r1
    r2 = r2
    b1 = b1
    b2 = b2
    k1 = k1
    k2 = k2
    int = int
    Records = {r1, r2}
    Bins = {b1, b2}
    Keys = {k1, k2}
    Items <- MCItems
    BadBin = BadBin
    Requests <- MCRequests
    MaxCalls = 3
    MaxRuns = 3
SPECIFICATION Spec
INVARIANT EveryBinIsStored
CHECK_DEADLOCK FALSE
