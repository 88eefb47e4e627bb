CONSTANTS
    Slots = {1}
    MaxAmount = 3
    i1 = i1
    Items = {i1}
    Returns = {r1, r2}
    Sold <- MCSold
    LineTotal <- MCLineTotal
    MaxUnits = 4
SPECIFICATION ReturnsSpec
INVARIANT NetCashFlowAgrees
CHECK_DEADLOCK FALSE
