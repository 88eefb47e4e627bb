CONSTANTS
    Slots = {1}
    MaxAmount = 3
    i1 = i1
    Items = {i1}
    Returns = {r1, r2}
    Sold <- MCSold
    LineTotal <- MCLineTotal
    MaxUnits = 4
SPECIFICATION ReturnsSpec
INVARIANTS
    ClaimsFitSale
    AfterSalesAgree
    DuesAgree
CHECK_DEADLOCK FALSE
