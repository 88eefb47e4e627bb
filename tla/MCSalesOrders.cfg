CONSTANTS
    Warehouses = {1, 2}
    Default = 2
    Variants = {v1, v2}
    MaxQty = 2
    MaxUnits = 2
    Orders = {o1, o2}
    NoHold = NoHold
SPECIFICATION PosSpec
SYMMETRY MCSymmetry
INVARIANTS
    StatusMatchesStock
    ReservationsBacked
    CompletionNeverBlocked
    OneSalePerHold
PROPERTIES
    OnlyCompletionShips
