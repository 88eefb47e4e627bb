CONSTANTS
    Warehouses <- MCWarehouses
    Default <- MCDefault
    v1 = v1
    u1 = u1
    u2 = u2
    Variants = {v1}
    MaxQty = 2
    Units = {u1, u2}
    Sku <- MCSku
    Claims = {c1}
    Purchases = {"po1"}
    Cost <- MCCost
    MaxCost = 1
    Charges <- MCCharges
    MaxLoad = 3
SPECIFICATION PurchaseSpec
SYMMETRY MCSymmetry
INVARIANTS
    OutstandingIsPayable
PROPERTIES
    StockFollowsPurchase
    UnitsMoveWithStock
