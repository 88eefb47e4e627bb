CONSTANTS
    Warehouses <- MCWarehouses
    Default <- MCDefault
    Variants = {v1}
    MaxQty = 2
    MaxUnits = 1
    o1 = o1
    o2 = o2
    Orders = {o1, o2}
    Requests = {"r1", "r2", "r3"}
    TokenOf <- MCTokenOf
    Limits = {1, 2}
    c1 = c1
    c2 = c2
    Customers = {c1, c2}
    Phones = {p1, p2, plus1}
    Emails = {e1, e2}
    NoEmail = NoEmail
    p1 = p1
    p2 = p2
    plus1 = plus1
    e1 = e1
    e2 = e2
    NumberIn <- MCNumberIn
    Purchases = {b1}
    Slots = {"a1", "a2", "a3"}
    Tabs = {"t1", "t2"}
SPECIFICATION StoreSpec
INVARIANTS
    OneOrderPerToken
    CouponCountsRedemptions
    IdentityFindsOwner
    DefaultAddressKept
