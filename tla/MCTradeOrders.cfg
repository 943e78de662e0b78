SPECIFICATION Spec
CONSTANTS
    o1 = o1
    s1 = s1
    s2 = s2
    NoOrder = NoOrder
    NoEvent = NoEvent
    Orders = {o1, o2}
    Skus = {s1}
    Quantity <- TwoOrders
    CouponOrders = {o1, o2}
    Events = {e1, e2}
    Workers = {w1}
    OpeningStock = 2
    MaxQuantity = 1
    MaxStock = 2
    Deltas <- MCDeltas
    MayCrash = TRUE
SYMMETRY OrderSymmetry
INVARIANTS
    CouponHeldOnce
PROPERTIES
    ImplementsStockLedger
CHECK_DEADLOCK FALSE
