SPECIFICATION Spec
CONSTANTS
    o1 = o1
    s1 = s1
    s2 = s2
    NoOrder = NoOrder
    NoEvent = NoEvent
    Orders = {o1}
    Skus = {s1, s2}
    Quantity <- OneOrder
    CouponOrders = {o1}
    Events = {e1, e2}
    Workers = {w1, w2}
    OpeningStock = 2
    MaxQuantity = 2
    MaxStock = 2
    Deltas <- MCDeltas
    MayCrash = TRUE
SYMMETRY RequestSymmetry
INVARIANTS
    TypeOK
    ItemsFollowOrder
    PaidByOneEvent
PROPERTIES
    OrderMoves
CHECK_DEADLOCK FALSE
