SPECIFICATION Spec
CONSTANTS
    x = x
    y = y
    None = None
    SkuOrder <- MCSkuOrder
    Stock <- MCStock
    Offers <- MCOffers
    Carts <- MCCarts
    Coupon <- MCCoupon
    Buyers = {u, v}
    Claims = {c1, c2}
    Quotes = {q1, q2}
    Keys = {k}
    Workers = {w1, w2}
SYMMETRY Symmetry
INVARIANTS
    CouponKept
    OrdersAddUp
PROPERTIES
    PlacedOnCurrentTerms
CHECK_DEADLOCK FALSE
