SPECIFICATION Spec
CONSTANTS
    a = a
    b = b
    m1 = m1
    m2 = m2
    NoItem = NoItem
    Items = {a, b}
    Merchants = {m1, m2}
    MerchantOf <- MCMerchantOf
    Ordered <- MCOrdered
    Parcels = {p1, p2}
    Requests <- MCRequests
    Buyers = {d1}
    Choices <- MCChoices
    Workers = {w1, w2}
    MaxRefunds = 2
INVARIANTS
    PaidBackOnce
CHECK_DEADLOCK FALSE
