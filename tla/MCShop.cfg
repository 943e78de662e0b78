SPECIFICATION ShopSpec
CONSTANTS
    s1 = s1
    MAX_CART_ITEM_QUANTITY = 3
    Skus = {s1}
    Limit <- MCLimit
    Stocks = {0, 1, 2}
    Quantities = {1, 2}
    Workers = {w1, w2}
    Ids = {p1, p2}
    MaxSaves = 2
    MaxApplications = 2
    MaxToggles = 6
    MaxImports = 2
    Staff = {u1}
    Granted = {{}, {"commerce.orders"}}
    MaxResets = 2
    Nobody = Nobody
    Operator = Operator
SYMMETRY Symmetry
INVARIANTS
    WithinLimits
    HistoryTellsStatus
    OneApproval
    TogglesCount
    OutIsOut
    NothingAstray
PROPERTIES
    RemovedStaysRemoved
    StepsOfTheTable
CHECK_DEADLOCK FALSE
