SPECIFICATION Spec
CONSTANTS
    Calls = {c1, c2}
    MaxSessions = 2
    MaxSecrets = 5
    Addresses = {a1, a2, a3}
    Requests = {r1, r2}
    MaxUpdates = 5
    Texts = {t1, t2}
    Coupons = {d1, d2}
    NoAddress = NoAddress
    NoCoupon = NoCoupon
    Keys = {k1, k2}
    MaxPicks = 3
    MaxGenerations = 3
    Root = Root
    Absent = Absent
    MaxChanges = 3
    MAX_CART_ITEM_QUANTITY = 3
    MaxMoves = 3
    Thresholds = {1, 2}
    NoStock = NoStock
    MaxVersion = 4
    New = New
    Blank = Blank
SYMMETRY Symmetry
INVARIANTS
    KeepsItsSession
    OneDefault
    QuoteFitsScreen
    PreviewsAccountedFor
    TreeStands
    PagesAreCurrent
    SentAsMeant
CHECK_DEADLOCK FALSE
