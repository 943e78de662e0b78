SPECIFICATION Spec
CONSTANTS
    NoReference = NoReference
    Workers = {w1, w2}
    References = {o1, o2}
    Deltas <- MCDeltas
    InitialStocks = {2}
    MaxQuantity = 2
    MaxVersion = 4
SYMMETRY Symmetry
INVARIANTS
    TypeOK
    ReservedIsHeld
    NeverOversold
    LedgerReplays
    LedgerTellsEachReservation
    AnswersAreTrue
PROPERTIES
    ImplementsStockLedger
