SPECIFICATION Spec
CONSTANTS
    NoJob = NoJob
    JobIds = {j1, j2}
    Workers = {w1, w2}
    Operators = {p1, p2}
    MaxAttempts = 2
    MayCrash = TRUE
SYMMETRY JobSymmetry
INVARIANTS
    OneWorkerPerJob
    AttemptsCounted
    CompletedIsSettled
PROPERTIES
    FinishedStaysFinished
CHECK_DEADLOCK FALSE
