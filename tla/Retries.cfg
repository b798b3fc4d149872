CONSTANTS
    p1 = p1
    c1 = c1
    c2 = c2
    k1 = k1
    None = None
    Pairs = {p1}
    Calls = {c1, c2}
    Cancels = {k1}
    MAX_RETRIES = 2
    CONCURRENCY = 1
    MAX_ROWS = 3
    MAX_FAULTS = 1
SPECIFICATION Spec
INVARIANTS
    PendingBounded
    CancelledJobsAreGone
    PendingIsDriven
SYMMETRY MCCallSymmetry
CHECK_DEADLOCK FALSE
