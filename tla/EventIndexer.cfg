CONSTANTS
    p1 = p1
    None = None
    Pairs = {p1}
    Emitted = {"executed", "cancel"}
    Tasks = {t1, t2}
    Relays = {}
    LIMIT = 1
    MAX_RETRIES = 1
    MAX_EVENTS = 2
    MAX_FAULTS = 1
SPECIFICATION FairSpec
INVARIANTS
    HandledBehindCursor
    DuplicatesBounded
PROPERTIES
    ImplementsMirror
    EventuallyHandled
