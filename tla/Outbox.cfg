CONSTANTS
    p1 = p1
    None = None
    Pairs = {p1}
    Emitted = {"executed"}
    Tasks = {t1}
    Relays = {l1, l2}
    LIMIT = 1
    MAX_RETRIES = 1
    MAX_EVENTS = 2
    MAX_FAULTS = 1
SPECIFICATION FairSpec
INVARIANTS
    PublishedWasDispatched
PROPERTIES
    OutboxDrains
