CONSTANTS
    Replica = {r1, r2}
    Task = {t1}
    Delivery = {1, 2, 3}
    MAX_ATTEMPTS = 3
    LIMIT = 2
    None = None
    MAX_CRASHES = 1
    MAX_OUTAGES = 1
SPECIFICATION FairSpec
INVARIANTS
    DeliveredMeansAccepted
PROPERTIES
    EventuallySettled
