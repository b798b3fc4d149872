CONSTANTS
    r1 = r1
    r2 = r2
    None = None
    SIZE = 2
    failureThreshold = 2
    recoveryTimeout = 2
    Requests = {r1, r2}
SPECIFICATION FairSpec
INVARIANTS
    BreakerMatchesCount
    NoneOverlooked
PROPERTIES
    EventuallyHealthy
