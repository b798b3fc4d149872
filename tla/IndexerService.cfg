CONSTANTS
    p1 = p1
    None = None
    Pairs = {p1}
    Polls = {q1, q2}
    MAX_EVENTS_PER_PAGE = 2
    MAX_EVENTS = 3
    MAX_FAULTS = 2
SPECIFICATION FairSpec
INVARIANTS
    RecordedBehindCursor
    CaughtUpMirrors
PROPERTIES
    ImplementsMirror
    MirrorsTheContract
