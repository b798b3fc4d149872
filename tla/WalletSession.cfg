CONSTANTS
    g1 = g1
    g2 = g2
    c1 = c1
    c2 = c2
    a1 = a1
    a2 = a2
    None = None
    Accounts = {g1, g2}
    Calls = {c1, c2}
    Attempts = {a1, a2}
SPECIFICATION Spec
INVARIANTS
    DisconnectSticks
    SpinnersHaveWork
    LiveSubmissionIsCurrent
    FailedConnectIsShown
PROPERTIES
    SendsForTheSession
