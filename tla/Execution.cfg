CONSTANTS
    Request = {r1, r2, r3}
    Key = {k1}
    Payload = {p1, p2}
    None = None
    POLLS = 1
SPECIFICATION Spec
INVARIANTS
    TypeOK
    ReportedPaymentsHappened
PROPERTIES
    SuccessIsRemembered
    EveryCallReturns
CHECK_DEADLOCK FALSE
