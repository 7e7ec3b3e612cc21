SPECIFICATION Spec
CONSTANTS
    r1 = r1
    r2 = r2
    q1 = q1
    q2 = q2
    k1 = k1
    k2 = k2
    p1 = p1
    Earlier = Earlier
    None = None
    Request = {r1, r2}
    Quote = {q1, q2}
    InQuote = {q1}
    Key = {k1, k2}
    Phone = {p1}
INVARIANTS
    TypeOK
    AcceptedIsRecorded
    CollectsOnRecord
    FailureToldIsNotAccepted
    OneOrderPerQuote
    RetryIsRefused
PROPERTIES
    EndedIsFrozen
    ClaimsSpec
CHECK_DEADLOCK FALSE
