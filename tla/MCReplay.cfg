\* Two tabs and three requests, four tokens.
SPECIFICATION Spec
CONSTANTS
    a = a
    b = b
    c1 = c1
    c2 = c2
    c3 = c3
    Tab = {a, b}
    Call = {c1, c2, c3}
    Owner <- MCOwner
    MaxAttempts = 1
    MaxIssued = 4
PROPERTY ReuseEndsAllSessions
CHECK_DEADLOCK FALSE
