\* Two tabs and three requests, lock-out after two attempts.
SPECIFICATION Spec
CONSTANTS
    a = a
    b = b
    c1 = c1
    c2 = c2
    c3 = c3
    Tab = {a, b}
    Call = {c1, c2, c3}
    Owner <- MCOwner
    MaxAttempts = 2
    MaxIssued = 3
INVARIANT AttemptsAreLimited
CHECK_DEADLOCK FALSE
