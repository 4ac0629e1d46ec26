\* Two tabs and three requests, three tokens, lock-out after one attempt.
SPECIFICATION FairSpec
CONSTANTS
    a = a
    b = b
    c1 = c1
    c2 = c2
    c3 = c3
    Tab = {a, b}
    Call = {c1, c2, c3}
    Owner <- MCOwner
    MaxAttempts = 1
    MaxIssued = 3
INVARIANTS
    TypeOK
    RefusedForCause
    LockoutOvershoot
PROPERTY CallsSettle
CHECK_DEADLOCK FALSE
