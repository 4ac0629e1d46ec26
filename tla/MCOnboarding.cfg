\* Two addresses and two signups, one link visit; two flags and creations, one key,
\* two tests of it under way.
SPECIFICATION Spec
CONSTANTS
    e1 = e1
    e2 = e2
    r1 = r1
    r2 = r2
    v1 = v1
    k1 = k1
    k2 = k2
    s1 = s1
    j1 = j1
    j2 = j2
    Email = {e1, e2}
    Request = {r1, r2}
    Click = {v1}
    Key = {k1, k2}
    SdkKey = {s1}
    Job = {j1, j2}
    MaxTests = 2
SYMMETRY Symmetry
INVARIANTS
    TypeOK
    VerifiedIsWhole
    StepsAreEarned
CHECK_DEADLOCK FALSE
