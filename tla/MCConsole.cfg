\* Two requests of the tab under way, three versions of the flag, and other writers of three kinds.
SPECIFICATION Spec
CONSTANTS
    r1 = r1
    r2 = r2
    Bucket <- MCBucket
    Holds <- MCHolds
    TypeOf <- MCTypeOf
    Falsy = {FALSE}
    Value = {TRUE, FALSE}
    Plan = {"pro"}
    Rollout = {75}
    OtherWrites <- OtherWriters
    Context <- MCContext
    Request = {r1, r2}
    MaxRules = 1
    MaxEdits = 1
    MaxVersion = 3
SYMMETRY Symmetry
INVARIANTS
    TypeOK
    PageShowsTheFlag
PROPERTIES
    NoSilentRevert
    RampUpKeepsUsers
CHECK_DEADLOCK FALSE
