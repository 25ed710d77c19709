SPECIFICATION Spec
CONSTANTS
    s1 = s1
    s2 = s2
    s3 = s3
    Second = 3
    Rate = 2
    Cap = 2
    KeyTtl = 5
    MaxDelay = 2
    InOrder = TRUE
    Slots = {s1, s2}
    MaxClock = 11
SYMMETRY MCSymmetry
CHECK_DEADLOCK FALSE
INVARIANTS
    TypeOK
    WindowBound
PROPERTY
    DenialJustified
