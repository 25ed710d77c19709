SPECIFICATION Spec
CONSTANTS
    s1 = s1
    s2 = s2
    Slots = {s1, s2}
    Ttl = 2
    MaxDelay = 2
    MaxVersion = 3
    MaxClock = 9
SYMMETRY MCSymmetry
CHECK_DEADLOCK FALSE
INVARIANTS
    CacheInv
    StalenessBounded
    FallbackIsCurrent
