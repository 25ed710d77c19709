SPECIFICATION Spec
CONSTANTS
    k1 = k1
    k2 = k2
    h1 = h1
    h2 = h2
    t1 = t1
    i1 = i1
    i2 = i2
    s1 = s1
    s2 = s2
    VKs = {k1}
    Hashes = {h1, h2}
    PayIds = {i1, i2}
    PayTokens = {}
    None = None
    MaxIntents = 2
    Slots = {s1, s2}
    Gated <- MCAllGated
    Unregistered <- MCNoneUnregistered
    Verdicts = {"verified"}
CHECK_DEADLOCK FALSE
INVARIANT
    RecordedProofBoundToRequest
SYMMETRY MCSymmetry
