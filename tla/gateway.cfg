SPECIFICATION Spec
CONSTANTS
    s1 = s1
    s2 = s2
    partner = partner
    acme = acme
    key1 = key1
    terms1 = terms1
    None = None
    Second = 2
    Month = 4
    MinTtl = 1
    MaxDelay = 1
    Limit = 1
    Months = 2
    Tokens = {"/", "*", "v", "w", "%77"}
    Slots = {s1, s2}
    Registered = {"noop", "stub"}
    Decode <- MCDecode
    Policies <- MCPolicies
    Requests <- MCRequests
    Env <- MCEnv
    Caller <- MCCaller
SYMMETRY MCSymmetry
CHECK_DEADLOCK FALSE
INVARIANTS
    TypeOK
    CapUntilLastSecond
    AtMostTwice
    ForwardedWasLet
    SpendsInOrder
    RefusalsTellWhy
