SPECIFICATION Spec
CONSTANTS
    k1 = k1
    k2 = k2
    p1 = p1
    p2 = p2
    r1 = r1
    r2 = r2
    None = None
    rate_limit_exceeded = rate_limit_exceeded
    x402_verify_failed = x402_verify_failed
    Keys = {k1, k2}
    Providers = {p1, p2}
    Reasons = {rate_limit_exceeded}
    Statuses = {504, 999}
    EventTypes = {x402_verify_failed}
    Jobs = {r1, r2}
    Ranges <- MCRanges
    Days = 2
    MaxRows = 2
SYMMETRY MCSymmetry
CHECK_DEADLOCK FALSE
INVARIANTS
    TypeOK
    NeverOvercounts
    CompletedRunCounts
    UsageAtRest
    ErrorsAtRest
