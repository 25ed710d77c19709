SPECIFICATION BudgetSpec
CONSTANTS
    s1 = s1
    s2 = s2
    a = a
    v1 = v1
    v2 = v2
    Partners = {a}
    VirtualKeys = {v1}
    PartnerLimit = 2
    VkLimit = 1
    Window = 2
    MaxDelay = 1
    Slots = {s1, s2}
    MaxClock = 5
SYMMETRY MCSymmetry
CHECK_DEADLOCK FALSE
INVARIANT
    AlwaysResets
