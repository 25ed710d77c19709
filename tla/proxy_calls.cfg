SPECIFICATION FairSpec
CONSTANTS
    s1 = s1
    s2 = s2
    a = a
    v1 = v1
    v2 = v2
    Partners = {a}
    VirtualKeys = {v1}
    PartnerLimit = 1
    VkLimit = 1
    Window = 3
    MaxDelay = 1
    Slots = {s1}
    MaxClock = 7
    MaxAttempts = 2
    Timeout = 3
    Backoff = 1
CHECK_DEADLOCK FALSE
INVARIANTS
    TypeOK
    SendsBounded
    EventsAgree
    OverrunBounded
    RetriesInWindow
PROPERTIES
    EveryCallAnswers
