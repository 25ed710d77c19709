SPECIFICATION Spec
CONSTANTS
    partner = partner
    acme = acme
    other = other
    key1 = key1
    key2 = key2
    terms1 = terms1
    terms2 = terms2
    None = None
    Registered = {"noop", "stub"}
    Tokens <- MCTokens
    Decode <- MCDecode
    Patterns <- MCPatterns
    Tails <- MCTails
    Defaults <- MCDefaults
    Ids <- MCIds
    Overrides <- MCOverrides
    Callers <- MCCallers
    MaxEdits = 2
CHECK_DEADLOCK FALSE
INVARIANTS
    AllowlistsAgree
    ResolutionIsLayered
PROPERTY
    OverridesAreScoped
