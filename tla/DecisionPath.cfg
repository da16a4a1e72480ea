SPECIFICATION Spec
CONSTANTS
    k1 = k1
    k2 = k2
    t1 = t1
    t2 = t2
    None = None
    Attempts = {a1, a2, a3}
    Workers = {w1}
    Keys = {k1, k2}
    RefOf <- MCRefOf
    MaxVersion = 2
    RuleSetOf <- MCRuleSetOf
    Fallback <- MCFallback
SYMMETRY Symmetry
CHECK_DEADLOCK FALSE
INVARIANTS
    RetryReplays
    VelocityExact
    AllowedIsCounted
    ShadowInert
    ShadowForecast
PROPERTIES
    ImplementsLedger
