SPECIFICATION Spec
CONSTANTS
    None = None
    Browsers = {b1, b2}
    Spellings = {ascii, fullwidth}
    AsShown = ascii
    FREE_ATTEMPTS = 1
    BASE_LOCKOUT = 1
    MAX_LOCKOUT = 2
    ATTEMPT_WINDOW = 3
    CODE_REPLAY = 3
    MaxSecrets = 2
    MaxFaults = 1
    MaxCodes = 1
    MaxCounters = 1
INVARIANTS
    
    FailuresBounded
    FactorProved
PROPERTIES
    LockoutEnds
