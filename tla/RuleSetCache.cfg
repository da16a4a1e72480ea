SPECIFICATION Spec
CONSTANTS
    Workers = {w1}
    MaxVersion = 5
    Uncompilable = {2}
    Malformed = {4}
INVARIANTS
    TypeOK
PROPERTIES
    NeverGoesBack
    ImplementsFeed
    PollPropagates
