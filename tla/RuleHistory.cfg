SPECIFICATION Spec
CONSTANTS
    None = None
    MAX_SOURCE = 30
    MAX_NESTING_DEPTH = 3
    MAX_UNARY_RUN = 2
    MAX_NODES = 32
    MAX_STEPS = 32
    MAX_RESULT_BITS = 6
    MAX_NUMBER_DIGITS = 2
    NotPlain = {"__class__", "quote"}
    Alphabet <- MCAlphabet
    Age <- MCAge
    Sources <- MCSources
    Bodies <- MCBodies
    Answers <- MCAnswers
    Contexts <- MCContexts
    Fallbacks <- MCFallbacks
    PublishedAs <- MCPublishedAs
    MaxRules = 2
    MaxDecisions = 2
    MaxTogether = 6
INVARIANTS
    BuiltAsMeant
    PublishedEvaluates
    BacktestSound
    ReplayReproduces
CHECK_DEADLOCK FALSE
