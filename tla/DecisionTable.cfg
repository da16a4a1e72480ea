SPECIFICATION Spec
CONSTANTS
    Runs = {r1, r2, r3}
    months_ahead = 2
    MaxMonth = 3
SYMMETRY Symmetry
INVARIANTS
    StrandedMeansLapsed
    OneRunCompletes
