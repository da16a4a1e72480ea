SPECIFICATION Spec
CONSTANTS
    ola = ola
    rita = rita
    None = None
    RuleIds = {r1}
    Users = {ola, rita}
    RoleOf <- TwoOfficers
    Expressions = {e1, e2}
    ListNames = {n1}
    ListValues = {v1}
    Slots = {q1, q2}
    MaxChanges = 5
    MaxUnrecorded = 0
SYMMETRY Symmetry
CHECK_DEADLOCK FALSE
INVARIANT
    ActiveContentReviewed
