SPECIFICATION Spec
CONSTANTS
    ola = ola
    rita = rita
    None = None
    RuleIds = {r1, r2}
    Users = {ola, rita}
    RoleOf <- MCRoleOf
    Expressions = {e1, e2}
    ListNames = {n1}
    ListValues = {v1}
    Slots = {q1, q2}
    MaxChanges = 4
    MaxUnrecorded = 1
SYMMETRY Symmetry
CHECK_DEADLOCK FALSE
INVARIANTS
    TypeOK
    VersionsAudited
    ForceOnRecord
    ActivationApproved
    NoActivationLost
    ReviewedUnlessStale
    TablesExplained
