SPECIFICATION Spec
CONSTANTS
    None = None
    t1 = t1
    k1 = k1
    d1 = d1
    Tenants = {t1, t2}
    KeyIds = {k1, k2}
    Bootstrap = {k1}
    BootKey <- MCBootKey
    Asked = {"engineer", "risk_manager"}
    Decisions = {d1}
    DecisionOf <- MCDecisionOf
    Statuses = {"cleared", "escalated"}
    Workers = {w1, w2}
    MaxTrail = 2
SYMMETRY Symmetry
INVARIANTS
    QueryScoped
    AcceptedIsLive
    NoEscalation
    ChangesAudited
