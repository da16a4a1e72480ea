SPECIFICATION Spec
CONSTANTS
    None = None
    Refs = {1, 2, 3}
    Details <- MCDetails
    Filters <- MCFilters
    Deciders = {p1, p2}
    Windows = {1, 3}
    Margin = 2
    MAX_MEMBERS_FETCHED = 2
    MaxLate = 1
    MaxTime = 7
    MaxCalls = 3
SYMMETRY Symmetry
CHECK_DEADLOCK FALSE
INVARIANTS
    WindowExact
    CountUpToCap
    LifetimeCoversWindow
