SPECIFICATION Spec
CONSTANTS
    w1 = w1
    w2 = w2
    Workers = {w1, w2}
    Offset <- ClocksInStep
    IdOf <- MCIdOf
    Payloads = {p1, p2}
    MaxTime = 4
    MaxCheckpoints = 2
    MaxFaults = 2
SYMMETRY Symmetry
CHECK_DEADLOCK FALSE
INVARIANTS
    TypeOK
    NoFalseAlarm
    AlterationLocated
    QuietCheckpointHolds
    LossDetected
PROPERTY
    ImplementsAuditLog
