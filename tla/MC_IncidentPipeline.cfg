SPECIFICATION Spec
CONSTANTS
    Incidents = {i1}
    Workers = {w1, w2}
    Entries <- AnyEntry
    MaxAttempts = 2
    MaxFixAttempts = 2
    MaxStalled = 1
    MaxTrouble = 3
    Window = 2
    MaxIncidentsPerWindow = 2
    EscalationThreshold = 3
SYMMETRY Symmetry
\* The queue may run empty.
CHECK_DEADLOCK FALSE
INVARIANTS
    TypeOK
    StoredMeansActedOn
    LossesKnown
    HandoversBounded
    FailedMeansEscalated
