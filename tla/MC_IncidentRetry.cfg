SPECIFICATION Spec
CONSTANTS
    Incidents = {i1}
    Workers = {w1}
    Entries <- NewOnly
    MaxAttempts = 2
    MaxFixAttempts = 2
    MaxStalled = 1
    MaxTrouble = 1
    Window = 2
    MaxIncidentsPerWindow = 2
    EscalationThreshold = 3
CHECK_DEADLOCK FALSE
INVARIANT RetriesWork
