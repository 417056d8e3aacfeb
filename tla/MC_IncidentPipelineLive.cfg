SPECIFICATION FairSpec
CONSTANTS
    Incidents = {i1, i2}
    Workers = {w1, w2}
    Entries <- NewOnly
    MaxAttempts = 2
    MaxFixAttempts = 2
    MaxStalled = 1
    MaxTrouble = 1
    Window = 2
    MaxIncidentsPerWindow = 2
    EscalationThreshold = 3
\* The queue may run empty.
CHECK_DEADLOCK FALSE
INVARIANTS
    LoopsReleased
    BlockedAtMaximum
PROPERTIES
    JobsFinish
