SPECIFICATION MCSpec
CONSTANTS
    Sites = {s1}
    Window = 3
    MaxIncidentsPerWindow = 3
    EscalationThreshold = 5
    MaxOpen = 12
INVARIANT WindowLimit
