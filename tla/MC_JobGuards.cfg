SPECIFICATION GuardsSpec
CONSTANTS
    Callers = {c1, c2}
    FailureThreshold = 2
    RecoveryTimeout = 2
    MonitoringPeriod = 3
    FailureCap = 3
    MaxForced = 2
    Sites = {s1}
    Window = 3
    MaxIncidentsPerWindow = 3
    EscalationThreshold = 4
    MaxOpen = 4
INVARIANTS
    GuardsType
    ClosedBelowThreshold
    NoEscalationAboveMaximum
    MaintenanceForgetsNobody
PROPERTIES
    KeepsPromise
    NotStuckOpen
    CooldownEnds
