CONSTANTS
  RecordCalls = {c1, c2}
  MaxRecordCalls = 2
  MaxEventFaults = 1
  Collections = {g1}
  MaxEvidenceLosses = 1
  PurgeCalls = {p1, p2}
  MaxDisturbances = 2
  HistoryLimit = 1
  CriticalVolume = 0
  JobAttempts = 2
  MaxCalls = 2
SPECIFICATION RecordsSpec
SYMMETRY CallsAreAlike
CHECK_DEADLOCK FALSE
INVARIANTS RecordsType TimelineExplains EvidenceGenuine PurgeLeavesNoneExpired ToldWithinEstimate
PROPERTIES PurgeStaysInScope
