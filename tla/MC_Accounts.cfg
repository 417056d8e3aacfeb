CONSTANTS
  Requests = {r1, r2}
  MaxFailedAttempts = 3
  LockoutTicks = 1
  ManualTicks = 2
  MaxFailures = 6
  MaxManual = 1
  SessionRequests = {q1, q2}
  Sessions = {s1, s2}
  MaxPairs = 3
  MaxPasswords = 2
  MfaRequests = {m1, m2}
  MaxSecrets = 2
  MaxBatches = 2
  MaxRestored = 2
SPECIFICATION AccountsSpec
CHECK_DEADLOCK FALSE
INVARIANTS AccountsType FailuresLock NoSessionOutlivesPassword HolderKeepsAccess SecondFactorHolds
PROPERTIES LockHolds StuckLoginsEnd
