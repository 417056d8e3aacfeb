CONSTANTS
  MaxFaults = 1
  BackupCalls = {c1, c2}
  MaxBackupEdits = 1
  MaxTicks = 1
  MaxLinkFaults = 1
  MaxSiteChanges = 1
  MaxStoreFaults = 2
  ServerIds = {s1}
  SiteIds = {t1, t2}
  Domains = {d1, d2}
  Requests = {r1, r2}
  MaxRequests = 4
SPECIFICATION HealingSpec
CHECK_DEADLOCK FALSE
INVARIANTS HealingType ChangesArePlanned RollbackRestores RollbackReportTrue VerdictHonest
INVARIANTS VerdictStored InventoryKept DiscoveryTellsNothing
