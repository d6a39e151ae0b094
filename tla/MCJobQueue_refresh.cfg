CONSTANTS
  a1 = a1
  a2 = a2
  t1 = t1
  t2 = t2
  Null = Null
  Agents = {a1}
  Targets = {t1}
  Bound <- MCUnbound
  Capable <- MCCapable
  Priority <- MCPriority
  Refreshed = {t1}
  Inventory = {}
  OfflineTargets = {}
  ManualRetry = FALSE
  HeartbeatStatuses = {"ONLINE"}
  MaxRetries = 0
  MaxJobs = 3
  MaxInFlight = 1
SPECIFICATION Spec
INVARIANTS
  AbortOnlyCancelled
  OneOpenJobPerTarget
PROPERTIES
  RefreshChainUnbroken
