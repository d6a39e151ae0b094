CONSTANTS
  a1 = a1
  a2 = a2
  t1 = t1
  t2 = t2
  Null = Null
  Agents = {a1}
  Targets = {t1}
  Bound <- MCUnbound
  Capable <- MCCapable
  Priority <- MCPriority
  Refreshed = {t1}
  Inventory = {t1}
  OfflineTargets = {}
  ManualRetry = FALSE
  HeartbeatStatuses = {"ONLINE"}
  MaxRetries = 1
  MaxJobs = 4
  MaxInFlight = 0
SPECIFICATION Spec
PROPERTIES
  RefreshChainUnbroken
