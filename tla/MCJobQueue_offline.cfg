CONSTANTS
  a1 = a1
  a2 = a2
  t1 = t1
  t2 = t2
  Null = Null
  Agents = {a1}
  Targets = {t1}
  Bound <- MCUnbound
  Capable <- MCCapable
  Priority <- MCPriority
  Refreshed = {}
  Inventory = {t1}
  OfflineTargets = {t1}
  ManualRetry = TRUE
  HeartbeatStatuses = {"ONLINE", "ERROR"}
  MaxRetries = 1
  MaxJobs = 2
  MaxInFlight = 0
SPECIFICATION Spec
PROPERTIES
  Lifecycle
