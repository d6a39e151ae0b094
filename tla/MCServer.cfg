CONSTANTS
  a1 = a1
  a2 = a2
  k1 = k1
  k2 = k2
  a3 = a3
  j1 = j1
  j2 = j2
  j3 = j3
  w1 = w1
  None = None
  Agents = {a1, a2}
  Handlers = {k1, k2}
  Cancels = TRUE
  Crashes = TRUE
  MaxRetries = 1
  MaxJobs = 2
  Null = Null
SPECIFICATION SpecOne
CHECK_DEADLOCK FALSE
SYMMETRY Symmetry
INVARIANTS
  PoolOfflineTold
  OfflineHoldsNoJobs
PROPERTIES
  ClaimsExclusive
