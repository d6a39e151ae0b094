CONSTANTS
  a1 = a1
  c1 = c1
  c2 = c2
  r1 = r1
  r2 = r2
  s1 = s1
  h1 = h1
  w1 = w1
  Null = Null
  Results = {r1, r2}
  Chunked = {r1}
  Syncs = {s1}
  Handlers = {h1}
  Kills = TRUE
  Stops = TRUE
  MaxFaults = 2
  MaxJobs = 7
SPECIFICATION SpecOne
CHECK_DEADLOCK FALSE
INVARIANTS
  NothingLost
PROPERTIES
  ClientSettles
  ValidationSettles
  PendingSettles
