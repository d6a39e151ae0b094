CONSTANTS
  w1 = w1
  w2 = w2
  r1 = r1
  r2 = r2
  s1 = s1
  h1 = h1
  h2 = h2
  p1 = p1
  p2 = p2
  t1 = t1
  x = x
  y = y
  Null = Null
  Versions = {1}
  Inventory = FALSE
  CliRuns = TRUE
  UserDeletes = FALSE
  Retention = TRUE
  Crashes = TRUE
  Preserve = 1
  BatchSize = 2
  MaxResults = 3
SPECIFICATION SpecOne
CHECK_DEADLOCK FALSE
INVARIANTS
  JobsAccounted
  FileInfoMatches
  OneStage
  StoredOnce
  DefaultUsable
  CopiesFaithful
  NewestSurvives
