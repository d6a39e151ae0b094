CONSTANTS
  home = home
  away = away
  NoPlace = NoPlace
  h1 = h1
  h2 = h2
  w1 = w1
  u1 = u1
  u2 = u2
  e1 = e1
  e2 = e2
  nobody = nobody
  p1 = p1
  t1 = t1
  c1 = c1
  x = x
  y = y
  Pipelines = {p1}
  Teams = {t1}
  Collections = {c1}
  Handlers = {h1, h2}
  Contents = {x, y}
  Valids = {x}
  Null = Null
  MaxVersion = 2
SPECIFICATION SpecOne
CHECK_DEADLOCK FALSE
INVARIANTS
  DeadlinesShown
  TotalCounts
  GroupsAreComponents
  ConflictsTold
  NoDuplicate
  PinnedStored
PROPERTIES
  AttendanceKept
  CheckedMeansReminded
  VersionsKept
