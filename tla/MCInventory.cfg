CONSTANTS
  a1 = a1
  a2 = a2
  w1 = w1
  p1 = p1
  p2 = p2
  r1 = r1
  c1 = c1
  c2 = c2
  p = p
  q = q
  r = r
  s = s
  h1 = h1
  h2 = h2
  Null = Null
  Folders = {p, q, s}
  Above <- MCAbove
  Collections = {c1, c2}
  Handlers = {h1, h2}
  NewFolders = {q}
  Clears = TRUE
  EarlyDeletes = FALSE
  MaxCrashes = 1
SPECIFICATION SpecOne
CHECK_DEADLOCK FALSE
INVARIANTS
  ChainOfImports
  DeltaDescribesInfo
  SerialMapping
  TestedWhereItIs
  ListingCurrent
  OwnersExist
