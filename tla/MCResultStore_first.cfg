CONSTANTS
  Versions = {1, 2}
  Inventory = FALSE
  CliRuns = FALSE
  UserDeletes = FALSE
  Retention = TRUE
  Crashes = FALSE
  Preserve = 1
  BatchSize = 1
  MaxResults = 4
SPECIFICATION Spec
INVARIANTS
  FirstPreserved
