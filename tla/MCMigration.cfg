SPECIFICATION MigrationService
CONSTANTS
  k1 = k1
  k2 = k2
  k3 = k3
  k4 = k4
  Missing = Missing
  Keys <- MCKeys
  MaxRowid = 4
  CopyBatch = 2
  Concurrent = FALSE
  Rebuilds = FALSE
  Interruptions = TRUE
INVARIANTS
  CopiedOnce
PROPERTIES
  NothingLost
  MigrationEnds
CHECK_DEADLOCK FALSE
