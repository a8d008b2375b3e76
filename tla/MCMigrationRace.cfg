SPECIFICATION MigrationSpec
CONSTANTS
  k1 = k1
  k2 = k2
  k3 = k3
  k4 = k4
  Missing = Missing
  Keys <- MCKeys
  MaxRowid = 3
  CopyBatch = 2
  Concurrent = TRUE
  Rebuilds = FALSE
  Interruptions = FALSE
PROPERTIES
  NothingLost
CHECK_DEADLOCK FALSE
