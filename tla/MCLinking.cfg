SPECIFICATION LinkingSpec
CONSTANTS
  a1 = a1
  a2 = a2
  t1 = t1
  t2 = t2
  Absent = Absent
  NoRow = NoRow
  NoTable = NoTable
  Assets <- MCAssets
  Tables <- MCTables
  ChatTables <- MCChatTables
  Messages <- MCMessages
  Plain <- MCPlain
  Forwarded <- MCForwarded
  Corrupt <- MCCorrupt
  MaxRowid = 3
  MaxSource = 2
  BatchSize = 2
  LegacyScan = "complete"
  Forces = {TRUE, FALSE}
  Interruptions = TRUE
  RowBudgets = {1, 9}
  p1 = p1
  p2 = p2
  w1 = w1
  w2 = w2
  Paths <- MCPaths
  Log <- MCLog
  Parsers <- MCParsers
  Batch = 2
  CacheSize = 1
  MaxChanges = 3
  MayPanic = TRUE
INVARIANTS
  CheckpointSound
  CompletedTablesAreLinked
  LinksFollowIndex
PROPERTIES
  OnlyForceDeletes
  NeverStale
  EventuallyLinked
  LinkingEnds
CHECK_DEADLOCK FALSE
