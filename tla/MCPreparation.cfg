SPECIFICATION PreparationSpec
CONSTANTS
  a1 = a1
  a2 = a2
  t1 = t1
  t2 = t2
  Absent = Absent
  NoRow = NoRow
  Assets <- MCAssets
  Tables <- MCTables
  ChatTables <- MCChatTables
  Messages <- MCMessages
  Plain <- MCPlain
  Forwarded <- MCForwarded
  MaxRowid = 2
  MaxSource = 2
  FactBatch = 1
  Pauses = TRUE
  Crashes = TRUE
  d1 = d1
  Databases <- MCDatabases
  Kinds <- MCKinds
  Requests <- MCRequests
  Versions = {1, 2, 3}
  Empties = {2}
  Sizes <- MCSizes
  Nothing = Nothing
  Cells <- MCCells
  MaxCells = 5
  MaxScan = 2
  GapFrom = 2
  MaxGap = 2
  LongText = 3
  Near = 1
  Containers <- MCContainers
  Readers = {r1, r2}
  Questions <- MCQuestions
  CacheItems = 1
  CacheCells = 2
  None = None
  StreamLimit = None
  MaxEvents = 3
INVARIANTS
  PreparedSound
  FramesAgree
  StreamsSound
  BuildSound
PROPERTIES
  CopiesAreFresh
  PreparesInTheEnd
