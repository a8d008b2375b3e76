SPECIFICATION CachesSpec
CONSTANTS
  a1 = a1
  a2 = a2
  t1 = t1
  p1 = p1
  p2 = p2
  Absent = Absent
  NoRow = NoRow
  Assets <- MCAssets
  Tables <- MCTables
  Procs <- MCProcs
  ChatTables <- MCChatTables
  Messages <- MCMessages
  Plain <- MCPlain
  Forwarded <- MCForwarded
  Images <- MCImages
  MaxPath = 3
  Asked <- MCAsked
  Factor = 1
  ScanCap = 2
  MaxRowid = 1
  MaxSource = 1
  Indexing = "alone"
  MaxGen = 2
  MaxIndex = 1
  CrashSafe = {"groups"}
SYMMETRY MCSymmetry
INVARIANTS
  CachesCurrent
  QueryReturnsBest
