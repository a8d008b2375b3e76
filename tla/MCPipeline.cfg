SPECIFICATION PipelineService
CONSTANTS
  a1 = a1
  a2 = a2
  t1 = t1
  t2 = t2
  Absent = Absent
  NoRow = NoRow
  NoTable = NoTable
  Assets <- MCAssets
  Tables <- MCTables
  ChatTables <- MCChatTables
  Messages <- MCMessages
  Plain <- MCPlain
  Forwarded <- MCForwarded
  MaxRowid = 2
  MaxSource = 2
  BatchSize = 1
  LegacyScan = "complete"
  Forces = {FALSE}
  Interruptions = FALSE
  Corrupt = {}
  RowBudgets = {2}
  FactBatch = 1
  Pauses = FALSE
  Crashes = TRUE
  Indexing = "between builds"
INVARIANTS
  ReadySound
PROPERTIES
  PipelineConverges
