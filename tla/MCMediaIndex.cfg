SPECIFICATION MediaSpec
CONSTANTS
  account = account
  image = image
  photo = photo
  clip = clip
  song = song
  Dirs = {account, image}
  Roots <- MCRoots
  SubDirs <- MCSubDirs
  FilesIn <- MCFilesIn
  Paths <- MCPaths
  Walkers = {w1, w2}
  Workers = {p1, p2}
  JobLimit = 1
  EventLimit = 1
  JobBatch = 1
  WriteBatch = 2
  Limits = {1, 4}
  EarlierRows <- MCEarlierRows
  HashFull = TRUE
  MaxEdits = 1
  MaxRuns = 1
  MaxPanics = 2
  Samples <- MCSamples
  TailBytes = 150
  MaxProbe = 1000
  SyncBytes = 24
  SyncCandidates = 3
  MinFrames = 3
  MaxFrames = 4
  EbmlDepth = 4
  SvgBytes = 26
INVARIANTS
  StampsHonest
  RunAccounts
  WalksSound
CHECK_DEADLOCK FALSE
PROPERTIES
  RunEnds
