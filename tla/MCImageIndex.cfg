SPECIFICATION ImageIndexSpec
CONSTANTS
  f1 = f1
  f2 = f2
  c1 = c1
  c2 = c2
  Paths <- MCPaths
  Goods <- MCGoods
  Kinds <- MCKinds
  Modes = {"parallel", "fast"}
  Bad = Bad
  Gone = Gone
  Unknown = Unknown
  NoRow = NoRow
  MaxEdits = 1
  MaxRuns = 2
  Limits <- MCLimits
  Forces <- MCForces
  BatchSize = 2
  ChunkSize = 1
  Depth = 1
  QueueSize = 1
  ImportAfter = 2
  r1 = r1
  w1 = w1
  w2 = w2
  Assets <- MCAssets
  ExactOf <- MCExactOf
  NearOf <- MCNearOf
  Readers <- MCReaders
  AskedFor = {1, 4}
  RankWorkers <- MCWorkers
  Candidates <- MCCandidates
  MaxGroups = 2
  MaxMembers = 3
  Parallelism = 2
INVARIANTS
  NothingLeftOut
  GroupsFollowHashes
  IdentityTellsContent
  RunNeverStuck
  SameImagesSound
PROPERTY
  OnlyMissingGoStale
CHECK_DEADLOCK FALSE
SYMMETRY MCSymmetry
