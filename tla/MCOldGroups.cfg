SPECIFICATION SameSpec
CONSTANTS
  r1 = r1
  w1 = w1
  w2 = w2
  Assets <- MCAssets
  ExactOf <- MCExactOf
  NearOf <- MCNearOf
  Readers <- MCReaders
  AskedFor = {1, 2, 4}
  RankWorkers <- MCWorkers
  Candidates <- MCCandidates
  MaxGroups = 2
  MaxMembers = 3
  Parallelism = 2
INVARIANT
  NothingOlderCached
CHECK_DEADLOCK FALSE
