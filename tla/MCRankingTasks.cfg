SPECIFICATION RankingPagesSpec
CONSTANTS
  MaxContent = 2
  Points <- MCPoints
  MaxStarts = 2
  Faults = TRUE
  b1 = b1
  b2 = b2
  t1 = t1
  Browsers <- MCBrowsers
  Queries = {q1}
  TokenOf <- MCTokenOf
  NoToken = NoToken
  MaxRuns = 3
  Workers = 2
  CacheLimit = 2
  Archives <- MCArchives
  Rep <- MCRep
  Resolutions <- MCResolutions
  Filters <- MCFilters
  FacetLimit = 2
  DimensionLimit = 2
  CandidateLimit = 3
  CompareLimit = 2
  TopLimit = 2
  Windows = {3}
  Revived = 2
  Dormant = 2
  KeptOverviews = 1
  MaxStamp = 2
INVARIANTS
  IndexServesContent
  TasksSound
  PagesExact
PROPERTIES
  CancelledStays
  RunsEnd
CHECK_DEADLOCK FALSE
