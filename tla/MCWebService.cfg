SPECIFICATION ServiceSpec
CONSTANTS
  c1 = c1
  c2 = c2
  s1 = s1
  u1 = u1
  u2 = u2
  r1 = r1
  r2 = r2
  r3 = r3
  Clients <- MCClients
  MaxRuns = 3
  SpawnFails = TRUE
  Panics = TRUE
  CleansUp = TRUE
  Texts = {s1}
  Uploads = {u1, u2}
  Plain = {r3}
  Caching = {r1, r2}
  Traffic <- MCTraffic
  Capacity = 1
  PoolSize = 1
  MaxPanics = 1
INVARIANTS
  NothingLeaks
  PauseOfThisRun
PROPERTIES
  RequestsEnd
  PauseTakesEffect
  ImplementsTask
CHECK_DEADLOCK FALSE
