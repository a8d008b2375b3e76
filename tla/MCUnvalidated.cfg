SPECIFICATION PrepSpec
CONSTANTS
  d1 = d1
  Databases <- MCDatabases
  Kinds <- MCKinds
  Requests <- MCRequests
  Versions = {1, 2, 3}
  Empties = {2}
  Sizes <- MCSizes
  Nothing = Nothing
INVARIANT
  OnlyValidatedPromoted
