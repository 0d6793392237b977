SPECIFICATION FairSpec
CONSTANTS
  None = None
  g1 = g1  g2 = g2  g3 = g3  g4 = g4
  Groups = {g1, g2, g3, g4}
  EnvVars = {1}
  Unencodable = {9}
  Scenarios <- AllScenarios
  Contents <- Lists
  DurationDef = 30
  MaxEdits = 2
  MaxFailures = 1
INVARIANTS TypeOK StackIsPath ResolvedIsNearest AcceptsWellFormed CacheIsCurrent WindowIsBest SearchFinds
PROPERTIES MatrixCatchesUp
