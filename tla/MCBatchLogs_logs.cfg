SPECIFICATION Spec
CONSTANTS
  None = None
  s1 = s1
  s2 = s2
  s3 = s3
  Subtests <- Three
  Executors = {e1, e2}
  MaxRuns = 3
  MaxErrors = 1
  MaxRemovals = 1
INVARIANTS TypeOK LogIsOfItsRun FailureHasLog
SYMMETRY Sym
CHECK_DEADLOCK FALSE
