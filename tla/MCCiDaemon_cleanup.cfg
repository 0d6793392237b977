SPECIFICATION Spec
CONSTANTS
  None = None
  c1 = c1  c2 = c2  c3 = c3  a1 = a1  a2 = a2  b1 = b1  s1 = s1  s2 = s2  e1 = e1  e2 = e2
  Executors = {e1}
  Commits = {c1, c2}
  Keys = {a1}
  Tests = {"a"}
  TestOf <- OneSubtest
  Sources = {s1, s2}
  HasUrl = {s1}
  Walks <- Leaving
  VMTexts = {"PASSED", "garbled"}
  JobIds = {1, 2}
  Window = 2
  MaxCrashes = 1
  MaxRm = 1
  MaxGc = 1
  MaxWriteErrors = 0
  Rank <- OrderTwo
  KeepCommits = 1
INVARIANTS SafeInv
PROPERTIES BranchResultsKept
