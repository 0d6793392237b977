SPECIFICATION Spec
CONSTANTS
  None = None
  c1 = c1  c2 = c2  c3 = c3  a1 = a1  a2 = a2  b1 = b1  s1 = s1  s2 = s2  e1 = e1  e2 = e2
  Executors = {e1, e2}
  Commits = {c1}
  Keys = {a1}
  Tests = {"a"}
  TestOf <- OneSubtest
  Sources = {s1, s2}
  HasUrl = {s1, s2}
  Walks <- Shared
  VMTexts = {"PASSED"}
  JobIds = {1, 2, 3}
  Window = 4
  MaxCrashes = 0
  MaxRm = 0
  MaxGc = 0
  MaxWriteErrors = 0
  Rank <- OrderOne
  KeepCommits = 1
PROPERTIES VerdictStands
