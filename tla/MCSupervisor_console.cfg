SPECIFICATION FairSpec
CONSTANTS
  None = None
  t1 = t1  t2 = t2
  Subtests <- Two
  NoVMs = {TRUE, FALSE}
  ExitOnFailure = TRUE
  ExitOnSuccess = TRUE
  FailFast = FALSE
  DefaultTimeout = 3
  EchoGrace = 2
  KillGrace = 1
  PostMortem = 2
  Watchdogs = {2}
  Spews = {"other"}
  PipeCap = 3
  Burst = 4
CHECK_DEADLOCK FALSE
INVARIANTS TypeOK VerdictIsEarned TornIsCurrent
PROPERTIES EndingStands SupervisorExits
