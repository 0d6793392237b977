SPECIFICATION FairSpec
CONSTANTS
  None = None
  t1 = t1  t2 = t2
  Subtests <- One
  NoVMs = {FALSE}
  ExitOnFailure = TRUE
  ExitOnSuccess = TRUE
  FailFast = FALSE
  DefaultTimeout = 3
  EchoGrace = 2
  KillGrace = 1
  PostMortem = 2
  Watchdogs = {2}
  Spews = {"other", "BUG"}
  PipeCap = 2
  Burst = 3
CHECK_DEADLOCK FALSE
PROPERTIES SupervisorExits
