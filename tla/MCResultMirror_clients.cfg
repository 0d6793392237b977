SPECIFICATION Spec
CONSTANTS
  None = None
  Torn = Torn
  c1 = c1
  c2 = c2
  c3 = c3
  c4 = c4
  d1 = d1
  t1 = t1
  t2 = t2
  linux = linux
  tools = tools
  other = other
  ann = ann
  bob = bob
  eve = eve
  Commits <- MCCommits
  Tests = {t1, t2}
  Depth = 3
  MaxEmpty = 1
  Users <- MCUsers
  Linux = linux
  Repos = {linux, tools}
  Scenarios <- MCScenarios
  Clients = {p, q}
  NFresh = 1
  Updates <- MCUpdates
  Names <- MCNames
  MaxClock = 2
  MaxFaults = 1
INVARIANTS TypeOK FetchedIsFresh TipIsFresh UnreadableHasCause LogShowsTested RatesAreOfTheLog LastGoodIsTrue LinksLead ServerShowAgrees
SYMMETRY Sym
CHECK_DEADLOCK FALSE
