SPECIFICATION MCSpec
CONSTANTS
  lead = lead
  w1 = w1
  k1 = k1
  d1 = d1
  x1 = x1
  p1 = p1
  p2 = p2
  child1 = child1
  child2 = child2
  c1 = c1
  c2 = c2
  Peers = {lead, w1}
  WorkKeys = {k1}
  NoKey = NoKey
  Messages = {d1}
  NoTask = NoTask
  Paths <- MCPaths
  Link <- Alone
  Fanout = {}
  Inputs <- MCInputs
  OtherInputs <- Nobody
  Budget <- MCBudget
  Requirements = {}
  DefaultStaleAfter = 2
  MinPassingVotes = 0
  MinIndependentVotes = 0
  MaxEvents = 20
  Horizon = 1
  MaxTime = 2
  MayFailToAppend = TRUE
  MayStop = FALSE
  Sessions = {x1}
  Owner <- OneSession
  LedgerMayFail = TRUE
  MayTear = TRUE
  MaxStarts = 3
  Ids = {p1, p2}
  Kids = {child1, child2}
  NoKid = NoKid
  Starts = {c1, c2}
  Requests <- MCRequests
  SubrunIds = {d1}
  Commands = {c1, c2}
  MaxSubrunRecords = 3
  GivenCounts <- MCCounts
INVARIANTS
  DoneLeavesNothing
  OnlyRivalsAreForgotten
  BlockedIsNotDone
PROPERTIES
  NoClaimOutlivesItsDispatch
  OrphansAreMirrored
CHECK_DEADLOCK FALSE
