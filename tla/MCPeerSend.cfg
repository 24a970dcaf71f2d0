SPECIFICATION SendSpec
CONSTANTS
  lead = lead
  w1 = w1
  w2 = w2
  k1 = k1
  d1 = d1
  d2 = d2
  Peers = {lead, w1, w2}
  WorkKeys = {k1}
  NoKey = NoKey
  Messages = {d1, d2}
  NoTask = NoTask
  Paths <- MCPaths
  Link <- Pair
  Fanout = {d2}
  Inputs <- MCInputs
  OtherInputs <- ReleaseOnly
  Budget <- PairBudget
  Requirements = {}
  DefaultStaleAfter = 2
  MinPassingVotes = 0
  MinIndependentVotes = 0
  MaxEvents = 6
  Horizon = 2
  MaxTime = 2
  MayFailToAppend = TRUE
  MayStop = TRUE
INVARIANTS
  HandoffFollowsTask
PROPERTIES
  UsesBoard
  NoDuplicateDispatch
CHECK_DEADLOCK FALSE
