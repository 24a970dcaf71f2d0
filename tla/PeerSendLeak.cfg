SPECIFICATION FairSendSpec
CONSTANTS
  lead = lead
  w1 = w1
  w2 = w2
  k1 = k1
  d1 = d1
  d2 = d2
  Peers = {lead, w1}
  WorkKeys = {k1}
  NoKey = NoKey
  Messages = {d1}
  NoTask = NoTask
  Paths <- MCPaths
  Link <- Alone
  Fanout = {}
  Inputs <- MCInputs
  OtherInputs <- Fulfilled
  Budget <- MCBudget
  Requirements = {}
  DefaultStaleAfter = 2
  MinPassingVotes = 0
  MinIndependentVotes = 0
  MaxEvents = 8
  Horizon = 1
  MaxTime = 2
  MayFailToAppend = FALSE
  MayStop = FALSE
PROPERTY AnswerReleasesClaim
CHECK_DEADLOCK FALSE
