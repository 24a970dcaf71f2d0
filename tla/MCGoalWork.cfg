SPECIFICATION MCSpec
CONSTANTS
  p1 = p1
  p2 = p2
  k1 = k1
  k2 = k2
  m1 = m1
  Peers = {p1, p2}
  WorkKeys = {k1, k2}
  NoKey = NoKey
  Messages = {m1}
  NoTask = NoTask
  Paths <- MCPaths
  Inputs <- MCInputs
  Budget <- MCBudget
  Requirements <- MCRequirements
  DefaultStaleAfter = 2
  MinPassingVotes = 1
  MinIndependentVotes = 1
  MaxEvents = 6
  MaxTime = 4
  ScoutKey <- MCScoutKey
  LaneKeys = {k1, k2}
  PolicyKeys = {}
  LaneKey <- MCLaneKey
  PlanLanes <- MCPlans
  SeedLanes <- MCSeeds
  FanoutPeers <- MCFanouts
  MaxCommands = 1
INVARIANTS
  WriteExclusion
  KeyExclusion
  FulfilledKeysStayQuiet
  SomethingToDo
PROPERTIES
  ImplementsLease
  NormalCloseFinishesPlan
  FinishedTaskStaysFinished
  NormalCloseIsSettled
CHECK_DEADLOCK FALSE
