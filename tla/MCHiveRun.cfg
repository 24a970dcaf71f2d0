SPECIFICATION FairHiveSpec
CONSTANTS
  x1 = x1
  x2 = x2
  p1 = p1
  p2 = p2
  k1 = k1
  k2 = k2
  run = run
  Sessions = {x1}
  LedgerMayFail = FALSE
  BoardMayFail = TRUE
  TheRun = run
  Peers = {p1}
  Keys = {k1}
  MaxPeers = 0
  MaxTicks = 2
  Duration = 2
  FailureThreshold = 1
  FactoryRunFailed = TRUE
  NoPeer = NoPeer
  NoSession = NoSession
  Slots = 2
  MaxNow = 2
  MaxPending = 1
  MaxEffort = 4
  MaxStarts = 2
  MaxSent = 2
  MaxFailures = 1
INVARIANTS
  OneDeadline
PROPERTIES
  EveryRunEnds
CHECK_DEADLOCK FALSE
