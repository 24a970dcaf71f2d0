SPECIFICATION FairSpec
CONSTANTS
  p1 = p1
  p2 = p2
  p3 = p3
  Procs = {p1, p2}
  NoProc = NoProc
  Crashers = {p1}
  MayTear = TRUE
  MayCorrupt = TRUE
  MaxUpdates = 3
INVARIANTS
  NoLostUpdate
PROPERTIES
  DeadOwnerIsReplaced
