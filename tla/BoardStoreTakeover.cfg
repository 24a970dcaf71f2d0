SPECIFICATION Spec
CONSTANTS
  p1 = p1
  p2 = p2
  p3 = p3
  Procs = {p1, p2, p3}
  NoProc = NoProc
  Crashers = {p1}
  MayTear = FALSE
  MayCorrupt = FALSE
  MaxUpdates = 1
INVARIANTS
  NoLostUpdate
