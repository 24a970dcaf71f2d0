SPECIFICATION FairIdleSpec
CONSTANTS
  me = me
  p1 = p1
  w1 = w1
  w2 = w2
  g = g
  Me = me
  Peers = {p1}
  Works = {w1, w2}
  WorkOf <- MCWork
  FitsOf <- MCFits
  Nobody = Nobody
  Coordination = {w1}
  LocalOnly = {}
  MaxActivations = 2
  Cooldown = 2
  NudgeCooldown = 1
  AutoCompact = TRUE
  Slots = {1, 2}
  MaxTime = 2
  MaxSessions = 1
INVARIANT WithinBudget
PROPERTIES
  WorkIsNoticed
CHECK_DEADLOCK FALSE
