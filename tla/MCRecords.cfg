SPECIFICATION MCSpec
CONSTANTS
  t = t
  o = o
  g1 = g1
  r1 = r1
  r2 = r2
  u1 = u1
  u2 = u2
  s1 = s1
  s2 = s2
  e1 = e1
  e2 = e2
  mail = mail
  research = research
  review = review
  Runs = {r1, r2, g1}
  Gates = {t, o}
  DefaultRequired = {t}
  DefaultOptional = {o}
  NoGoal = NoGoal
  MaxAttempts = 1
  RepeatedFailureThreshold = 2
  Steps <- MCSteps
  Sessions = {s1}
  Goals = {g1}
  LaneOrder <- MCLanes
  MissionGates = {t}
  AttemptNumbers = {0}
  FailureTypes = {"unknown", "test"}
  MaxRecords = 5
  Urls = {u1, u2}
  RunIds = {r1}
  NoName = NoName
  MaxPrRecords = 4
  Recorded = {"created", "merged", "post-merge-verified"}
  MissionRecords = 4
  Users = {s1, s2}
  Mail = {mail}
  NoUser = NoUser
  LastMailTime = 2
  MaxQueued = 2
  MaxFailedSaves = 1
  Sites = {s1, s2}
  Endpoints = {e1, e2}
  SiteOf <- MCSiteOf
  Configured = {}
  Watchers = {s1}
  Looks = {1, 2}
  None = None
  FromConfig = FromConfig
  MaxAge = 1
  LastMinute = 2
INVARIANTS
  VerifiedIsEarned
  RunsCanBeRead
  OneRunPerLink
  UnverifiedMergesAreListed
  LaterSavesCatchUp
  StoppedStaysHidden
PROPERTIES
  FinishedMailStays
  RefreshTellsWhoIsThere
CHECK_DEADLOCK FALSE
