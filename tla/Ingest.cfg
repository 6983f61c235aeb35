SPECIFICATION IngestSpec
CONSTANTS
  CleanSession = FALSE
  Qos = 1
  InOnConnect = TRUE
  QueueLimit = 2
  Poison = {3}
  MaxPublished = 4
  MaxBreaks = 3
  p1 = p1
  p2 = p2
  site = site
  Roster <- MCRoster
  Source = site
  Broken = {p2}
  Backfill = 1
  MaxTime = 3
  MaxSamples = 2
  MaxRevocations = 2
  MaxFailures = 1
INVARIANTS
  NothingLost
  NoGap
PROPERTIES
  EventuallyHandled
  CatchesUp
CHECK_DEADLOCK FALSE
