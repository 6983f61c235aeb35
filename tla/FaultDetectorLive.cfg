SPECIFICATION FairSpec
CONSTANTS
  range = range
  stale = stale
  p1 = p1
  low = low
  high = high
  w1 = w1
  None = None
  Rule <- MCRule
  CurRule <- MCCurRule
  Point <- MCPoint
  Applies <- MCApplies
  Value <- MCValue
  OutOfRange <- MCOutOfRange
  Hook <- MCHook
  Wants <- MCWants
  Failures = {}
  MaxChanges = 4
  MaxInbox = 2
  MaxTime = 0
PROPERTIES
  SweepConverges
  TransitionAnnounced
  ReadingsEvaluated
