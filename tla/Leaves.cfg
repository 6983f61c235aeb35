SPECIFICATION LeavesSpec
CONSTANTS
  w1 = w1
  w2 = w2
  w3 = w3
  callback = callback
  main = main
  a = a
  b = b
  c = c
  d = d
  Worker <- MCWorkers
  Threshold = 2
  MaxAttempts = 2
  MaxEnables = 1
  MaxBreaks = 1
  Thread <- MCThreads
  MaxSaves = 3
  Id <- Ids
INVARIANTS
  ThresholdEnforced
  DisabledLeftAlone
  FreshAfterCalmSave
  OnlyBrokenSkipped
  OrderRespectsEdges
PROPERTIES
  DeadEndpointDisabled
  SettlesAfterCalmSave
  Returns
CHECK_DEADLOCK FALSE
