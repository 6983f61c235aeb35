SPECIFICATION Spec
CONSTANTS
  mean = mean
  chained = chained
  total = total
  zone = zone
  leaf = leaf
  root = root
  temp = temp
  Formula <- MCFormula
  Rollup <- MCRollup
  DependsOn <- MCDependsOn
  Interval <- MCInterval
  Targets <- MCTargets
  Inputs <- MCInputs
  Child <- MCChild
  Source <- MCSource
  Glob <- MCGlob
  Given <- MCGiven
  Window = 2
  Threshold = 1
  Fragile = {"plan", "read", "disable", "write", "derive"}
  MaxTime = 3
  MaxEvents = 1
  MaxBreaks = 1
INVARIANTS
  ChainFresh
  LineageRecorded
  GateRespected
  SweepComplete
  OnSchedule
CHECK_DEADLOCK FALSE
