SPECIFICATION Spec
CONSTANTS
  p1 = p1
  e1 = e1
  e2 = e2
  zone = zone
  air = air
  fan = fan
  api1 = api1
  api2 = api2
  lsn = lsn
  pull = pull
  auto = auto
  Point <- MCPoint
  Equip <- MCEquip
  Rules <- MCRules
  EquipRules <- MCEquipRules
  Payload <- MCPayload
  Grouping <- MCGrouping
  Pair <- MCPair
  Worker <- MCWorker
  Kind <- MCKind
  MaxAttempts = 2
  MaxJobs = 3
  MaxFailures = 2
INVARIANTS
  ClassKept
  ClassJustified
  ReadSideFirst
  MergedSeeAll
PROPERTIES
  LoneReclassifyReplaces
  RetaggedIsLinked
CHECK_DEADLOCK FALSE
