SPECIFICATION Spec
CONSTANTS
  FirstYear = 2021
  LastYear = 2026
  Name <- MCName
  Number <- MCNumber
  Quoted <- MCQuoted
  Reference <- MCReference
  ValidSpan <- MCValidSpan
  ValidInterval <- MCValidInterval
  HAYSTACK_TO_BRICK_TAG <- MCSpelling
  Low <- MCLow
  ClassLike <- MCClassLike
  NearMiss = {"temperture"}
  ValueOf <- MCValueOf
  SpanOf <- MCSpanOf
  UriOrder <- MCUriOrder
  MaxLimit <- MCMaxLimit
  Fact <- MCFact
  Row <- MCRow
  MaxWrites = 2
  COMPONENTS <- MCCOMPONENTS
  OPS_QUIET_INGEST_SECONDS = 900
  Seen <- MCSeen
  MaxChanges = 1
INVARIANTS MissingTagUnmatched
CHECK_DEADLOCK FALSE
