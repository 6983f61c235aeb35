SPECIFICATION Spec
CONSTANTS
  k1 = k1
  s1 = s1
  s2 = s2
  u1 = u1
  Key = {k1}
  Session = {s1, s2}
  User = {u1}
  UserOf <- MCUserOf
  Rank <- MCRank
  Limit <- MCLimit
  MinRank = {1, 2}
  Timeout = 3
  Window = 2
  MaxLife = 1
  MaxFailures = 2
INVARIANTS RevocationHolds GrantsBounded
PROPERTY RevocationTakesHold
