SPECIFICATION FairSpec
CONSTANTS
  o1 = o1
  o2 = o2
  m1 = m1
  m2 = m2
  k1 = k1
  k2 = k2
  p1 = p1
  p2 = p2
  Orders = {o1}
  Materials = {m1}
  Plants = {k1}
  Revs = {0, 1}
  Parties = {p1, p2}
  Serial = FALSE
  Upgrade = TRUE
  MaxChanges = 2
  MaxRuns = 1
  MaxFetchErrors = 1
INVARIANTS
  ScheduledHasPlan
PROPERTIES
  NoOrderLost
  SnapshotsSettle
