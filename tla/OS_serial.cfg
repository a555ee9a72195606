SPECIFICATION Spec
CONSTANTS
  o1 = o1
  o2 = o2
  m1 = m1
  m2 = m2
  k1 = k1
  k2 = k2
  p1 = p1
  p2 = p2
  Orders = {o1}
  Materials = {m1}
  Plants = {k1, k2}
  Revs = {0, 1}
  Parties = {p1}
  Serial = TRUE
  Upgrade = FALSE
  MaxChanges = 4
  MaxRuns = 2
  MaxFetchErrors = 1
INVARIANTS
  LinkAgrees
  NoUndetectedChange
  WaitsTruly
  NoSilentIssue
PROPERTIES
  PartsFollowPlan
