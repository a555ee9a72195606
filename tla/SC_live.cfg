SPECIFICATION FairSpec
CONSTANTS
  s1 = s1
  s2 = s2
  p1 = p1
  p2 = p2
  noInstance = noInstance
  NoInstance = noInstance
  Instances = {s1, s2}
  Operators = {p1}
  Jobs = {"bom_sync"}
  Stale = 2
  MaxTasks = 2
  Serial = TRUE
INVARIANTS
  OneTaskPerJob
PROPERTIES
  StatusSettles
  QuietWhenOff
  SwitchKept
