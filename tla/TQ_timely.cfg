SPECIFICATION Spec
CONSTANTS
  w1 = w1
  w2 = w2
  t1 = t1
  t2 = t2
  p1 = p1
  p2 = p2
  k1 = k1
  noWorker = noWorker
  noTask = noTask
  noKey = noKey
  Workers = {w1, w2}
  Tasks = {t1, t2}
  Producers = {p1, p2}
  Keys = {k1}
  MaxAttempts = 2
  MaxInterruptions = 2
  Timely = TRUE
  NoWorker = noWorker
  NoTask = noTask
  NoKey = noKey
SYMMETRY Symmetry
INVARIANTS
  Exclusive
  ClaimKept
  JobAgrees
  DuplicatesBounded
PROPERTIES
  TerminalIsFinal
  ImplementsContract
