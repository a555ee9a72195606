SPECIFICATION Spec
CONSTANTS
  w1 = w1
  w2 = w2
  r1 = r1
  i1 = i1
  i2 = i2
  i3 = i3
  Workers = {w1, w2}
  Requests = {r1}
  Items = {i1, i2}
  MaxFailCount = 2
  BatchSize = 1
  MaxItemsPerRun = 2
  Prompt = FALSE
  MaxEnqueues = 2
  MaxRetries = 1
  MaxFaults = 1
SYMMETRY Symmetry
INVARIANTS
  NoStrandWithoutFault
  SuccessHasBom
