SPECIFICATION Spec
CONSTANTS
  noRow = noRow
  r1 = r1
  r2 = r2
  NoRow = noRow
  Keys = {1, 2}
  HistoryKeys = {1}
  Histories <- MCHistories
  Rebuilders = {r1}
  MaxId = 3
  MaxChanges = 2
  MaxEdits = 1
  MaxFailures = 1
PROPERTIES
  ManualKept
