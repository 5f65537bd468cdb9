SPECIFICATION Spec
CONSTANTS
  a = a
  b = b
  c = c
  gone = gone
  x = x
  y = y
  Tasks = {a, b, c}
  MissingPaths = {gone}
  Contents = {x, y}
  Keys <- MCKeys
  Scenarios <- MCScenarios
  NoTask = NoTask
  NoPath = NoPath
  Parallel = 2
  Fold <- MCFold
  FsCaseSensitive = TRUE
INVARIANTS
  Exclusive
  ScanRecords
PROPERTIES
  ImplementsLocks
  ItemsKeepFiles
  ScanEnds
CHECK_DEADLOCK FALSE
