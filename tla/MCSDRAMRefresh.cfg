CONSTANTS
  NoRow = NoRow
  NBanks = 1
  Rows = {1}
  Cols = {0}
  Value <- MCValue
  Fresh = {1}
  Tracked <- MCTracked
  tReset = 8
  tRC = 8
  tRP = 2
  tMRD = 2
  tRCD = 2
  cas = 2
  tRef = 390
  MaxResets = 0
SPECIFICATION Spec
INVARIANT RefreshInTime
