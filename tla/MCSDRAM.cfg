CONSTANTS
  NoRow = NoRow
  NBanks = 2
  Rows = {0, 1}
  Cols = {0}
  Value <- MCValue
  Fresh = {1}
  Tracked <- MCTracked
  tReset = 8
  tRC = 8
  tRP = 2
  tMRD = 2
  tRCD = 2
  cas = 2
  tRef = 16
  MaxResets = 1
SPECIFICATION FairSpec
INVARIANTS CommandsLegal ReadsReturnLastWrite
PROPERTY RequestsCompleted
