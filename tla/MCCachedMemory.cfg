CONSTANTS
  Tags = {t1, t2}
  Lines = 2
  LineWords = 2
  Fresh = {1, 2}
  Other = 0
  Value <- MCValue
  Tracked <- MCTracked
  ResetHold = 2
  MaxResets = 0
SPECIFICATION FairSpec
INVARIANTS ReadsReturnLastWrite CleanLinesMatchMemory
PROPERTIES TransferStable RequestsAnswered
