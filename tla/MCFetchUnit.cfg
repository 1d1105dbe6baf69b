CONSTANTS
  IPSize = 8
  Segments = {1, 6}
  ResetCS = 6
  ParaWords = 1
  MemWords = 8
  Byte <- MCByte
  Mem <- MCMem
  QueueDepth = 6
  QueueThreshold = 2
  IntAccesses = 5
  SharedBus = TRUE
SPECIFICATION FairSpec
INVARIANTS StreamMatchesProgram NoByteDropped FetchInv
PROPERTIES RequestStable StreamFlows
