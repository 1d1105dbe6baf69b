CONSTANTS
  BLOCK_SIZE = 2
  SD_NCR = 2
  MAX_DATA_START_OFFS = 2
  BUF_SIZE = 18
  POLLS = 2
  Delays = {0, 2}
  BusyTimes = {0, 7, 9}
  MaxIdle = 2
  Cards = {"sim", "sdsc", "sdhc"}
  DiskImage <- MCDiskImage
  Payloads <- MCPayloads
  MemBlocks = 2
  Calls <- MCCalls
  MaxCalls = 2
SPECIFICATION Spec
INVARIANTS TransfersFit ReadsReturnSector WritesReachSector MouseResumed
PROPERTY ReadsReturn
CHECK_DEADLOCK FALSE
