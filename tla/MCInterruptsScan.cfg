CONSTANTS
  Lines = 2
  Vectors = {1}
  Masks = {{0}}
  MaxCount = 2
  Sessions <- ScanSessions
SPECIFICATION Spec
INVARIANT ScanStops
