CONSTANTS
  Lines = 2
  Vectors = {1}
  Masks = {}
  MaxCount = 0
  Sessions <- HaltSessions
SPECIFICATION Spec
PROPERTY EntriesComplete
