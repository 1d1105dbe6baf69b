CONSTANTS
  Data = {d1, d2}
  Depth = 5
  FullThreshold = 2
SPECIFICATION Spec
PROPERTY ImplementsQueue
