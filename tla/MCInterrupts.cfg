CONSTANTS
  Lines = 2
  Vectors = {1}
  Masks = {{0}}
  MaxCount = 2
  Sessions <- MCSessions
SPECIFICATION Spec
INVARIANTS VectorInService StringsFinish
PROPERTY NMITaken
