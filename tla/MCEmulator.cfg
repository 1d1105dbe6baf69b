SPECIFICATION Spec
CONSTANTS
  TrapEscape = FALSE
  MaxPrefixes = 15
  IrqNumbers = {8}
  MaxRaises = 1
  WordValues <- MCWordValues
  Programs = {"arith", "immediate", "multiply", "bytes", "shifts", "stack", "calls",
              "loops", "strings", "switch", "trap", "addressing", "ports", "flags"}
INVARIANTS
  InterruptsTransparent
  InterruptsServedOnce
  EveryInstructionTraced
  InverseInstructionsCancel
  StackDiscipline
  DataReachesDestination
  ComparisonOrder
  MultiPrecision
  DecimalAdjust
  DivisionUndoesMultiplication
  ShiftsAreArithmetic
PROPERTY ProgramsFinish
CHECK_DEADLOCK FALSE
