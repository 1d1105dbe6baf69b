CONSTANTS
  N = 3
  Keymap <- MCKeymap
  Presses <- MCPresses
  Chars = {"nul", "c"}
  Day = 2
  Wrap = 3
  Sessions <- MCSessions
  MaxNesting = 2
SPECIFICATION Spec
INVARIANTS KeysInOrder PacketsWhole LinesReleased
PROPERTIES WaitReturns TicksServed
