CONSTANTS
  MaxNodes = 3
  MaxOpen = 2
  MaxBits = 1
  ReturnInDefer = TRUE
SPECIFICATION LoweringSpec
CHECK_DEADLOCK FALSE
INVARIANTS
  OnlyInstructions
