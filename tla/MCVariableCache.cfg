CONSTANTS
  Data = {"1"}
  MaxVars = 4
  LastVars = 4
  MaxId = 3
  MaxDepth = 3
  MaxExposed = 1
SPECIFICATION Spec
CHECK_DEADLOCK FALSE
INVARIANT CachedIsRight
