SPECIFICATION Spec
CONSTANTS
  Conds = {"NOTREADY"}
  StackSize = 4
  MaxSets = 2
  MaxDepth = 2
  MaxArgs = 1
CHECK_DEADLOCK FALSE
INVARIANT
  DisabledIsSyntaxOnly
