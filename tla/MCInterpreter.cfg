SPECIFICATION Spec
VIEW WithoutEnds
CONSTANTS
  Conds = {"ERROR", "NOTREADY"}
  StackSize = 3
  MaxSets = 2
  MaxDepth = 2
  MaxArgs = 1
CHECK_DEADLOCK FALSE
INVARIANTS
  TypeOK
  ScopesMatch
  SettingsMatch
  LevelMatch
  OperandsKept
