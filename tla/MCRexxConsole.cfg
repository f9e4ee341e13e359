CONSTANTS
  Size = 2
  PipeSize = 2
  Lengths = {2, 3}
  MaxOut = 3
  MaxKeys = 2
  MaxCommands = 1
SPECIFICATION Spec
CHECK_DEADLOCK FALSE
INVARIANTS
  TypeOK
  KeysOnceInOrder
  OutputOnceInOrder
PROPERTIES
  KeyDelivered
  PromptShown
  SystemReturns
