CONSTANT
  MaxSaid = 4
SPECIFICATION Spec
CHECK_DEADLOCK FALSE
INVARIANTS
  TypeOK
  HandlerReady
  SpokenInOrder
PROPERTIES
  SpokenInFull
  MainReturns
  WorkerEnds
