SPECIFICATION Spec
CONSTANTS
  Lines = {a, b}
  Console = Console
  DropArgs <- MCDropArgs
  MaxBuffers = 3
  MaxQueued = 3
  MaxOutput = 2
  MaxFd = 5
INVARIANTS
  TypeOK
  BaseQueueStays
  ConsoleRestored
PROPERTY
  ImplementsRexxQueue
