CONSTANTS
  Data = {"1"}
  MaxVars = 6
  LastVars = 4
  MaxId = 3
  MaxDepth = 3
  MaxExposed = 2
SPECIFICATION Spec
VIEW WithoutAddresses
CHECK_DEADLOCK FALSE
INVARIANTS
  TypeOK
  CacheSound
  SourcesLive
  OwnedOnce
PROPERTIES
  CallerIsolated
  ExposureKept
