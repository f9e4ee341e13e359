CONSTANTS
  Bytes = {"a", "nl"}
  Newline = "nl"
  BufSize = 2
  MinUnget = 1
  Consoles = {"in"}
  Names = {"f", "g"}
  Idle = {"g"}
  Contents <- MCContents
  Strings <- MCStrings
  Starts = {0, 1, 2}
  Counts = {2}
  MaxLen <- MCMaxLen
  MaxLine = 3
SPECIFICATION Spec
VIEW WithoutCall
CHECK_DEADLOCK FALSE
INVARIANTS
  TypeOK
  CacheFound
  LineCounted
PROPERTIES
  ImplementsRexxStreams
