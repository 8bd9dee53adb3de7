CONSTANTS
  Half = 2
  U32 = 8
  U64 = 32
  MaxScan = 6
  BufferSize = 6
  NameSize = 6
  MaxPrefixes = 2
  Messages = {"a", "b", "c", ""}
  MaxLines = 2
  MaxLogged = 6
SPECIFICATION Spec
INVARIANT EightAreWatched
CHECK_DEADLOCK FALSE
