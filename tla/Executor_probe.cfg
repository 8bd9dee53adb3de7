CONSTANTS
  TimestampField = "timestamp"
  MaxLines = 2
  PipeCapacity = 1
  Faults = TRUE
SPECIFICATION FairSpec
INVARIANTS
  TypeOK
  StreamIsFaithful
  StatusIsOwn
PROPERTIES
  NoStraySignal
  EofEndsStream
  ProbeStops
CHECK_DEADLOCK FALSE
