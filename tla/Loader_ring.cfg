CONSTANTS
  Cpus = {c1, c2}
  MaxEvents = 3
  RingCapacity = 2
  PipeCapacity = 1
  Faults = TRUE
SPECIFICATION FairSpec
INVARIANTS
  TypeOK
  PrintedInOrder
  PrintedWhole
  StatusTells
PROPERTIES
  FeedSpec
  EventPrinted
  SignalEnds
CHECK_DEADLOCK FALSE
