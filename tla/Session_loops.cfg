CONSTANTS
  Runners = {r1, r2}
  MaxSignals = 2
SPECIFICATION FairSpec
INVARIANTS
  TypeOK
  ErrorReported
PROPERTIES
  FailureEndsSession
  StreamEndStops
  TimerStops
  SignalStopsWaitingLoop
CHECK_DEADLOCK FALSE
