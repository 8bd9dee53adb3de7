CONSTANTS
  Runners = {r1, r2}
  MaxSignals = 1
SPECIFICATION FairSpec
PROPERTY SignalStops
CHECK_DEADLOCK FALSE
