CONSTANTS
  w1 = w1
  w2 = w2
  sig = sig
  other = other
  Writers = {w1}
  Rules = {sig, other}
  Calls <- MCCalls
  Half = 2
  MaxScan = 5
  RingCapacity = 2
  Faults = FALSE
SPECIFICATION Spec
INVARIANT Coverage
CHECK_DEADLOCK FALSE
