CONSTANTS
  w1 = w1
  w2 = w2
  sig = sig
  other = other
  Writers = {w1, w2}
  Rules = {sig, other}
  Calls <- MCCalls
  Half = 2
  MaxScan = 5
  RingCapacity = 1
  Faults = TRUE
SPECIFICATION Spec
SYMMETRY Symmetry
INVARIANTS
  TypeOK
  PassedInOrder
  WindowHitIsOwn
  ExactWhenQuiet
CHECK_DEADLOCK FALSE
