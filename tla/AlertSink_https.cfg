CONSTANTS
  MaxAlerts = 2
  UriCapacity = 2
SPECIFICATION Spec
INVARIANT PushArrives
CHECK_DEADLOCK FALSE
