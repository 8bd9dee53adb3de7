CONSTANTS
  MaxAlerts = 2
  UriCapacity = 2
SPECIFICATION Spec
INVARIANT ExitDrains
CHECK_DEADLOCK FALSE
