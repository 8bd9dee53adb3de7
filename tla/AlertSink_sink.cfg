CONSTANTS
  MaxAlerts = 3
  UriCapacity = 1
SPECIFICATION FairSpec
INVARIANTS
  TypeOK
  Conserve
  EveryChannelTried
PROPERTIES
  OutboxSpec
  EveryAlertFlushed
  WecomReceives
CHECK_DEADLOCK FALSE
