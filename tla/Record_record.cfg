CONSTANTS
  Channels = {"wecom", "dry_run"}
  Wrongs = {{}, {"container"}, {"rules"}, {"db"}, {"base"}, {"listen", "probe_path"}}
  OtherConfigs <- MCOtherConfigs
SPECIFICATION FairSpec
INVARIANTS
  TypeOK
  AlertsWired
  TrafficSeen
  
PROPERTIES
  StopWins
  DetectionReturns
CHECK_DEADLOCK FALSE
