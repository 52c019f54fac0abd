CONSTANTS
  site = site
  db = db
  host = host
  NoServer = NoServer
  Apps <- TwoApps
  Servers <- NoHosts
  HostOf <- NoHostOf
  DependsOn <- SiteNeedsDb
  Results <- UpOrDown
  Scopes <- NoScope
  Required = 1
  MaxIncidents = 2
SPECIFICATION FairSpec
PROPERTIES
  OutageAlerted
  RecoveryClosesAll
CHECK_DEADLOCK FALSE
