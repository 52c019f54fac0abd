CONSTANTS
  site = site
  db = db
  host = host
  NoServer = NoServer
  Apps <- OneApp
  Servers <- OneHost
  HostOf <- OneHostOf
  DependsOn <- NoDepends
  Results <- AnyResult
  Scopes <- OneScope
  Required = 2
  MaxIncidents = 3
SPECIFICATION Spec
INVARIANTS
  DuplicateOnlyByReopen
  RecoveredMeansClosed
PROPERTIES
  NewIncidentIsNewOutage
  NoAlertOnABlip
