CONSTANTS
  web = web
  api = api
  other = other
  Apps <- ThreeApps
  Hosted <- OnServer
  Interval <- EverySecondPoll
  MinTargets = 2
  Outages <- OutagesOrNetwork
SPECIFICATION FairSpec
PROPERTIES
  StatusSettles
  RestartChecked
