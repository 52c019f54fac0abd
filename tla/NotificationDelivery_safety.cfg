CONSTANTS
  outage = outage
  host = host
  Incidents <- ServerIncident
  ServerIncidents <- ServerIncident
  Routes <- EveryRoute
  Changes <- Everything
  MaxRetries = 2
  MaxRows = 3
  MaxFaults = 1
SPECIFICATION SafetySpec
INVARIANT
  EscalationFollowsAlert
PROPERTIES
  MailHeldBack
  RepeatsAreRaces
