CONSTANTS
  outage = outage
  host = host
  Incidents <- AppIncident
  ServerIncidents <- NoServerIncident
  Routes <- MailOnly
  Changes <- CalendarAndServer
  MaxRetries = 2
  MaxRows = 1
  MaxFaults = 0
SPECIFICATION FairSpec
PROPERTY
  HeldIsDelayedNeverLost
